-------------------------- MODULE AuditTrailProofs --------------------------
(***************************************************************************)
(* What AuditTrail promises, for every set of rows, every capacity of the  *)
(* channel, every batch size and every number of restarts.                 *)
(*                                                                         *)
(* The rows on their way - inserted, in the batch, in the channel, in this *)
(* order - are one sequence, the pipeline.  Every step of the writer either*)
(* leaves it as it is, or cuts a stretch out of it; a request that is      *)
(* accepted extends it and the history of what was accepted alike.         *)
(***************************************************************************)
EXTENDS AuditTrail, SequenceTheorems, TLAPS

-----------------------------------------------------------------------------
(* Sequences: what Within survives.                                        *)

\* Two sequences extended by the same element stay one within the other.
LEMMA WithinAppend ==
  ASSUME NEW S, NEW s \in Seq(S), NEW t \in Seq(S), NEW e \in S, Within(s, t)
  PROVE  Within(Append(s, e), Append(t, e))
<1> DEFINE s1 == Append(s, e)
           t1 == Append(t, e)
<1>1. /\ s1 \in Seq(S) /\ Len(s1) = Len(s) + 1 /\ s1[Len(s) + 1] = e
      /\ \A i \in 1 .. Len(s) : s1[i] = s[i]
      /\ DOMAIN s1 = 1 .. Len(s) + 1 /\ Len(s) \in Nat /\ DOMAIN s = 1 .. Len(s)
  BY AppendProperties, LenProperties
<1>2. /\ t1 \in Seq(S) /\ Len(t1) = Len(t) + 1 /\ t1[Len(t) + 1] = e
      /\ \A i \in 1 .. Len(t) : t1[i] = t[i]
      /\ DOMAIN t1 = 1 .. Len(t) + 1 /\ Len(t) \in Nat /\ DOMAIN t = 1 .. Len(t)
  BY AppendProperties, LenProperties
<1> HIDE DEF s1, t1
<1>3. ASSUME NEW i \in 1 .. Len(s) PROVE \E p \in 1 .. Len(t) : t[p] = s[i]
  BY <1>1, <1>2 DEF Within, Contains
<1>4. ASSUME NEW i \in DOMAIN s1 PROVE Contains(t1, s1[i])
  <2>1. CASE i <= Len(s)
    <3>1. PICK p \in 1 .. Len(t) : t[p] = s[i]
      BY <1>1, <1>3, <2>1
    <3>2. QED
      BY <1>1, <1>2, <2>1, <3>1 DEF Contains
  <2>2. CASE i = Len(s) + 1
    BY <1>1, <1>2, <2>2 DEF Contains
  <2>3. QED
    BY <1>1, <2>1, <2>2
<1>5. ASSUME NEW i \in DOMAIN s1, NEW j \in DOMAIN s1, i < j
      PROVE  \E p, q \in DOMAIN t1 : p < q /\ t1[p] = s1[i] /\ t1[q] = s1[j]
  <2>1. CASE j <= Len(s)
    <3>1. PICK p \in DOMAIN t, q \in DOMAIN t :
                 p < q /\ t[p] = s[i] /\ t[q] = s[j]
      BY <1>1, <1>5, <2>1 DEF Within
    <3>2. QED
      BY <1>1, <1>2, <1>5, <2>1, <3>1
  <2>2. CASE j = Len(s) + 1
    <3>1. i \in 1 .. Len(s)
      BY <1>1, <1>5, <2>2
    <3>2. PICK p \in 1 .. Len(t) : t[p] = s[i]
      BY <1>3, <3>1
    <3>3. QED
      BY <1>1, <1>2, <2>2, <3>1, <3>2
  <2>3. QED
    BY <1>1, <2>1, <2>2
<1>6. QED
  BY <1>4, <1>5 DEF Within, s1, t1

\* The outer sequence may grow alone.
LEMMA WithinGrows ==
  ASSUME NEW S, NEW s \in Seq(S), NEW t \in Seq(S), NEW e \in S, Within(s, t)
  PROVE  Within(s, Append(t, e))
<1> DEFINE t1 == Append(t, e)
<1>1. /\ t1 \in Seq(S) /\ Len(t1) = Len(t) + 1
      /\ \A i \in 1 .. Len(t) : t1[i] = t[i]
      /\ DOMAIN t1 = 1 .. Len(t) + 1 /\ Len(t) \in Nat /\ DOMAIN t = 1 .. Len(t)
  BY AppendProperties, LenProperties
<1> HIDE DEF t1
<1>2. ASSUME NEW i \in DOMAIN s PROVE Contains(t1, s[i])
  BY <1>1 DEF Within, Contains
<1>3. ASSUME NEW i \in DOMAIN s, NEW j \in DOMAIN s, i < j
      PROVE  \E p, q \in DOMAIN t1 : p < q /\ t1[p] = s[i] /\ t1[q] = s[j]
  BY <1>1, <1>3 DEF Within
<1>4. QED
  BY <1>2, <1>3 DEF Within, t1

\* A stretch cut out of the inner sequence leaves it within the outer one.
LEMMA WithinCut ==
  ASSUME NEW S, NEW a \in Seq(S), NEW b \in Seq(S), NEW c \in Seq(S), NEW t,
         Within((a \o b) \o c, t)
  PROVE  Within(a \o c, t)
<1> DEFINE s == (a \o b) \o c
           u == a \o c
           from(i) == IF i <= Len(a) THEN i ELSE i + Len(b)
<1>1. Len(a) \in Nat /\ Len(b) \in Nat /\ Len(c) \in Nat
  BY LenProperties
<1>2. /\ u \in Seq(S) /\ Len(u) = Len(a) + Len(c) /\ DOMAIN u = 1 .. Len(u)
      /\ \A i \in 1 .. Len(a) + Len(c) :
           u[i] = IF i <= Len(a) THEN a[i] ELSE c[i - Len(a)]
  BY ConcatProperties, LenProperties
<1>3. /\ a \o b \in Seq(S) /\ Len(a \o b) = Len(a) + Len(b)
      /\ \A i \in 1 .. Len(a) + Len(b) :
           (a \o b)[i] = IF i <= Len(a) THEN a[i] ELSE b[i - Len(a)]
  BY ConcatProperties
<1>4. /\ s \in Seq(S) /\ Len(s) = Len(a) + Len(b) + Len(c)
      /\ DOMAIN s = 1 .. Len(s)
      /\ \A i \in 1 .. Len(a) + Len(b) + Len(c) :
           s[i] = IF i <= Len(a) + Len(b) THEN (a \o b)[i]
                                          ELSE c[i - (Len(a) + Len(b))]
  BY <1>3, ConcatProperties, LenProperties
<1> HIDE DEF s, u
<1>5. ASSUME NEW i \in DOMAIN u PROVE from(i) \in DOMAIN s /\ s[from(i)] = u[i]
  <2>1. CASE i <= Len(a)
    BY <1>1, <1>2, <1>3, <1>4, <2>1
  <2>2. CASE ~(i <= Len(a))
    <3>1. i + Len(b) \in 1 .. Len(a) + Len(b) + Len(c)
          /\ ~(i + Len(b) <= Len(a) + Len(b))
          /\ (i + Len(b)) - (Len(a) + Len(b)) = i - Len(a)
      BY <1>1, <1>2, <2>2
    <3>2. QED
      BY <1>1, <1>2, <1>4, <2>2, <3>1
  <2>3. QED
    BY <2>1, <2>2
<1>6. ASSUME NEW i \in DOMAIN u, NEW j \in DOMAIN u, i < j
      PROVE  from(i) < from(j)
  BY <1>1, <1>2, <1>6
<1>7. Within(s, t)
  BY DEF s
<1> HIDE DEF from
<1>8. ASSUME NEW i \in DOMAIN u PROVE Contains(t, u[i])
  BY <1>5, <1>7 DEF Within
<1>9. ASSUME NEW i \in DOMAIN u, NEW j \in DOMAIN u, i < j
      PROVE  \E p, q \in DOMAIN t : p < q /\ t[p] = u[i] /\ t[q] = u[j]
  <2>1. /\ from(i) \in DOMAIN s /\ s[from(i)] = u[i]
        /\ from(j) \in DOMAIN s /\ s[from(j)] = u[j]
    BY <1>5
  <2>2. from(i) < from(j)
    BY <1>6, <1>9
  <2>3. PICK p \in DOMAIN t, q \in DOMAIN t :
               p < q /\ t[p] = s[from(i)] /\ t[q] = s[from(j)]
    BY <1>7, <2>1, <2>2 DEF Within
  <2>4. QED
    BY <2>1, <2>3
<1>10. QED
  BY <1>8, <1>9 DEF Within, u

\* What ends the inner sequence may go.
LEMMA WithinPrefix ==
  ASSUME NEW S, NEW a \in Seq(S), NEW b \in Seq(S), NEW t, Within(a \o b, t)
  PROVE  Within(a, t)
<1>1. (a \o b) \o <<>> = a \o b /\ a \o <<>> = a /\ <<>> \in Seq(S)
  BY ConcatProperties, ConcatEmptySeq, EmptySeq
<1>2. QED
  BY <1>1, WithinCut

\* What goes from the head of one part to the end of the part before it does
\* not move.
LEMMA HeadMoves ==
  \A a, b, c \in Seq(Rows) : c # <<>> =>
    (a \o Append(b, Head(c))) \o Tail(c) = (a \o b) \o c
<1> SUFFICES ASSUME NEW a \in Seq(Rows), NEW b \in Seq(Rows),
                    NEW c \in Seq(Rows), c # <<>>
             PROVE  (a \o Append(b, Head(c))) \o Tail(c) = (a \o b) \o c
  OBVIOUS
<1> DEFINE e == <<Head(c)>>
<1>1. /\ Head(c) \in Rows /\ Tail(c) \in Seq(Rows) /\ Len(Tail(c)) = Len(c) - 1
      /\ \A i \in 1 .. Len(Tail(c)) : Tail(c)[i] = c[i + 1]
      /\ Head(c) = c[1] /\ Len(c) \in Nat /\ Len(c) > 0
  BY HeadTailProperties, EmptySeq, LenProperties
<1>2. e \in Seq(Rows) /\ Len(e) = 1 /\ e[1] = Head(c)
  BY <1>1
<1>3. e \o Tail(c) = c
  <2>1. /\ e \o Tail(c) \in Seq(Rows) /\ Len(e \o Tail(c)) = Len(e) + Len(Tail(c))
        /\ \A i \in 1 .. Len(e) + Len(Tail(c)) :
             (e \o Tail(c))[i] = IF i <= Len(e) THEN e[i] ELSE Tail(c)[i - Len(e)]
    BY <1>1, <1>2, ConcatProperties
  <2>2. ASSUME NEW i \in 1 .. Len(c) PROVE (e \o Tail(c))[i] = c[i]
    <3>1. CASE i = 1
      BY <1>1, <1>2, <2>1, <3>1
    <3>2. CASE i > 1
      <4>1. i - 1 \in 1 .. Len(Tail(c)) /\ ~(i <= Len(e)) /\ i - 1 + 1 = i
        BY <1>1, <1>2, <3>2
      <4>2. QED
        BY <1>1, <1>2, <2>1, <4>1
    <3>3. QED
      BY <3>1, <3>2
  <2>3. Len(e \o Tail(c)) = Len(c)
    BY <1>1, <1>2, <2>1
  <2>4. QED
    BY <2>1, <2>2, <2>3, SeqEqual
<1>4. Append(b, Head(c)) = b \o e
  BY <1>1, AppendIsConcat
<1> HIDE DEF e
<1>5. \A x \in Seq(Rows) : (a \o b) \o x = a \o (b \o x)
  BY ConcatAssociative
<1>6. \A x, y \in Seq(Rows) : ((a \o b) \o x) \o y = (a \o b) \o (x \o y)
  <2>1. a \o b \in Seq(Rows)
    BY ConcatProperties
  <2>2. \A w, x, y \in Seq(Rows) : (w \o x) \o y = w \o (x \o y)
    BY ConcatAssociative
  <2>3. QED
    BY <2>1, <2>2, Zenon
<1>7. a \o Append(b, Head(c)) = (a \o b) \o e
  BY <1>2, <1>4, <1>5, Zenon
<1>8. ((a \o b) \o e) \o Tail(c) = (a \o b) \o c
  BY <1>1, <1>2, <1>3, <1>6, Zenon
<1>9. QED
  BY <1>7, <1>8, Zenon

-----------------------------------------------------------------------------
(* The inductive invariant.                                                *)

\* The rows of the batch that still have to be inserted.
ToInsert == IF put = -1 THEN batch ELSE <<>>

\* The rows on their way, the oldest first.
Pipeline == (mirror \o ToInsert) \o queue

\* The writer: a batch is being written only if it has rows, and the loop over
\* the bucket stays inside it; a batch that is not being written has room.
WriterInv ==
  /\ put >= 0 => writing /\ put < Len(batch)
  /\ writing => batch # <<>>
  /\ ~writing => Len(batch) < BatchMax

\* Only judged requests were accepted, and none twice.
AcceptedOnce ==
  /\ \A i \in DOMAIN arrived : arrived[i] \in judged
  /\ \A i, j \in DOMAIN arrived : arrived[i] = arrived[j] => i = j

Inv == TypeOK /\ WriterInv /\ AcceptedOnce /\ RowsAreWrittenAtMostOnce

\* No row is on its way, or in the table, twice: a request has one row of the
\* audit whatever failed and however often the process came back.
EachRowOnce ==
  \A i, j \in DOMAIN Pipeline : Pipeline[i] = Pipeline[j] => i = j

\* The property, said of the whole pipeline as one sequence.
LEMMA PipelineDef == RowsAreWrittenAtMostOnce <=> Within(Pipeline, arrived)
BY DEF RowsAreWrittenAtMostOnce, Pipeline, ToInsert

\* The empty sequence is one of rows.
LEMMA NoRows == <<>> \in Seq(Rows) /\ Len(<<>>) = 0
BY EmptySeq

\* An empty sink, as the process starts with, is well typed.
LEMMA SinkStarts == SinkInit => SinkTypeOK
<1> SUFFICES ASSUME SinkInit PROVE SinkTypeOK
  OBVIOUS
<1>1. queue \in Seq(Rows) /\ batch \in Seq(Rows)
  BY NoRows, Zenon DEF SinkInit
<1>2. Len(queue) <= Cap /\ Len(batch) <= BatchMax
  BY NoRows, SinkAssumption DEF SinkInit
<1>3. writing \in BOOLEAN
  BY DEF SinkInit
<1>4. QED
  BY <1>1, <1>2, <1>3, Zenon DEF SinkTypeOK

\* It stays well typed when its batch is emptied.
LEMMA SinkEmptied ==
  ASSUME SinkTypeOK, queue' \in Seq(Rows), Len(queue') <= Cap,
         batch' = <<>>, writing' = FALSE
  PROVE  SinkTypeOK'
<1>1. batch' \in Seq(Rows)
  BY NoRows, Zenon
<1>2. Len(batch') <= BatchMax
  BY NoRows, SinkAssumption
<1>3. writing' \in BOOLEAN
  OBVIOUS
<1>4. QED
  BY <1>1, <1>2, <1>3, Zenon DEF SinkTypeOK

\* What is still to be inserted is a sequence of rows.
LEMMA ToInsertType == TypeOK => ToInsert \in Seq(Rows)
<1> SUFFICES ASSUME TypeOK PROVE ToInsert \in Seq(Rows)
  OBVIOUS
<1>1. batch \in Seq(Rows)
  BY DEF TypeOK, SinkTypeOK
<1>2. <<>> \in Seq(Rows)
  BY NoRows
<1>3. QED
  BY <1>1, <1>2, Zenon DEF ToInsert

\* Before the first row there is nothing to order.
LEMMA InitInv == Init => Inv
<1> SUFFICES ASSUME Init PROVE Inv
  OBVIOUS
<1> USE DEF Init
<1>1. TypeOK
  BY NoRows, SinkStarts, SinkAssumption, TrailAssumption DEF TypeOK
<1>2. WriterInv
  BY NoRows, SinkAssumption DEF WriterInv, SinkInit
<1>3. AcceptedOnce
  BY DEF AcceptedOnce
<1>4. RowsAreWrittenAtMostOnce
  <2>1. Pipeline = <<>>
    BY DEF Pipeline, ToInsert, SinkInit
  <2>2. Within(<<>>, arrived)
    BY DEF Within
  <2>3. QED
    BY <2>1, <2>2, PipelineDef
<1>5. QED
  BY <1>1, <1>2, <1>3, <1>4 DEF Inv

\* The types and the writer's state are kept by every step.
LEMMA StepTypes == Inv /\ [Next]_vars => TypeOK' /\ WriterInv'
<1> SUFFICES ASSUME TypeOK, WriterInv, [Next]_vars PROVE TypeOK' /\ WriterInv'
  BY DEF Inv
<1> USE SinkAssumption, TrailAssumption
<1>1. ASSUME NEW r \in Rows, classifyAndAudit(r) PROVE TypeOK' /\ WriterInv'
  <2>1. /\ Append(queue, r) \in Seq(Rows) /\ Append(arrived, r) \in Seq(Rows)
        /\ Len(Append(queue, r)) = Len(queue) + 1
    BY AppendProperties DEF TypeOK, SinkTypeOK
  <2>2. queue' \in Seq(Rows) /\ Len(queue') <= Cap
    BY <1>1, <2>1
       DEF classifyAndAudit, Enqueue, Accepts, TypeOK, SinkTypeOK
  <2>3. QED
    BY <1>1, <2>1, <2>2
       DEF classifyAndAudit, Enqueue, TypeOK, SinkTypeOK, WriterInv
<1>2. CASE Receive
  <2>1. /\ Head(queue) \in Rows /\ Tail(queue) \in Seq(Rows)
        /\ Len(Tail(queue)) = Len(queue) - 1
    BY <1>2, HeadTailProperties DEF Receive, Take, TypeOK, SinkTypeOK
  <2>2. /\ Append(batch, Head(queue)) \in Seq(Rows)
        /\ Append(batch, Head(queue)) # <<>>
        /\ Len(Append(batch, Head(queue))) = Len(batch) + 1
    BY <2>1, AppendProperties DEF TypeOK, SinkTypeOK
  <2>3. Len(queue) \in Nat /\ Len(batch) \in Nat
    BY LenProperties DEF TypeOK, SinkTypeOK
  <2>4. /\ ~writing /\ put = -1 /\ Len(batch) < BatchMax
        /\ queue' = Tail(queue) /\ batch' = Append(batch, Head(queue))
        /\ writing' = (Len(batch') >= BatchMax)
        /\ UNCHANGED <<judged, put, mirror, worm, wormOn, arrived, crashes>>
    BY <1>2 DEF Receive, Take, TypeOK, WriterInv
  <2>5. SinkTypeOK'
    BY <2>1, <2>2, <2>3, <2>4 DEF TypeOK, SinkTypeOK
  <2>6. TypeOK'
    BY <2>4, <2>5 DEF TypeOK
  <2>7. WriterInv'
    <3>1. ~(put' >= 0)
      BY <2>4
    <3>2. batch' # <<>>
      <4>1. batch' = Append(batch, Head(queue))
        BY <2>4
      <4>2. Append(batch, Head(queue)) # <<>>
        BY <2>2
      <4>3. QED
        BY <4>1, <4>2, Zenon
    <3>3. ~writing' => Len(batch') < BatchMax
      <4>1. ~writing' <=> ~(Len(batch') >= BatchMax)
        BY <2>4, Zenon
      <4>2. Len(batch') \in Nat
        BY <2>2, <2>3, <2>4
      <4>3. QED
        BY <4>1, <4>2, SinkAssumption
    <3>4. QED
      BY <3>1, <3>2, <3>3, Zenon DEF WriterInv
  <2>8. QED
    BY <2>6, <2>7
<1>3. CASE Tick
  BY <1>3 DEF Tick, TickerFires, TypeOK, SinkTypeOK, WriterInv
<1>4. CASE Insert
  <2>1. mirror \o batch \in Seq(Rows)
    BY ConcatProperties DEF TypeOK, SinkTypeOK
  <2>2. Len(batch) \in Nat \ {0} /\ Len(<<>>) = 0 /\ <<>> \in Seq(Rows)
    BY <1>4, EmptySeq DEF Insert, TypeOK, SinkTypeOK, WriterInv
  <2>3. /\ writing /\ put = -1
        /\ mirror' \in Seq(Rows)
        /\ UNCHANGED <<queue, judged, worm, wormOn, arrived, crashes>>
    BY <1>4, <2>1 DEF Insert, Written, sinkVars, TypeOK
  <2>4. CASE wormOn
    <3>1. put' = 0 /\ UNCHANGED <<batch, writing>>
      BY <1>4, <2>4 DEF Insert, sinkVars
    <3>2. QED
      BY <2>2, <2>3, <3>1 DEF TypeOK, SinkTypeOK, WriterInv
  <2>5. CASE ~wormOn
    <3>1. put' = put /\ batch' = <<>> /\ writing' = FALSE
      BY <1>4, <2>5 DEF Insert, Written
    <3>2. SinkTypeOK'
      BY <2>3, <3>1, SinkEmptied DEF TypeOK, SinkTypeOK
    <3>3. QED
      BY <2>2, <2>3, <3>1, <3>2 DEF TypeOK, WriterInv
  <2>6. QED
    BY <2>4, <2>5
<1>5. CASE Put
  <2>1. put + 1 \in 1 .. Len(batch) /\ Len(batch) \in Nat
    BY <1>5, LenProperties DEF Put, TypeOK, SinkTypeOK, WriterInv
  <2>2. batch[put + 1] \in Rows
    BY <2>1, ElementOfSeq DEF TypeOK, SinkTypeOK
  <2>3. Len(<<>>) = 0 /\ <<>> \in Seq(Rows)
    BY EmptySeq
  <2>4. PICK stored \in BOOLEAN, ok \in BOOLEAN :
          /\ worm' = IF stored THEN worm \cup {batch[put + 1]} ELSE worm
          /\ IF ok /\ put + 1 < Len(batch)
             THEN put' = put + 1 /\ UNCHANGED sinkVars
             ELSE put' = -1 /\ Written
    BY <1>5 DEF Put
  <2>5. worm' \subseteq Rows
    BY <2>2, <2>4 DEF TypeOK
  <2>6. /\ writing /\ put >= 0
        /\ UNCHANGED <<judged, mirror, wormOn, arrived, crashes>>
    BY <1>5 DEF Put
  <2>7. CASE ok /\ put + 1 < Len(batch)
    <3>1. put' = put + 1 /\ UNCHANGED <<queue, batch, writing>>
      BY <2>4, <2>7 DEF sinkVars
    <3>2. QED
      BY <2>1, <2>5, <2>6, <2>7, <3>1 DEF TypeOK, SinkTypeOK, WriterInv
  <2>8. CASE ~(ok /\ put + 1 < Len(batch))
    <3>1. put' = -1 /\ batch' = <<>> /\ writing' = FALSE /\ queue' = queue
      BY <2>4, <2>8 DEF Written
    <3>2. SinkTypeOK'
      BY <3>1, SinkEmptied DEF TypeOK, SinkTypeOK
    <3>3. QED
      BY <2>3, <2>5, <2>6, <3>1, <3>2 DEF TypeOK, WriterInv
  <2>9. QED
    BY <2>7, <2>8
<1>6. CASE Crash
  <2>1. Len(<<>>) = 0 /\ <<>> \in Seq(Rows)
    BY EmptySeq
  <2>2. /\ queue' = <<>> /\ batch' = <<>> /\ writing' = FALSE /\ put' = -1
        /\ crashes < MaxCrash /\ crashes' = crashes + 1
        /\ UNCHANGED <<judged, mirror, worm, wormOn, arrived>>
    BY <1>6 DEF Crash, Killed
  <2>3. SinkTypeOK'
    <3>1. queue' \in Seq(Rows) /\ Len(queue') <= Cap
      BY <2>1, <2>2, SinkAssumption
    <3>2. QED
      BY <2>2, <3>1, SinkEmptied DEF TypeOK
  <2>4. QED
    BY <2>1, <2>2, <2>3 DEF TypeOK, WriterInv
<1>7. CASE UNCHANGED vars
  BY <1>7 DEF vars, sinkVars, TypeOK, SinkTypeOK, WriterInv
<1>8. QED
  BY <1>1, <1>2, <1>3, <1>4, <1>5, <1>6, <1>7 DEF Next

\* A request is judged once, so that its row is accepted at most once.
LEMMA StepAccepted == Inv /\ [Next]_vars => AcceptedOnce'
<1> SUFFICES ASSUME TypeOK, AcceptedOnce, [Next]_vars PROVE AcceptedOnce'
  BY DEF Inv
<1>1. ASSUME NEW r \in Rows, classifyAndAudit(r) PROVE AcceptedOnce'
  <2>1. /\ Len(Append(arrived, r)) = Len(arrived) + 1
        /\ \A i \in 1 .. Len(arrived) : Append(arrived, r)[i] = arrived[i]
        /\ Append(arrived, r)[Len(arrived) + 1] = r
        /\ DOMAIN Append(arrived, r) = 1 .. Len(arrived) + 1
        /\ DOMAIN arrived = 1 .. Len(arrived) /\ Len(arrived) \in Nat
    BY AppendProperties, LenProperties DEF TypeOK
  <2>2. r \notin judged /\ judged' = judged \cup {r}
    BY <1>1 DEF classifyAndAudit
  <2>3. CASE arrived' = Append(arrived, r)
    BY <2>1, <2>2, <2>3 DEF AcceptedOnce
  <2>4. CASE arrived' = arrived
    BY <2>2, <2>4 DEF AcceptedOnce
  <2>5. QED
    BY <1>1, <2>3, <2>4 DEF classifyAndAudit
<1>2. ASSUME UNCHANGED <<arrived, judged>> PROVE AcceptedOnce'
  BY <1>2 DEF AcceptedOnce
<1>3. QED
  BY <1>1, <1>2 DEF Next, Receive, Tick, Insert, Put, Crash, vars

\* Every step keeps the pipeline, cuts a stretch out of it, or extends it
\* together with the history.
LEMMA StepPipeline == Inv /\ [Next]_vars => RowsAreWrittenAtMostOnce'
<1> SUFFICES ASSUME TypeOK, WriterInv, Within(Pipeline, arrived), [Next]_vars
             PROVE  Within(Pipeline', arrived')
  BY PipelineDef DEF Inv, RowsAreWrittenAtMostOnce, Pipeline, ToInsert
<1> DEFINE R == Seq(Rows)
<1>1. mirror \in R /\ batch \in R /\ queue \in R /\ arrived \in R
  BY DEF TypeOK, SinkTypeOK
<1>2. <<>> \in R /\ \A s \in R : s \o <<>> = s
  BY EmptySeq, ConcatEmptySeq
<1>3. \A s, t \in R : s \o t \in R
  BY ConcatProperties
<1>4. ToInsert \in R
  BY ToInsertType
<1> HIDE DEF R
<1>5. ASSUME NEW r \in Rows, classifyAndAudit(r)
      PROVE  Within(Pipeline', arrived')
  <2>1. UNCHANGED <<mirror, ToInsert>>
    BY <1>5 DEF classifyAndAudit, Enqueue, ToInsert
  <2>2. CASE Accepts
    <3>1. queue' = Append(queue, r) /\ arrived' = Append(arrived, r)
      BY <1>5, <2>2 DEF classifyAndAudit, Enqueue
    <3>2. Pipeline' = Append(Pipeline, r)
      <4>1. \A s, t \in R : s \o Append(t, r) = Append(s \o t, r)
        <5>1. ASSUME NEW s \in R, NEW t \in R
              PROVE  s \o Append(t, r) = Append(s \o t, r)
          <6>1. <<r>> \in Seq(Rows)
            OBVIOUS
          <6>2. Append(t, r) = t \o <<r>> /\ Append(s \o t, r) = (s \o t) \o <<r>>
            BY <1>3, <5>1, AppendIsConcat DEF R
          <6>3. (s \o t) \o <<r>> = s \o (t \o <<r>>)
            <7>1. \A x \in Seq(Rows) : (s \o t) \o x = s \o (t \o x)
              BY <5>1, ConcatAssociative DEF R
            <7>2. QED
              BY <6>1, <7>1, Zenon
          <6>4. QED
            BY <6>2, <6>3, Zenon
        <5>2. QED
          BY <5>1
      <4>2. QED
        BY <1>1, <1>3, <1>4, <2>1, <3>1, <4>1, Zenon DEF Pipeline
    <3>3. Pipeline \in R
      BY <1>1, <1>3, <1>4 DEF Pipeline
    <3>4. QED
      BY <1>1, <3>1, <3>2, <3>3, WithinAppend DEF R
  <2>3. CASE ~Accepts
    <3>1. UNCHANGED <<queue, arrived>>
      BY <1>5, <2>3 DEF classifyAndAudit, Enqueue
    <3>2. QED
      BY <2>1, <3>1 DEF Pipeline
  <2>4. QED
    BY <2>2, <2>3
<1>6. CASE Receive
  <2>1. put = -1 /\ put' = -1
    BY <1>6 DEF Receive, Take, TypeOK, WriterInv
  <2>2. ToInsert = batch /\ ToInsert' = Append(batch, Head(queue))
    BY <1>6, <2>1 DEF Receive, Take, ToInsert
  <2>3. /\ mirror' = mirror /\ arrived' = arrived /\ queue' = Tail(queue)
        /\ queue # <<>>
    BY <1>6 DEF Receive, Take
  <2>4. (mirror \o Append(batch, Head(queue))) \o Tail(queue)
          = (mirror \o batch) \o queue
    BY <1>1, <2>3, HeadMoves, Zenon DEF R
  <2>5. QED
    BY <2>2, <2>3, <2>4, Zenon DEF Pipeline
<1>7. CASE Tick
  BY <1>7 DEF Tick, TickerFires, Pipeline, ToInsert
<1>8. CASE Insert
  <2>1. /\ ToInsert = batch /\ ToInsert' = <<>>
        /\ queue' = queue /\ arrived' = arrived
        /\ mirror' = mirror \/ mirror' = mirror \o batch
    <3>1. /\ put = -1 /\ queue' = queue /\ arrived' = arrived
          /\ mirror' = mirror \/ mirror' = mirror \o batch
          /\ put' = 0 \/ (put' = -1 /\ batch' = <<>>)
      BY <1>8 DEF Insert, Written, sinkVars
    <3>2. QED
      BY <3>1 DEF ToInsert
  <2>2. CASE mirror' = mirror \o batch
    <3>1. mirror' \o <<>> = mirror \o batch
      BY <1>1, <1>2, <1>3, <2>2
    <3>2. QED
      BY <2>1, <3>1 DEF Pipeline
  <2>3. CASE mirror' = mirror
    <3>1. Within(mirror \o queue, arrived)
      BY <1>1, <2>1, WithinCut DEF R, Pipeline
    <3>2. mirror' \o <<>> = mirror
      BY <1>1, <1>2, <2>3
    <3>3. QED
      BY <2>1, <3>1, <3>2 DEF Pipeline
  <2>4. QED
    BY <2>1, <2>2, <2>3
<1>9. CASE Put
  <2>1. ToInsert = <<>> /\ ToInsert' = <<>>
    <3>1. put >= 0 /\ put \in Int
      BY <1>9 DEF Put, TypeOK
    <3>2. put' = put + 1 \/ (put' = -1 /\ batch' = <<>>)
      BY <1>9 DEF Put, Written
    <3>3. QED
      BY <3>1, <3>2 DEF ToInsert
  <2>2. UNCHANGED <<mirror, queue, arrived>>
    BY <1>9 DEF Put, Written, sinkVars
  <2>3. QED
    BY <2>1, <2>2 DEF Pipeline
<1>10. CASE Crash
  <2>1. ToInsert' = <<>> /\ queue' = <<>> /\ UNCHANGED <<mirror, arrived>>
    BY <1>10 DEF Crash, Killed, ToInsert
  <2>2. Pipeline' = mirror
    BY <1>1, <1>2, <2>1 DEF Pipeline
  <2>3. Within(mirror \o ToInsert, arrived)
    BY <1>1, <1>3, <1>4, WithinPrefix DEF R, Pipeline
  <2>4. Within(mirror, arrived)
    BY <1>1, <1>4, <2>3, WithinPrefix DEF R
  <2>5. QED
    BY <2>1, <2>2, <2>4
<1>11. CASE UNCHANGED vars
  BY <1>11 DEF vars, sinkVars, Pipeline, ToInsert
<1>12. QED
  BY <1>5, <1>6, <1>7, <1>8, <1>9, <1>10, <1>11 DEF Next

\* Through every loss, failure and restart the invariant stands
\* (audit/clickhouse.go and audit/worm.go).
THEOREM InvIsInductive == Spec => []Inv
<1>1. Inv /\ [Next]_vars => Inv'
  BY StepTypes, StepAccepted, StepPipeline DEF Inv
<1>2. QED
  BY InitInv, <1>1, PTL DEF Spec

-----------------------------------------------------------------------------
\* The variables keep their types, the WORM loop stays inside its batch.
THEOREM TypeCorrect == Spec => []TypeOK
<1>1. Inv => TypeOK
  BY DEF Inv
<1>2. QED
  BY <1>1, InvIsInductive, PTL

\* Through failed inserts, failed Puts and restarts, what was inserted and what
\* still is to be is what the sink accepted, in its order, with rows missing
\* but none repeated or overtaken.
THEOREM WrittenAtMostOnce == Spec => []RowsAreWrittenAtMostOnce
<1>1. Inv => RowsAreWrittenAtMostOnce
  BY DEF Inv
<1>2. QED
  BY <1>1, InvIsInductive, PTL

\* No two places of the table, the batch and the channel hold the same row.
THEOREM NoRowTwice == Spec => []EachRowOnce
<1>1. Inv => EachRowOnce
  <2> SUFFICES ASSUME Inv PROVE EachRowOnce
    OBVIOUS
  <2>1. Pipeline \in Seq(Rows)
    <3>1. mirror \in Seq(Rows) /\ queue \in Seq(Rows)
      BY DEF Inv, TypeOK, SinkTypeOK
    <3>2. ToInsert \in Seq(Rows)
      BY ToInsertType DEF Inv
    <3>3. QED
      BY <3>1, <3>2, ConcatProperties DEF Pipeline
  <2>2. DOMAIN Pipeline \subseteq Int /\ DOMAIN arrived \subseteq Int
    BY <2>1, LenProperties DEF Inv, TypeOK
  <2>3. ASSUME NEW i \in DOMAIN Pipeline, NEW j \in DOMAIN Pipeline, i < j
        PROVE  Pipeline[i] # Pipeline[j]
    <3>1. PICK p \in DOMAIN arrived, q \in DOMAIN arrived :
            p < q /\ arrived[p] = Pipeline[i] /\ arrived[q] = Pipeline[j]
      BY <2>3, PipelineDef DEF Inv, Within
    <3>2. p # q
      BY <2>2, <3>1
    <3>3. QED
      BY <3>1, <3>2 DEF Inv, AcceptedOnce
  <2>4. QED
    BY <2>2, <2>3 DEF EachRowOnce
<1>2. QED
  BY <1>1, InvIsInductive, PTL
=============================================================================
