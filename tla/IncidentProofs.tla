--------------------------- MODULE IncidentProofs ---------------------------
(***************************************************************************)
(* Proofs about Incident for any set of keys, any clock resolution and any *)
(* bounds.  What each operation does to the one incident it handles is     *)
(* stated first, as lemmas about records; the invariance proofs then only  *)
(* say which incident an action touches and with which operation.          *)
(***************************************************************************)
EXTENDS Incident, TLAPS

\* An incident whose fields fit its state and whose audit log replays to it.
Good(i) == i \in IncidentRecord /\ FieldsFit(i) /\ Replays(i)

\* The inductive invariant.
IInv == TypeOK /\ \A k \in Keys : Present(k) => Good(inc[k])

\* A timestamp is cut to the second at or before it, by less than a second.
LEMMA SecBounds ==
  ASSUME NEW t \in Nat
  PROVE  Sec(t) \in Nat /\ Sec(t) <= t /\ t < Sec(t) + Res
<1>1. Res \in Nat \ {0}
  BY IncidentAssumption
<1>2. t % Res \in Nat /\ t % Res < Res /\ t % Res <= t
  BY <1>1
<1> QED
  BY <1>1, <1>2 DEF Sec

\* audit() appends one entry and leaves the earlier ones alone.
LEMMA LoggedType ==
  ASSUME NEW i \in IncidentRecord, NEW to \in AllStates, NEW by \in By
  PROVE  /\ Logged(i, to, by) \in Seq(AuditEntry)
         /\ Len(Logged(i, to, by)) = Len(i.log) + 1
         /\ Logged(i, to, by)[Len(i.log) + 1]
              = [from |-> i.state, to |-> to, by |-> by]
         /\ \A j \in 1 .. Len(i.log) : Logged(i, to, by)[j] = i.log[j]
<1>1. i.log \in Seq(AuditEntry) /\ i.state \in AllStates
  BY DEF IncidentRecord
<1>2. [from |-> i.state, to |-> to, by |-> by] \in AuditEntry
  BY <1>1 DEF AuditEntry
<1> QED
  BY <1>1, <1>2 DEF Logged

\* An entry that starts in the state the log replays to extends the replay.
LEMMA LoggedReplays ==
  ASSUME NEW i \in IncidentRecord, Replays(i),
         NEW j \in IncidentRecord, NEW by \in By,
         j.log = Logged(i, j.state, by)
  PROVE  Replays(j)
<1> DEFINE n == Len(i.log)
<1>1. n \in Nat /\ j.state \in AllStates
  BY DEF IncidentRecord
<1>2. /\ Len(j.log) = n + 1
      /\ j.log[n + 1] = [from |-> i.state, to |-> j.state, by |-> by]
      /\ \A m \in 1 .. n : j.log[m] = i.log[m]
  BY <1>1, LoggedType
<1>3. CASE n = 0
  BY <1>1, <1>2, <1>3 DEF Replays
<1>4. CASE n > 0
  <2>1. j.log[1].from = "triggered" /\ j.log[n + 1].to = j.state
    BY <1>1, <1>2, <1>4 DEF Replays
  <2>2. ASSUME NEW m \in 1 .. n PROVE j.log[m].to = j.log[m + 1].from
    <3>1. CASE m = n
      BY <1>1, <1>2, <1>4, <3>1 DEF Replays
    <3>2. CASE m # n
      <4>1. m \in 1 .. n - 1 /\ m + 1 \in 1 .. n
        BY <1>1, <3>2
      <4> QED
        BY <1>2, <4>1 DEF Replays
    <3> QED
      BY <3>1, <3>2
  <2> QED
    BY <1>1, <1>2, <2>1, <2>2 DEF Replays
<1> QED
  BY <1>1, <1>3, <1>4

\* Cutting the ring of occurrences at its cap leaves a sequence of timestamps.
LEMMA PushType ==
  ASSUME now \in Nat, NEW occ \in Seq(Nat)
  PROVE  pushOccurrence(occ) \in Seq(Nat)
<1> DEFINE all == Append(occ, Sec(now))
<1>1. all \in Seq(Nat) /\ Len(all) \in Nat
  BY SecBounds
<1>2. OccCap \in Nat \ {0}
  BY IncidentAssumption
<1>3. CASE Len(all) > OccCap
  <2>1. SubSeq(all, Len(all) - OccCap + 1, Len(all)) \in Seq(Nat)
    BY <1>1, <1>2, <1>3
  <2> QED
    BY <1>3, <2>1 DEF pushOccurrence
<1>4. CASE ~(Len(all) > OccCap)
  BY <1>1, <1>4 DEF pushOccurrence
<1> QED
  BY <1>3, <1>4

-----------------------------------------------------------------------------
\* What the operations make of a good incident is a good incident.
LEMMA CreatedIsGood ==
  ASSUME now \in Nat
  PROVE  Good(Created)
<1>1. Sec(now) \in Nat
  BY SecBounds
<1>2. Created \in IncidentRecord
  BY <1>1 DEF Created, IncidentRecord, AllStates, OpenStates, Names
<1>3. FieldsFit(Created) /\ Replays(Created)
  BY DEF Created, FieldsFit, Replays
<1> QED
  BY <1>2, <1>3 DEF Good

\* Lifting a silence that has run out.
LEMMA RefireIsGood ==
  ASSUME NEW i, Good(i), i.state = "snoozed"
  PROVE  Good(Refire(i))
<1>1. i \in IncidentRecord /\ "triggered" \in AllStates /\ "system" \in By
  BY DEF Good, AllStates, OpenStates, By
<1>2. Logged(i, "triggered", "system") \in Seq(AuditEntry)
  BY <1>1, LoggedType
<1>3. Refire(i) \in IncidentRecord
  BY <1>1, <1>2 DEF Refire, IncidentRecord, Names
<1>4. FieldsFit(Refire(i))
  BY <1>1, IncidentAssumption DEF Good, FieldsFit, Refire, open, IncidentRecord
<1>5. Replays(Refire(i))
  BY <1>1, <1>3, LoggedReplays DEF Good, Refire, IncidentRecord
<1> QED
  BY <1>3, <1>4, <1>5 DEF Good

\* The recovery signal.
LEMMA AutoResolvedIsGood ==
  ASSUME now \in Nat, NEW i, Good(i)
  PROVE  Good(AutoResolved(i))
<1>1. i \in IncidentRecord /\ "resolved" \in AllStates /\ "auto" \in By
  BY DEF Good, AllStates, OpenStates, By
<1>t. Sec(now) \in Nat
  BY SecBounds
<1>2. Logged(i, "resolved", "auto") \in Seq(AuditEntry)
  BY <1>1, LoggedType
<1>3. AutoResolved(i) \in IncidentRecord
  BY <1>1, <1>2, <1>t DEF AutoResolved, IncidentRecord, Names
<1>4. FieldsFit(AutoResolved(i))
  BY <1>1, <1>t, IncidentAssumption DEF Good, FieldsFit, AutoResolved, open, IncidentRecord
<1>5. Replays(AutoResolved(i))
  BY <1>1, <1>3, LoggedReplays DEF Good, AutoResolved, IncidentRecord
<1> QED
  BY <1>3, <1>4, <1>5 DEF Good

\* An operator takes the incident over.
LEMMA AckedIsGood ==
  ASSUME now \in Nat, NEW i, Good(i), open(i), NEW by \in Actors
  PROVE  Good(Acked(i, by))
<1>1. i \in IncidentRecord /\ "acked" \in AllStates /\ by \in By
  BY DEF Good, AllStates, OpenStates, By
<1>t. Sec(now) \in Nat
  BY SecBounds
<1>2. Logged(i, "acked", by) \in Seq(AuditEntry)
  BY <1>1, LoggedType
<1>3. Acked(i, by) \in IncidentRecord
  BY <1>1, <1>2, <1>t DEF Acked, IncidentRecord, Names
<1>4. FieldsFit(Acked(i, by))
  BY <1>1, <1>t, IncidentAssumption DEF Good, FieldsFit, Acked, open, IncidentRecord
<1>5. Replays(Acked(i, by))
  BY <1>1, <1>3, LoggedReplays DEF Good, Acked, IncidentRecord
<1> QED
  BY <1>3, <1>4, <1>5 DEF Good

\* An operator closes the incident.
LEMMA ResolvedIsGood ==
  ASSUME now \in Nat, NEW i, Good(i), NEW by \in Actors
  PROVE  Good(Resolved(i, by))
<1>1. i \in IncidentRecord /\ "resolved" \in AllStates /\ by \in By
  BY DEF Good, AllStates, OpenStates, By
<1>t. Sec(now) \in Nat
  BY SecBounds
<1>2. Logged(i, "resolved", by) \in Seq(AuditEntry)
  BY <1>1, LoggedType
<1>3. Resolved(i, by) \in IncidentRecord
  BY <1>1, <1>2, <1>t DEF Resolved, IncidentRecord, Names
<1>4. FieldsFit(Resolved(i, by))
  BY <1>1, <1>t, IncidentAssumption DEF Good, FieldsFit, Resolved, open, IncidentRecord
<1>5. Replays(Resolved(i, by))
  BY <1>1, <1>3, LoggedReplays DEF Good, Resolved, IncidentRecord
<1> QED
  BY <1>3, <1>4, <1>5 DEF Good

\* An operator silences the incident for a while.
LEMMA SnoozedIsGood ==
  ASSUME now \in Nat, NEW i, Good(i), open(i),
         NEW d \in Durations, NEW by \in Actors
  PROVE  Good(Snoozed(i, d, by))
<1>1. i \in IncidentRecord /\ "snoozed" \in AllStates /\ by \in By
  BY DEF Good, AllStates, OpenStates, By
<1>d. d \in Nat /\ now + d \in Nat
  <2>1. d \in Nat
    BY Zenon, IncidentAssumption
  <2> QED
    BY <2>1
<1>t. Sec(now) \in Nat /\ Sec(now + d) \in Nat /\ Sec(now + d) # Never
  <2>1. Sec(now) \in Nat /\ Sec(now + d) \in Nat
    BY <1>d, SecBounds
  <2>2. Never \notin Int
    BY Zenon, IncidentAssumption
  <2>3. Sec(now + d) \in Int
    BY <2>1
  <2> QED
    BY Zenon, <2>1, <2>2, <2>3
<1>2. Logged(i, "snoozed", by) \in Seq(AuditEntry)
  BY <1>1, LoggedType
<1>3. Snoozed(i, d, by) \in IncidentRecord
  BY <1>1, <1>2, <1>t DEF Snoozed, IncidentRecord, Names
<1>4. FieldsFit(Snoozed(i, d, by))
  BY <1>1, <1>t, IncidentAssumption DEF Good, FieldsFit, Snoozed, open, IncidentRecord
<1>5. Replays(Snoozed(i, d, by))
  BY <1>1, <1>3, LoggedReplays DEF Good, Snoozed, IncidentRecord
<1> QED
  BY <1>3, <1>4, <1>5 DEF Good

\* The incident is observed once more, closed or silenced ones coming back.
LEMMA RecurredIsGood ==
  ASSUME now \in Nat, NEW i, Good(i)
  PROVE  Good(Recurred(i))
<1> DEFINE occ  == pushOccurrence(i.occurrences)
           seen == [i EXCEPT !.count = @ + 1, !.lastSeen = Sec(now),
                             !.occurrences = pushOccurrence(@)]
           back == [seen EXCEPT !.state = "triggered", !.silencedUntil = Never,
                                !.resolvedBy = "",
                                !.log = Logged(i, "triggered", "system")]
<1>1. i \in IncidentRecord /\ "triggered" \in AllStates /\ "system" \in By
  BY DEF Good, AllStates, OpenStates, By
<1>2. Sec(now) \in Nat /\ occ \in Seq(Nat)
  <2>1. i.occurrences \in Seq(Nat)
    BY <1>1 DEF IncidentRecord
  <2> QED
    BY <2>1, SecBounds, PushType
<1>3. /\ seen \in IncidentRecord
      /\ seen.state = i.state /\ seen.ackedBy = i.ackedBy
      /\ seen.resolvedBy = i.resolvedBy
      /\ seen.silencedUntil = i.silencedUntil /\ seen.log = i.log
  <2> HIDE DEF occ
  <2>1. seen = [i EXCEPT !.count = i.count + 1, !.lastSeen = Sec(now),
                         !.occurrences = occ]
    BY <1>1 DEF IncidentRecord, occ
  <2>2. i.count + 1 \in Nat \ {0}
    BY <1>1 DEF IncidentRecord
  <2> QED
    BY <1>1, <1>2, <2>1, <2>2 DEF IncidentRecord
<1> HIDE DEF seen
<1>4. CASE i.state \in {"resolved", "snoozed"}
  <2>1. Recurred(i) = back
    BY <1>4 DEF Recurred, seen
  <2>2. Logged(i, "triggered", "system") \in Seq(AuditEntry)
    BY <1>1, LoggedType
  <2>3. /\ back \in IncidentRecord /\ back.state = "triggered"
        /\ back.resolvedBy = "" /\ back.silencedUntil = Never
        /\ back.log = Logged(i, "triggered", "system")
    BY <1>1, <1>3, <2>2 DEF IncidentRecord, Names
  <2>4. FieldsFit(back)
    BY <2>3 DEF FieldsFit
  <2>5. Replays(back)
    BY <1>1, <2>3, LoggedReplays DEF Good
  <2> QED
    BY <2>1, <2>3, <2>4, <2>5 DEF Good
<1>5. CASE i.state \notin {"resolved", "snoozed"}
  <2>1. Recurred(i) = seen
    BY <1>5 DEF Recurred, seen
  <2>2. FieldsFit(seen) /\ Replays(seen)
    BY <1>3 DEF Good, FieldsFit, Replays
  <2> QED
    BY <1>3, <2>1, <2>2 DEF Good
<1> QED
  BY <1>4, <1>5

-----------------------------------------------------------------------------
\* Every incident of the store is good, before and after the silences that
\* have run out are lifted.
LEMMA TickedIsGood ==
  ASSUME IInv
  PROVE  /\ ticked \in [Keys -> IncidentRecord \cup {Absent}]
         /\ \A k \in Keys : ticked[k] # Absent => Good(ticked[k])
         /\ \A k \in Keys : ticked[k] = Absent <=> inc[k] = Absent
<1>1. ASSUME NEW k \in Keys
      PROVE  /\ ticked[k] = Absent <=> inc[k] = Absent
             /\ ticked[k] # Absent => Good(ticked[k])
  <2>1. CASE inc[k] # Absent /\ Expired(inc[k])
    <3>1. Good(Refire(inc[k])) /\ ticked[k] = Refire(inc[k])
      BY <2>1, RefireIsGood DEF IInv, Present, Expired, ticked
    <3>2. Refire(inc[k]) # Absent
      BY <3>1, AbsentIsNoIncident DEF Good
    <3> QED
      BY <2>1, <3>1, <3>2
  <2>2. CASE ~(inc[k] # Absent /\ Expired(inc[k]))
    BY <2>2 DEF IInv, Present, ticked
  <2> QED
    BY <2>1, <2>2
<1>2. \A k \in Keys : ticked[k] \in IncidentRecord \cup {Absent}
  BY <1>1 DEF Good
<1>3. ticked \in [Keys -> IncidentRecord \cup {Absent}]
  BY <1>2 DEF ticked
<1> QED
  BY <1>1, <1>3

\* Putting a good incident in the place of one keeps the invariant.
LEMMA OneIncidentChanges ==
  ASSUME now \in Nat, now' = now,
         NEW f \in [Keys -> IncidentRecord \cup {Absent}],
         \A k \in Keys : f[k] # Absent => Good(f[k]),
         NEW k \in Keys, NEW i, Good(i), inc' = [f EXCEPT ![k] = i]
  PROVE  IInv'
<1>1. i \in IncidentRecord
  BY DEF Good
<1>2. inc' \in [Keys -> IncidentRecord \cup {Absent}]
  BY <1>1
<1>3. \A j \in Keys : inc'[j] # Absent => Good(inc'[j])
  OBVIOUS
<1> QED
  BY <1>2, <1>3 DEF IInv, TypeOK, Present, Good, FieldsFit, Replays

\* A step that only lifts silences keeps it as well.
LEMMA OnlyTicks ==
  ASSUME IInv, inc' = ticked, now' = now
  PROVE  IInv'
<1>1. /\ inc' \in [Keys -> IncidentRecord \cup {Absent}]
      /\ \A k \in Keys : inc'[k] # Absent => Good(inc'[k])
  BY TickedIsGood
<1> QED
  BY <1>1 DEF IInv, TypeOK, Present, Good, FieldsFit, Replays

\* What the operators' operations share: lift silences, then change one open
\* incident or none.
LEMMA OperateKeepsIt ==
  ASSUME IInv, NEW k \in Keys, NEW after, Operate(k, after),
         inc[k] # Absent /\ open(ticked[k]) => Good(after)
  PROVE  IInv'
<1>1. now \in Nat /\ now' = now
  BY DEF Operate, IInv, TypeOK
<1>2. CASE inc[k] # Absent /\ open(ticked[k])
  <2>1. inc' = [ticked EXCEPT ![k] = after] /\ Good(after)
    BY <1>2 DEF Operate
  <2> QED
    BY <1>1, <2>1, TickedIsGood, OneIncidentChanges
<1>3. CASE ~(inc[k] # Absent /\ open(ticked[k]))
  <2>1. inc' = ticked
    BY <1>3 DEF Operate
  <2> QED
    BY <1>1, <2>1, OnlyTicks
<1> QED
  BY <1>2, <1>3

\* The empty store satisfies the invariant.
LEMMA InitInvariant == Init => IInv
<1> SUFFICES ASSUME Init PROVE IInv
  OBVIOUS
<1>1. now \in Nat
  <2>1. Res \in Nat
    BY Zenon, IncidentAssumption
  <2> QED
    BY <2>1 DEF Init
<1> QED
  BY <1>1 DEF Init, IInv, TypeOK, Present

\* Every operation of the store preserves the invariant.
LEMMA NextInvariant == IInv /\ [Next]_vars => IInv'
<1> SUFFICES ASSUME IInv, [Next]_vars PROVE IInv'
  OBVIOUS
<1>t. now \in Nat /\ inc \in [Keys -> IncidentRecord \cup {Absent}]
  BY DEF IInv, TypeOK
<1>1. ASSUME NEW k \in Keys, Observe(k) PROVE IInv'
  <2> DEFINE new == IF inc[k] = Absent THEN Created ELSE Recurred(ticked[k])
  <2>1. inc' = [ticked EXCEPT ![k] = new] /\ now' = now
    BY <1>1 DEF Observe
  <2>2. Good(new)
    BY <1>t, TickedIsGood, CreatedIsGood, RecurredIsGood
  <2> QED
    BY <1>t, <2>1, <2>2, TickedIsGood, OneIncidentChanges
<1>2. ASSUME NEW k \in Keys, AutoResolve(k) PROVE IInv'
  <2>1. inc' = [inc EXCEPT ![k] = AutoResolved(inc[k])] /\ now' = now
    BY <1>2 DEF AutoResolve
  <2>2. Good(AutoResolved(inc[k]))
    BY <1>2, <1>t, AutoResolvedIsGood DEF AutoResolve, IInv, Present
  <2>3. \A j \in Keys : inc[j] # Absent => Good(inc[j])
    BY DEF IInv, Present
  <2> QED
    BY <1>t, <2>1, <2>2, <2>3, OneIncidentChanges
<1>3. ASSUME NEW k \in Keys, NEW by \in Actors, Ack(k, by) PROVE IInv'
  BY <1>3, <1>t, TickedIsGood, AckedIsGood, OperateKeepsIt DEF Ack
<1>4. ASSUME NEW k \in Keys, NEW by \in Actors, Resolve(k, by) PROVE IInv'
  BY <1>4, <1>t, TickedIsGood, ResolvedIsGood, OperateKeepsIt DEF Resolve
<1>5. ASSUME NEW k \in Keys, NEW d \in Durations, NEW by \in Actors,
             Snooze(k, d, by)
      PROVE  IInv'
  BY <1>5, <1>t, TickedIsGood, SnoozedIsGood, OperateKeepsIt DEF Snooze
<1>6. CASE Read
  BY <1>6, OnlyTicks DEF Read
<1>7. CASE Tock
  <2>1. now' \in Nat /\ inc' = inc
    BY <1>7, <1>t DEF Tock
  <2> QED
    BY <2>1 DEF IInv, TypeOK, Present, Good, FieldsFit, Replays
<1>8. CASE UNCHANGED vars
  BY <1>8 DEF vars, IInv, TypeOK, Present, Good, FieldsFit, Replays
<1> QED
  BY <1>1, <1>2, <1>3, <1>4, <1>5, <1>6, <1>7, <1>8 DEF Next

\* The invariant holds in every reachable state.
LEMMA AlwaysGood == Spec => []IInv
<1> QED
  BY InitInvariant, NextInvariant, PTL DEF Spec

-----------------------------------------------------------------------------
\* Whatever the operators, the alert sources and the clock do, every field of
\* every incident in the store stays in its range.
THEOREM TypeCorrect == Spec => []TypeOK
<1>1. IInv => TypeOK
  BY DEF IInv
<1> QED
  BY <1>1, AlwaysGood, PTL

\* A silence is recorded exactly while the incident is snoozed, a resolver only
\* while it is resolved, and an acknowledged incident names who took it: no
\* operation leaves a field of an earlier state behind.
THEOREM FieldsAlwaysMatch == Spec => []FieldsMatchState
<1>1. IInv => FieldsMatchState
  BY DEF IInv, Good, FieldsMatchState
<1> QED
  BY <1>1, AlwaysGood, PTL

\* The audit log of an incident is a chain of transitions from triggered to the
\* state it is in: no operation changes a state without logging it from the
\* state it found.
THEOREM AuditAlwaysReplays == Spec => []AuditReplays
<1>1. IInv => AuditReplays
  BY DEF IInv, Good, AuditReplays
<1> QED
  BY <1>1, AlwaysGood, PTL

-----------------------------------------------------------------------------
\* A silence of whole minutes ends after the moment it begins, in spite of the
\* seconds the timestamp drops.
LEMMA SilenceIsAhead ==
  ASSUME now \in Nat, NEW d \in Durations
  PROVE  Sec(now + d) \in Nat /\ Sec(now + d) > now
<1>1. d \in Nat /\ d >= Res
  BY Zenon, IncidentAssumption
<1>r. Res \in Nat \ {0}
  BY Zenon, IncidentAssumption
<1>2. now + d \in Nat
  BY <1>1
<1>3. Sec(now + d) \in Nat /\ now + d < Sec(now + d) + Res
  BY <1>2, SecBounds
<1> QED
  BY <1>1, <1>r, <1>2, <1>3

\* After tickLocked no silence has run out.
LEMMA TickedIsAwake ==
  ASSUME IInv, NEW k \in Keys, ticked[k] # Absent
  PROVE  ~Expired(ticked[k])
<1>1. CASE inc[k] # Absent /\ Expired(inc[k])
  <2>1. inc[k] \in IncidentRecord
    BY <1>1 DEF IInv, TypeOK
  <2>2. ticked[k] = Refire(inc[k]) /\ Refire(inc[k]).state = "triggered"
    BY <1>1, <2>1 DEF ticked, Refire, IncidentRecord
  <2> QED
    BY <2>2 DEF Expired
<1>2. CASE ~(inc[k] # Absent /\ Expired(inc[k]))
  BY <1>2 DEF ticked
<1> QED
  BY <1>1, <1>2

\* No operation that begins with tickLocked makes a silence that has already
\* run out.
LEMMA NextLifts ==
  ASSUME IInv, Next, inc' # inc, ~AutoStep, NEW j \in Keys, Present(j)'
  PROVE  ~Expired(inc'[j])
<1>t. now \in Nat /\ inc \in [Keys -> IncidentRecord \cup {Absent}]
  BY DEF IInv, TypeOK
<1>a. /\ ticked \in [Keys -> IncidentRecord \cup {Absent}]
      /\ \A k \in Keys : ticked[k] # Absent => Good(ticked[k])
      /\ \A k \in Keys : ticked[k] = Absent <=> inc[k] = Absent
  BY TickedIsGood
<1>b. inc'[j] # Absent
  BY DEF Present
<1>0. inc' = ticked => ~Expired(inc'[j])
  BY <1>b, TickedIsAwake
<1>n. ASSUME NEW k \in Keys, NEW i, inc' = [ticked EXCEPT ![k] = i],
             ~Expired(i)
      PROVE  ~Expired(inc'[j])
  <2>1. CASE j = k
    BY <1>n, <1>a, <2>1
  <2>2. CASE j # k
    <3>1. inc'[j] = ticked[j]
      BY <1>n, <1>a, <2>2
    <3> QED
      BY <3>1, <1>b, TickedIsAwake
  <2> QED
    BY <2>1, <2>2
<1>1. ASSUME NEW k \in Keys, Observe(k) PROVE ~Expired(inc'[j])
  <2> DEFINE new == IF inc[k] = Absent THEN Created ELSE Recurred(ticked[k])
  <2>1. inc' = [ticked EXCEPT ![k] = new]
    BY <1>1 DEF Observe
  <2>2. CASE inc[k] = Absent
    <3>1. new = Created /\ Created.state = "triggered"
      BY <2>2 DEF Created
    <3> QED
      BY <1>n, <2>1, <3>1 DEF Expired
  <2>3. CASE inc[k] # Absent
    <3>1. Good(ticked[k]) /\ new = Recurred(ticked[k])
      BY <2>3, <1>a
    <3>2. ticked[k].state \in AllStates
      BY <3>1 DEF Good, IncidentRecord
    <3>3. Recurred(ticked[k]).state # "snoozed"
      <4>1. CASE ticked[k].state \in {"resolved", "snoozed"}
        BY <3>1, <4>1 DEF Recurred, Good, IncidentRecord
      <4>2. CASE ticked[k].state \notin {"resolved", "snoozed"}
        BY <3>1, <4>2 DEF Recurred, Good, IncidentRecord
      <4> QED
        BY <4>1, <4>2
    <3> QED
      BY <1>n, <2>1, <3>1, <3>3 DEF Expired
  <2> QED
    BY <2>2, <2>3
<1>2. ASSUME NEW k \in Keys, AutoResolve(k) PROVE FALSE
  <2>1. inc[k] \in IncidentRecord /\ inc[k] # Absent /\ open(inc[k])
    BY <1>2, <1>t DEF AutoResolve
  <2>2. inc'[k] = AutoResolved(inc[k])
    BY <1>2, <1>t DEF AutoResolve
  <2>3. inc'[k].state = "resolved" /\ inc'[k].resolvedBy = "auto"
    BY <2>1, <2>2 DEF AutoResolved, IncidentRecord
  <2> QED
    BY <2>1, <2>3 DEF AutoStep, Present, open
<1>o. ASSUME NEW k \in Keys, NEW after, Operate(k, after),
             inc[k] # Absent => ~Expired(after)
      PROVE  ~Expired(inc'[j])
  <2>1. CASE inc[k] # Absent /\ open(ticked[k])
    BY <1>n, <1>o, <2>1 DEF Operate
  <2>2. CASE ~(inc[k] # Absent /\ open(ticked[k]))
    BY <1>0, <1>o, <2>2 DEF Operate
  <2> QED
    BY <2>1, <2>2
<1>3. ASSUME NEW k \in Keys, NEW by \in Actors, Ack(k, by)
      PROVE  ~Expired(inc'[j])
  <2>1. inc[k] # Absent => ~Expired(Acked(ticked[k], by))
    BY <1>a DEF Good, Acked, Expired, IncidentRecord
  <2> QED
    BY <1>3, <1>o, <2>1 DEF Ack
<1>4. ASSUME NEW k \in Keys, NEW by \in Actors, Resolve(k, by)
      PROVE  ~Expired(inc'[j])
  <2>1. inc[k] # Absent => ~Expired(Resolved(ticked[k], by))
    BY <1>a DEF Good, Resolved, Expired, IncidentRecord
  <2> QED
    BY <1>4, <1>o, <2>1 DEF Resolve
<1>5. ASSUME NEW k \in Keys, NEW d \in Durations, NEW by \in Actors,
             Snooze(k, d, by)
      PROVE  ~Expired(inc'[j])
  <2>1. inc[k] # Absent =>
          Snoozed(ticked[k], d, by).silencedUntil = Sec(now + d)
    BY <1>a DEF Good, Snoozed, IncidentRecord
  <2>2. inc[k] # Absent => ~Expired(Snoozed(ticked[k], d, by))
    BY <1>t, <2>1, SilenceIsAhead DEF Expired
  <2> QED
    BY <1>5, <1>o, <2>2 DEF Snooze
<1>6. CASE Read
  BY <1>6, <1>0 DEF Read
<1>7. CASE Tock
  BY <1>7 DEF Tock
<1> QED
  BY <1>1, <1>2, <1>3, <1>4, <1>5, <1>6, <1>7 DEF Next

\* No silence outlives, past its time, an operation that changed the store, the
\* automatic resolution excepted, which does not lift silences.
THEOREM SilencesAreLifted == Spec => ExpiredSilenceIsLifted
<1>1. IInv /\ [Next]_vars =>
        [inc' # inc /\ ~AutoStep
           => \A k \in Keys : Present(k)' => ~Expired(inc'[k])]_vars
  BY NextLifts DEF vars
<1> QED
  BY <1>1, AlwaysGood, PTL DEF Spec, ExpiredSilenceIsLifted

-----------------------------------------------------------------------------
\* The refinement: one concrete operation handles the incident it names, and
\* every other incident is left alone or woken from a silence that ran out.
PhaseOf(i) == IF i # Absent THEN i.state ELSE "absent"
WakeOf(i)  == IF i # Absent /\ i.silencedUntil # Never
              THEN i.silencedUntil ELSE 0

\* What a change of phase and of wake-up time means in the life cycle.
LEMMA Mapping ==
  ASSUME NEW k \in Keys
  PROVE  /\ PhaseOf(inc'[k]) = PhaseOf(inc[k]) /\ WakeOf(inc'[k]) = WakeOf(inc[k])
              => Lifecycle!Kept(k)
         /\ PhaseOf(inc[k]) = "snoozed" /\ now >= WakeOf(inc[k])
            /\ PhaseOf(inc'[k]) = "triggered"
              => Lifecycle!Woken(k)
         /\ PhaseOf(inc[k]) \in {"absent", "resolved", "snoozed"}
            /\ PhaseOf(inc'[k]) = "triggered"
              => Lifecycle!Raised(k)
         /\ PhaseOf(inc[k]) \in {"triggered", "acked"}
            /\ PhaseOf(inc'[k]) = PhaseOf(inc[k])
              => Lifecycle!Raised(k)
         /\ PhaseOf(inc[k]) \in OpenStates /\ PhaseOf(inc'[k]) = "resolved"
              => Lifecycle!Closed(k)
         /\ PhaseOf(inc[k]) \in OpenStates /\ PhaseOf(inc'[k]) = "acked"
              => Lifecycle!Accepted(k)
         /\ PhaseOf(inc[k]) \in OpenStates /\ PhaseOf(inc'[k]) = "snoozed"
            /\ WakeOf(inc'[k]) > now
              => Lifecycle!Silenced(k)
<1>1. /\ [j \in Keys |-> IF Present(j) THEN inc[j].state ELSE "absent"][k]
           = PhaseOf(inc[k])
      /\ [j \in Keys |-> IF Present(j) THEN inc[j].state ELSE "absent"]'[k]
           = PhaseOf(inc'[k])
      /\ [j \in Keys |-> IF Present(j) /\ inc[j].silencedUntil # Never
                         THEN inc[j].silencedUntil ELSE 0][k]
           = WakeOf(inc[k])
      /\ [j \in Keys |-> IF Present(j) /\ inc[j].silencedUntil # Never
                         THEN inc[j].silencedUntil ELSE 0]'[k]
           = WakeOf(inc'[k])
  BY DEF Present, PhaseOf, WakeOf
<1> QED
  BY <1>1 DEF Lifecycle!Kept, Lifecycle!Woken, Lifecycle!Due, Lifecycle!Raised,
    Lifecycle!Closed, Lifecycle!Accepted, Lifecycle!Silenced, Lifecycle!Open,
    OpenStates

\* tickLocked wakes what is due and touches nothing else.
LEMMA TickedPhase ==
  ASSUME IInv, NEW k \in Keys
  PROVE  \/ ticked[k] = inc[k]
         \/ /\ PhaseOf(inc[k]) = "snoozed" /\ now >= WakeOf(inc[k])
            /\ PhaseOf(ticked[k]) = "triggered"
<1>1. CASE inc[k] # Absent /\ Expired(inc[k])
  <2>1. inc[k] \in IncidentRecord
    BY <1>1 DEF IInv, TypeOK
  <2>2. ticked[k] # Absent /\ ticked[k] = Refire(inc[k])
    BY <1>1, TickedIsGood DEF ticked
  <2>3. Refire(inc[k]).state = "triggered"
    BY <2>1 DEF Refire, IncidentRecord
  <2> QED
    BY <1>1, <2>2, <2>3 DEF PhaseOf, WakeOf, Expired
<1>2. CASE ~(inc[k] # Absent /\ Expired(inc[k]))
  BY <1>2 DEF ticked
<1> QED
  BY <1>1, <1>2

\* An incident that a step only ticks is kept or woken.
LEMMA OthersFollow ==
  ASSUME IInv, NEW k \in Keys, inc'[k] = ticked[k]
  PROVE  Lifecycle!Kept(k) \/ Lifecycle!Woken(k)
BY TickedPhase, Mapping

\* A step on one incident that lifts silences on its way.
LEMMA HandlesOne ==
  ASSUME IInv, NEW k \in Keys, NEW i, now' = now,
         inc' = [ticked EXCEPT ![k] = i],
         \/ Lifecycle!Raised(k) \/ Lifecycle!Closed(k)
         \/ Lifecycle!Accepted(k) \/ Lifecycle!Silenced(k)
  PROVE  Lifecycle!Handle(k)
<1>1. ticked \in [Keys -> IncidentRecord \cup {Absent}]
  BY TickedIsGood
<1>2. \A j \in Keys \ {k} : inc'[j] = ticked[j]
  BY <1>1
<1>3. \A j \in Keys \ {k} : Lifecycle!Kept(j) \/ Lifecycle!Woken(j)
  BY <1>2, OthersFollow
<1> QED
  BY <1>3 DEF Lifecycle!Handle

\* A step that only lifts silences.
LEMMA HandlesNone ==
  ASSUME IInv, now' = now, inc' = ticked
  PROVE  Lifecycle!Next \/ UNCHANGED Lifecycle!abstractVars
<1>1. \A j \in Keys : Lifecycle!Kept(j) \/ Lifecycle!Woken(j)
  BY OthersFollow
<1>2. CASE Keys = {}
  BY <1>2 DEF Lifecycle!abstractVars, Present
<1>3. CASE Keys # {}
  <2>1. PICK k \in Keys : TRUE
    BY <1>3
  <2>2. Lifecycle!Handle(k)
    BY <1>1 DEF Lifecycle!Handle
  <2> QED
    BY <2>2 DEF Lifecycle!Next
<1> QED
  BY <1>2, <1>3

\* An operator's operation is a step of the life cycle of the incident it names.
LEMMA OperateHandles ==
  ASSUME IInv, NEW k \in Keys, NEW after, Operate(k, after),
         inc[k] # Absent /\ open(ticked[k]) => after \in IncidentRecord,
         inc[k] # Absent /\ open(ticked[k]) =>
           \/ after.state \in {"acked", "resolved"}
           \/ after.state = "snoozed" /\ after.silencedUntil \in Nat
              /\ after.silencedUntil > now
  PROVE  Lifecycle!Next \/ UNCHANGED Lifecycle!abstractVars
<1>1. CASE inc[k] # Absent /\ open(ticked[k])
  <2>1. inc' = [ticked EXCEPT ![k] = after] /\ now' = now
    BY <1>1 DEF Operate
  <2>2. inc'[k] = after /\ after # Absent
    BY <1>1, <2>1, TickedIsGood, AbsentIsNoIncident
  <2>3. PhaseOf(inc[k]) \in OpenStates
    <3>1. inc[k] \in IncidentRecord
      BY <1>1 DEF IInv, TypeOK
    <3>2. PhaseOf(inc[k]) = inc[k].state /\ inc[k].state \in AllStates
      BY <1>1, <3>1 DEF PhaseOf, IncidentRecord
    <3>3. ticked[k] = inc[k] \/ PhaseOf(inc[k]) = "snoozed"
      BY TickedPhase
    <3> QED
      BY <1>1, <3>2, <3>3 DEF open, AllStates, OpenStates
  <2>4. PhaseOf(inc'[k]) = after.state
    BY <2>2 DEF PhaseOf
  <2>5. after.silencedUntil \in Nat => WakeOf(inc'[k]) = after.silencedUntil
    <3>1. Never \notin Nat
      <4>1. Never \notin Int
        BY Zenon, IncidentAssumption
      <4> QED
        BY <4>1
    <3> QED
      BY <2>2, <3>1 DEF WakeOf
  <2>6. Lifecycle!Closed(k) \/ Lifecycle!Accepted(k) \/ Lifecycle!Silenced(k)
    BY <1>1, <2>3, <2>4, <2>5, Mapping
  <2>7. Lifecycle!Handle(k)
    BY <2>1, <2>6, HandlesOne
  <2> QED
    BY <2>7 DEF Lifecycle!Next
<1>2. CASE ~(inc[k] # Absent /\ open(ticked[k]))
  <2>1. inc' = ticked /\ now' = now
    BY <1>2 DEF Operate
  <2> QED
    BY <2>1, HandlesNone
<1> QED
  BY <1>1, <1>2

\* An observation raises the incident it is about.
LEMMA ObserveHandles ==
  ASSUME IInv, NEW k \in Keys, Observe(k)
  PROVE  Lifecycle!Next
<1> DEFINE new == IF inc[k] = Absent THEN Created ELSE Recurred(ticked[k])
<1>1. inc' = [ticked EXCEPT ![k] = new] /\ now' = now /\ now \in Nat
  BY DEF Observe, IInv, TypeOK
<1>2. Good(new) /\ inc'[k] = new /\ new # Absent
  <2>1. Good(new)
    BY <1>1, TickedIsGood, CreatedIsGood, RecurredIsGood
  <2> QED
    BY <1>1, <2>1, TickedIsGood, AbsentIsNoIncident DEF Good
<1>3. PhaseOf(inc'[k]) = new.state
  BY <1>2 DEF PhaseOf
<1>4. ASSUME inc[k] = Absent PROVE Lifecycle!Raised(k)
  BY <1>3, <1>4, Mapping DEF Created, PhaseOf
<1>5. ASSUME inc[k] # Absent PROVE Lifecycle!Raised(k)
  <2>1. /\ inc[k] \in IncidentRecord /\ PhaseOf(inc[k]) = inc[k].state
        /\ ticked[k] # Absent /\ ticked[k] \in IncidentRecord
        /\ PhaseOf(ticked[k]) = ticked[k].state
        /\ new = Recurred(ticked[k])
    BY <1>5, TickedIsGood DEF IInv, TypeOK, PhaseOf
  <2>2. inc[k].state \in AllStates /\ ticked[k].state \in AllStates
    BY <2>1 DEF IncidentRecord
  <2>3. new.state = IF ticked[k].state \in {"resolved", "snoozed"}
                    THEN "triggered" ELSE ticked[k].state
    <3>1. CASE ticked[k].state \in {"resolved", "snoozed"}
      BY <2>1, <3>1 DEF Recurred, IncidentRecord
    <3>2. CASE ticked[k].state \notin {"resolved", "snoozed"}
      BY <2>1, <3>2 DEF Recurred, IncidentRecord
    <3> QED
      BY <3>1, <3>2
  <2>4. CASE ticked[k] = inc[k]
    BY <1>3, <2>1, <2>2, <2>3, <2>4, Mapping DEF AllStates, OpenStates
  <2>5. CASE PhaseOf(inc[k]) = "snoozed" /\ PhaseOf(ticked[k]) = "triggered"
    BY <1>3, <2>1, <2>3, <2>5, Mapping
  <2> QED
    BY <2>4, <2>5, TickedPhase
<1> QED
  <2>1. Lifecycle!Raised(k)
    BY <1>4, <1>5
  <2>2. Lifecycle!Handle(k)
    BY <1>1, <2>1, HandlesOne
  <2> QED
    BY <2>2 DEF Lifecycle!Next

\* The empty store is an inbox without incidents.
LEMMA InitRefines == Init => Lifecycle!Init
<1> SUFFICES ASSUME Init PROVE Lifecycle!Init
  OBVIOUS
<1>1. now \in Nat
  BY InitInvariant DEF IInv, TypeOK
<1>2. \A k \in Keys : inc[k] = Absent
  BY DEF Init
<1> QED
  BY <1>1, <1>2 DEF Lifecycle!Init, Present

\* Every operation of the store is a step of the life cycle or changes nothing
\* of it.
LEMMA NextRefines ==
  IInv /\ [Next]_vars => [Lifecycle!Next]_(Lifecycle!abstractVars)
<1> SUFFICES ASSUME IInv, [Next]_vars
             PROVE  Lifecycle!Next \/ UNCHANGED Lifecycle!abstractVars
  OBVIOUS
<1>t. now \in Nat /\ inc \in [Keys -> IncidentRecord \cup {Absent}]
  BY DEF IInv, TypeOK
<1>a. \A k \in Keys : ticked[k] # Absent => ticked[k] \in IncidentRecord
  BY TickedIsGood DEF Good
<1>b. \A k \in Keys : inc[k] # Absent => Good(ticked[k])
  BY TickedIsGood
<1>1. ASSUME NEW k \in Keys, Observe(k) PROVE Lifecycle!Next
  BY <1>1, ObserveHandles
<1>2. ASSUME NEW k \in Keys, AutoResolve(k) PROVE Lifecycle!Next
  <2>1. inc[k] \in IncidentRecord /\ inc[k] # Absent /\ open(inc[k])
    BY <1>2, <1>t DEF AutoResolve
  <2>2. inc'[k] = AutoResolved(inc[k]) /\ now' = now
        /\ \A j \in Keys \ {k} : inc'[j] = inc[j]
    BY <1>2, <1>t DEF AutoResolve
  <2>3. AutoResolved(inc[k]) \in IncidentRecord
        /\ AutoResolved(inc[k]).state = "resolved"
    <3>1. Good(AutoResolved(inc[k]))
      BY <2>1, <1>t, AutoResolvedIsGood DEF IInv, Present
    <3> QED
      BY <2>1, <3>1 DEF Good, AutoResolved, IncidentRecord
  <2>4. PhaseOf(inc'[k]) = "resolved" /\ PhaseOf(inc[k]) \in OpenStates
    BY <2>1, <2>2, <2>3, AbsentIsNoIncident
      DEF PhaseOf, open, IncidentRecord, AllStates
  <2>5. Lifecycle!Closed(k)
    BY <2>4, Mapping
  <2>6. \A j \in Keys \ {k} : Lifecycle!Kept(j)
    BY <2>2, Mapping
  <2>7. Lifecycle!Handle(k)
    BY <2>2, <2>5, <2>6 DEF Lifecycle!Handle
  <2> QED
    BY <2>7 DEF Lifecycle!Next
<1>3. ASSUME NEW k \in Keys, NEW by \in Actors, Ack(k, by)
      PROVE  Lifecycle!Next \/ UNCHANGED Lifecycle!abstractVars
  <2>1. inc[k] # Absent /\ open(ticked[k]) =>
          Acked(ticked[k], by) \in IncidentRecord
          /\ Acked(ticked[k], by).state = "acked"
    <3>1. inc[k] # Absent /\ open(ticked[k]) => Good(Acked(ticked[k], by))
      BY <1>b, <1>t, AckedIsGood
    <3>2. ticked[k] \in IncidentRecord => Acked(ticked[k], by).state = "acked"
      BY DEF Acked, IncidentRecord
    <3> QED
      BY <1>b, <3>1, <3>2 DEF Good
  <2> QED
    BY <1>3, <2>1, OperateHandles DEF Ack
<1>4. ASSUME NEW k \in Keys, NEW by \in Actors, Resolve(k, by)
      PROVE  Lifecycle!Next \/ UNCHANGED Lifecycle!abstractVars
  <2>1. inc[k] # Absent /\ open(ticked[k]) =>
          Resolved(ticked[k], by) \in IncidentRecord
          /\ Resolved(ticked[k], by).state = "resolved"
    BY <1>b, <1>t, ResolvedIsGood DEF Good, Resolved, IncidentRecord
  <2> QED
    BY <1>4, <2>1, OperateHandles DEF Resolve
<1>5. ASSUME NEW k \in Keys, NEW d \in Durations, NEW by \in Actors,
             Snooze(k, d, by)
      PROVE  Lifecycle!Next \/ UNCHANGED Lifecycle!abstractVars
  <2>1. Sec(now + d) \in Nat /\ Sec(now + d) > now
    BY <1>t, SilenceIsAhead
  <2>2. inc[k] # Absent /\ open(ticked[k]) =>
          Snoozed(ticked[k], d, by) \in IncidentRecord
    BY <1>b, <1>t, SnoozedIsGood DEF Good
  <2>3. inc[k] # Absent =>
          Snoozed(ticked[k], d, by).state = "snoozed"
          /\ Snoozed(ticked[k], d, by).silencedUntil = Sec(now + d)
    BY <1>b DEF Good, Snoozed, IncidentRecord
  <2> QED
    BY <1>5, <2>1, <2>2, <2>3, OperateHandles DEF Snooze
<1>6. CASE Read
  BY <1>6, HandlesNone DEF Read
<1>7. CASE Tock
  <2>1. now' > now /\ inc' = inc
    BY <1>7, <1>t DEF Tock
  <2>2. \A k \in Keys : Lifecycle!Kept(k)
    BY <2>1, Mapping
  <2> QED
    BY <2>1, <2>2 DEF Lifecycle!Next, Lifecycle!TimePasses
<1>8. CASE UNCHANGED vars
  BY <1>8 DEF vars, Lifecycle!abstractVars, Present
<1> QED
  BY <1>1, <1>2, <1>3, <1>4, <1>5, <1>6, <1>7, <1>8 DEF Next

\* Every behaviour of the store is one of IncidentLifecycle: incidents move only
\* along the arrows the inbox shows, and come back from a silence only when it
\* is over or the incident recurs.
THEOREM StoreKeepsThePromise == Spec => KeepsThePromise
<1> QED
  BY InitRefines, NextRefines, AlwaysGood, PTL
    DEF Spec, KeepsThePromise, Lifecycle!Spec

-----------------------------------------------------------------------------
(* The occurrences.  What OccurrencesFit says of an incident is inductive   *)
(* once its timestamps are bounded by the second the clock is in: a ring of *)
(* full length loses exactly its oldest entry to a new one.                 *)

Counted(i) == OccurrencesFit(i) /\ i.lastSeen <= Sec(now)

OInv == IInv /\ \A k \in Keys : Present(k) => Counted(inc[k])

\* Timestamps do not run backwards while the clock does not.
LEMMA SecMonotone ==
  ASSUME NEW t \in Nat
  PROVE  Sec(t) <= Sec(t + 1)
<1> DEFINE q == t \div Res
           u == (t + 1) \div Res
<1>1. Res \in Nat \ {0}
  BY IncidentAssumption
<1>2. /\ q \in Nat /\ t % Res \in 0 .. Res - 1 /\ t = Res * q + (t % Res)
      /\ u \in Nat /\ (t + 1) % Res \in 0 .. Res - 1
      /\ t + 1 = Res * u + ((t + 1) % Res)
  BY <1>1
<1> HIDE DEF q, u
<1>3. Sec(t) = Res * q /\ Sec(t + 1) = Res * u
  BY <1>1, <1>2 DEF Sec
<1>4. q <= u
  <2>1. \A a, b \in Nat : a < b => Res * a + Res <= Res * b
    <3> SUFFICES ASSUME NEW a \in Nat, NEW b \in Nat, a < b
                 PROVE  Res * a + Res <= Res * b
      OBVIOUS
    <3> DEFINE c == b - a - 1
    <3>1. c \in Nat /\ b = a + 1 + c
      OBVIOUS
    <3> HIDE DEF c
    <3>2. Res * b = Res * a + Res + Res * c /\ Res * c \in Nat
      BY <1>1, <3>1
    <3> QED
      BY <1>1, <3>2
  <2>2. ASSUME u < q PROVE FALSE
    BY <1>1, <1>2, <2>1, <2>2
  <2> QED
    BY <1>2, <2>2
<1>5. Res * q <= Res * u
  <2> DEFINE c == u - q
  <2>1. c \in Nat /\ u = q + c
    BY <1>2, <1>4
  <2> HIDE DEF c
  <2> QED
    BY <1>1, <1>2, <2>1
<1> QED
  BY <1>3, <1>5

\* A new occurrence ends the ring; a full ring loses its oldest.
LEMMA PushCounts ==
  ASSUME now \in Nat, NEW i \in IncidentRecord, Counted(i),
         NEW j \in IncidentRecord,
         j.count = i.count + 1, j.firstSeen = i.firstSeen,
         j.lastSeen = Sec(now), j.occurrences = pushOccurrence(i.occurrences)
  PROVE  Counted(j)
<1> DEFINE occ == i.occurrences
           n   == Len(occ)
           all == Append(occ, Sec(now))
<1>1. /\ Sec(now) \in Nat /\ Sec(now) <= now
      /\ OccCap \in Nat \ {0} /\ i.count \in Nat \ {0}
      /\ occ \in Seq(Nat) /\ n \in Nat
      /\ i.firstSeen \in Nat /\ i.lastSeen \in Nat
  <2>1. Sec(now) \in Nat /\ Sec(now) <= now
    BY SecBounds
  <2>2. OccCap \in Nat \ {0}
    BY IncidentAssumption
  <2>3. /\ i.count \in Nat \ {0} /\ i.occurrences \in Seq(Nat)
        /\ i.firstSeen \in Nat /\ i.lastSeen \in Nat
    BY DEF IncidentRecord
  <2> QED
    BY <2>1, <2>2, <2>3
<1>2. /\ n = IF i.count < OccCap THEN i.count ELSE OccCap
      /\ \A m \in 1 .. n - 1 : occ[m] <= occ[m + 1]
      /\ i.firstSeen <= occ[1] /\ occ[n] <= i.lastSeen
      /\ i.lastSeen <= Sec(now)
  BY DEF Counted, OccurrencesFit
<1>3. n >= 1 /\ \A m \in 1 .. n : occ[m] \in Nat
  <2>1. \A m \in 1 .. n : occ[m] \in Nat
    BY <1>1
  <2> HIDE DEF n
  <2>2. n >= 1
    BY <1>1, <1>2
  <2> QED
    BY <2>1, <2>2
<1>4. /\ all \in Seq(Nat) /\ Len(all) = n + 1
      /\ \A m \in 1 .. n : all[m] = occ[m]
      /\ all[n + 1] = Sec(now)
  BY <1>1
<1>5. pushOccurrence(occ) = IF Len(all) > OccCap
        THEN SubSeq(all, Len(all) - OccCap + 1, Len(all)) ELSE all
  BY DEF pushOccurrence
<1> HIDE DEF n, occ, all
<1>6. \A m \in 1 .. n : all[m] <= all[m + 1]
  <2>1. ASSUME NEW m \in 1 .. n PROVE all[m] <= all[m + 1]
    <3>1. CASE m = n
      <4>1. all[m] = occ[n] /\ all[m + 1] = Sec(now) /\ occ[n] \in Nat
        BY <1>1, <1>3, <1>4, <3>1
      <4>2. occ[n] <= i.lastSeen /\ i.lastSeen <= Sec(now)
        BY <1>2
      <4> QED
        BY <1>1, <4>1, <4>2
    <3>2. CASE m # n
      <4>1. m \in 1 .. n - 1 /\ m + 1 \in 1 .. n
        BY <1>1, <3>2
      <4> QED
        BY <1>2, <1>4, <4>1
    <3> QED
      BY <3>1, <3>2
  <2> QED
    BY <2>1
<1>7. CASE i.count < OccCap
  <2>1. j.occurrences = all
    BY <1>1, <1>2, <1>4, <1>5, <1>7 DEF occ
  <2>2. n = i.count /\ Len(j.occurrences) = j.count
    <3>1. n = i.count
      BY <1>2, <1>7
    <3>2. j.count = n + 1
      BY <3>1
    <3>3. Len(j.occurrences) = n + 1
      BY <1>4, <2>1, Zenon
    <3> QED
      BY <3>1, <3>2, <3>3
  <2>3. j.count = IF j.count < OccCap THEN j.count ELSE OccCap
    <3>1. \A c, cap \in Nat : c < cap =>
            c + 1 = IF c + 1 < cap THEN c + 1 ELSE cap
      OBVIOUS
    <3>2. i.count \in Nat /\ OccCap \in Nat
      BY <1>1
    <3>3. i.count + 1 = IF i.count + 1 < OccCap THEN i.count + 1 ELSE OccCap
      BY <1>7, <3>1, <3>2, Zenon
    <3> QED
      BY <3>3, Zenon
  <2>4. j.firstSeen <= j.occurrences[1]
    BY <1>2, <1>3, <1>4, <2>1
  <2>5. \A m \in 1 .. Len(j.occurrences) - 1 :
          j.occurrences[m] <= j.occurrences[m + 1]
    BY <1>1, <1>4, <1>6, <2>1
  <2>6. j.occurrences[Len(j.occurrences)] <= j.lastSeen
    BY <1>1, <1>4, <2>1
  <2> QED
    BY <1>1, <2>2, <2>3, <2>4, <2>5, <2>6 DEF Counted, OccurrencesFit
<1>8. CASE ~(i.count < OccCap)
  <2>1. n = OccCap /\ Len(all) = OccCap + 1
    BY <1>2, <1>4, <1>8
  <2>2. j.occurrences = SubSeq(all, 2, n + 1)
    <3>1. Len(all) > OccCap /\ Len(all) - OccCap + 1 = 2 /\ Len(all) = n + 1
      BY <1>1, <2>1
    <3> QED
      BY <1>5, <3>1 DEF occ
  <2>3. /\ Len(j.occurrences) = n
        /\ \A m \in 1 .. n : j.occurrences[m] = all[m + 1]
    BY <1>1, <1>4, <2>2
  <2>4. \A m \in 1 .. n - 1 : j.occurrences[m] <= j.occurrences[m + 1]
    BY <1>1, <1>6, <2>3
  <2>5. all[1] <= all[2] /\ all[1] = occ[1] /\ all[1] \in Nat /\ all[2] \in Nat
    BY <1>1, <1>3, <1>4, <1>6
  <2>6. j.occurrences[1] = all[2] /\ j.occurrences[n] = Sec(now)
    BY <1>1, <1>3, <1>4, <2>3
  <2>7. j.firstSeen <= j.occurrences[1]
    BY <1>1, <1>2, <2>5, <2>6
  <2> QED
    BY <1>1, <1>8, <2>1, <2>3, <2>4, <2>6, <2>7 DEF Counted, OccurrencesFit
<1> QED
  BY <1>7, <1>8

\* An operation that counts nothing keeps the count.
LEMMA SeenCounts ==
  ASSUME now \in Nat, NEW i \in IncidentRecord, Counted(i),
         NEW j \in IncidentRecord,
         j.count = i.count, j.firstSeen = i.firstSeen,
         j.occurrences = i.occurrences, j.lastSeen \in {i.lastSeen, Sec(now)}
  PROVE  Counted(j)
<1>1. /\ Sec(now) \in Nat /\ Sec(now) <= now /\ i.lastSeen \in Nat
      /\ i.count \in Nat \ {0} /\ OccCap \in Nat \ {0}
      /\ i.occurrences \in Seq(Nat)
  BY SecBounds, IncidentAssumption DEF IncidentRecord
<1>2. Len(i.occurrences) >= 1
  BY <1>1 DEF Counted, OccurrencesFit
<1>3. i.occurrences[Len(i.occurrences)] \in Nat
  BY <1>1, <1>2
<1>4. j.occurrences[Len(j.occurrences)] <= j.lastSeen /\ j.lastSeen <= Sec(now)
  BY <1>1, <1>3 DEF Counted, OccurrencesFit
<1>5. j.lastSeen <= now
  BY <1>1, <1>4
<1> QED
  BY <1>4, <1>5 DEF Counted, OccurrencesFit

\* The operations, one by one.
LEMMA CreatedCounts ==
  ASSUME now \in Nat
  PROVE  Counted(Created)
<1>1. Sec(now) \in Nat /\ Sec(now) <= now /\ OccCap \in Nat \ {0}
  BY SecBounds, IncidentAssumption
<1> QED
  BY <1>1 DEF Created, Counted, OccurrencesFit

\* A silence that is lifted keeps the counter and the ring together.
LEMMA RefireCounts ==
  ASSUME now \in Nat, NEW i, Good(i), i.state = "snoozed", Counted(i)
  PROVE  Counted(Refire(i))
<1>1. i \in IncidentRecord /\ Refire(i) \in IncidentRecord
  BY RefireIsGood DEF Good
<1>2. /\ Refire(i).count = i.count /\ Refire(i).firstSeen = i.firstSeen
      /\ Refire(i).occurrences = i.occurrences
      /\ Refire(i).lastSeen = i.lastSeen
  BY <1>1 DEF Refire, IncidentRecord
<1> QED
  BY <1>1, <1>2, SeenCounts

\* An occurrence more is counted, and the ring drops its oldest when full.
LEMMA RecurredCounts ==
  ASSUME now \in Nat, NEW i, Good(i), Counted(i)
  PROVE  Counted(Recurred(i))
<1>1. i \in IncidentRecord /\ Recurred(i) \in IncidentRecord
  BY RecurredIsGood DEF Good
<1>2. /\ Recurred(i).count = i.count + 1
      /\ Recurred(i).firstSeen = i.firstSeen
      /\ Recurred(i).lastSeen = Sec(now)
      /\ Recurred(i).occurrences = pushOccurrence(i.occurrences)
  <2>1. CASE i.state \in {"resolved", "snoozed"}
    BY <1>1, <2>1 DEF Recurred, IncidentRecord
  <2>2. CASE i.state \notin {"resolved", "snoozed"}
    BY <1>1, <2>2 DEF Recurred, IncidentRecord
  <2> QED
    BY <2>1, <2>2
<1> QED
  BY <1>1, <1>2, PushCounts

\* No other operation touches the counter or the ring.
LEMMA OperationsCount ==
  ASSUME now \in Nat, NEW i, Good(i), Counted(i)
  PROVE  /\ Counted(AutoResolved(i))
         /\ \A by \in Actors : Counted(Resolved(i, by))
         /\ open(i) => \A by \in Actors : Counted(Acked(i, by))
         /\ open(i) => \A d \in Durations, by \in Actors :
                         Counted(Snoozed(i, d, by))
<1>1. i \in IncidentRecord
  BY DEF Good
<1>2. Counted(AutoResolved(i))
  <2>1. AutoResolved(i) \in IncidentRecord
    BY AutoResolvedIsGood DEF Good
  <2> QED
    BY <1>1, <2>1, SeenCounts DEF AutoResolved, IncidentRecord
<1>3. ASSUME NEW by \in Actors PROVE Counted(Resolved(i, by))
  <2>1. Resolved(i, by) \in IncidentRecord
    BY ResolvedIsGood DEF Good
  <2> QED
    BY <1>1, <2>1, SeenCounts DEF Resolved, IncidentRecord
<1>4. ASSUME open(i), NEW by \in Actors PROVE Counted(Acked(i, by))
  <2>1. Acked(i, by) \in IncidentRecord
    BY <1>4, AckedIsGood DEF Good
  <2> QED
    BY <1>1, <2>1, SeenCounts DEF Acked, IncidentRecord
<1>5. ASSUME open(i), NEW d \in Durations, NEW by \in Actors
      PROVE  Counted(Snoozed(i, d, by))
  <2>1. Snoozed(i, d, by) \in IncidentRecord
    BY <1>5, SnoozedIsGood DEF Good
  <2> QED
    BY <1>1, <2>1, SeenCounts DEF Snoozed, IncidentRecord
<1> QED
  BY <1>2, <1>3, <1>4, <1>5

\* Every operation of the store keeps the counts.
LEMMA NextCounts == OInv /\ [Next]_vars => OInv'
<1> SUFFICES ASSUME OInv, [Next]_vars,
                    NEW j \in Keys, inc'[j] # Absent
             PROVE  (Counted(inc[j]))'
  BY NextInvariant DEF OInv, Present
<1>t. /\ now \in Nat /\ inc \in [Keys -> IncidentRecord \cup {Absent}]
      /\ IInv
  BY DEF OInv, IInv, TypeOK
<1>c. \A k \in Keys : inc[k] # Absent => Good(inc[k]) /\ Counted(inc[k])
  BY DEF OInv, IInv, Present
<1>a. ASSUME NEW k \in Keys, ticked[k] # Absent
      PROVE  Good(ticked[k]) /\ Counted(ticked[k])
  <2>1. Good(ticked[k]) /\ inc[k] # Absent
    BY <1>a, <1>t, TickedIsGood
  <2>2. CASE Expired(inc[k])
    BY <1>c, <1>t, <2>1, <2>2, RefireCounts DEF ticked, Expired
  <2>3. CASE ~Expired(inc[k])
    BY <1>c, <2>1, <2>3 DEF ticked
  <2> QED
    BY <2>1, <2>2, <2>3
<1>s. ASSUME now' = now, Counted(inc'[j]) PROVE (Counted(inc[j]))'
  BY <1>s DEF Counted, OccurrencesFit, Sec
<1>o. ASSUME NEW k \in Keys, NEW after, Operate(k, after),
             inc[k] # Absent /\ open(ticked[k]) => Counted(after)
      PROVE  Counted(inc'[j])
  <2>1. CASE inc[k] # Absent /\ open(ticked[k])
    BY <1>a, <1>o, <1>t, <2>1, TickedIsGood DEF Operate
  <2>2. CASE ~(inc[k] # Absent /\ open(ticked[k]))
    BY <1>a, <1>o, <2>2 DEF Operate
  <2> QED
    BY <2>1, <2>2
<1>1. ASSUME NEW k \in Keys, Observe(k) PROVE Counted(inc'[j])
  <2> DEFINE new == IF inc[k] = Absent THEN Created ELSE Recurred(ticked[k])
  <2>1. inc' = [ticked EXCEPT ![k] = new]
    BY <1>1 DEF Observe
  <2>2. Counted(new)
    BY <1>a, <1>t, TickedIsGood, CreatedCounts, RecurredCounts
  <2> HIDE DEF new
  <2> QED
    BY <1>a, <1>t, <2>1, <2>2, TickedIsGood
<1>2. ASSUME NEW k \in Keys, AutoResolve(k) PROVE Counted(inc'[j])
  <2>1. inc' = [inc EXCEPT ![k] = AutoResolved(inc[k])] /\ inc[k] # Absent
    BY <1>2 DEF AutoResolve
  <2>2. Counted(AutoResolved(inc[k]))
    BY <1>c, <1>t, <2>1, OperationsCount
  <2> QED
    BY <1>c, <1>t, <2>1, <2>2
<1>3. ASSUME NEW k \in Keys, NEW by \in Actors, Ack(k, by)
      PROVE  Counted(inc'[j])
  BY <1>3, <1>a, <1>o, <1>t, TickedIsGood, OperationsCount DEF Ack
<1>4. ASSUME NEW k \in Keys, NEW by \in Actors, Resolve(k, by)
      PROVE  Counted(inc'[j])
  BY <1>4, <1>a, <1>o, <1>t, TickedIsGood, OperationsCount DEF Resolve
<1>5. ASSUME NEW k \in Keys, NEW d \in Durations, NEW by \in Actors,
             Snooze(k, d, by)
      PROVE  Counted(inc'[j])
  <2>1. inc[k] # Absent /\ open(ticked[k]) => Counted(Snoozed(ticked[k], d, by))
    BY <1>a, <1>t, TickedIsGood, OperationsCount
  <2> QED
    BY <1>5, <1>o, <2>1 DEF Snooze
<1>6. ASSUME Read PROVE Counted(inc'[j])
  BY <1>6, <1>a DEF Read
<1>7. CASE Tock
  <2>1. now' = now + 1 /\ inc' = inc
    BY <1>7 DEF Tock
  <2>2. Counted(inc[j]) /\ inc[j] \in IncidentRecord
    BY <1>c, <2>1 DEF Good
  <2>3. /\ Sec(now) \in Nat /\ Sec(now + 1) \in Nat /\ Sec(now) <= Sec(now + 1)
        /\ inc[j].lastSeen \in Nat /\ (Sec(now))' = Sec(now + 1)
    <3>1. Sec(now) \in Nat /\ Sec(now + 1) \in Nat
      BY <1>t, SecBounds
    <3>2. Sec(now) <= Sec(now + 1)
      BY <1>t, SecMonotone
    <3>3. (Sec(now))' = Sec(now + 1)
      BY <2>1 DEF Sec
    <3> QED
      BY <2>2, <3>1, <3>2, <3>3 DEF IncidentRecord
  <2>4. inc[j].lastSeen <= now' /\ inc[j].lastSeen <= (Sec(now))'
    BY <1>t, <2>1, <2>2, <2>3 DEF Counted, OccurrencesFit
  <2> QED
    BY <2>1, <2>2, <2>4 DEF Counted, OccurrencesFit
<1>8. ASSUME UNCHANGED vars PROVE Counted(inc'[j])
  BY <1>8, <1>c DEF vars
<1>9. Tock \/ now' = now
  BY DEF Next, vars, Observe, AutoResolve, Ack, Resolve, Snooze, Operate, Read
<1> QED
  BY <1>1, <1>2, <1>3, <1>4, <1>5, <1>6, <1>7, <1>8, <1>9, <1>s DEF Next

\* However often an incident recurs, comes back from a silence or is resolved,
\* it keeps as many occurrences as were counted, up to the cap, in their order
\* and between the times it was first and last seen.
THEOREM GroupMergeAddsUp == Spec => []OccurrencesAddUp
<1>1. Init => OInv
  BY InitInvariant DEF Init, OInv, Present
<1>2. OInv => OccurrencesAddUp
  BY DEF OInv, OccurrencesAddUp, Counted
<1> QED
  BY <1>1, <1>2, NextCounts, PTL DEF Spec
=============================================================================
