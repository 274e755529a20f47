------------------------ MODULE AlertDispatchProofs ------------------------
(***************************************************************************)
(* What the operations of AlertDispatch keep and what they touch, whoever  *)
(* calls them: facts for the proofs about its two clients.                 *)
(***************************************************************************)
EXTENDS AlertDispatch, Integers, SequenceTheorems, TLAPS

\* The ring of send records stays a ring.
LEMMA RecordType ==
  ASSUME audit \in Seq(SendRecord), Len(audit) <= AuditCap,
         NEW channel \in {"none", "webhook"}, NEW subject \in Subjects,
         NEW event \in Events, NEW ok \in BOOLEAN,
         record(channel, subject, event, ok)
  PROVE  audit' \in Seq(SendRecord) /\ Len(audit') <= AuditCap
<1> DEFINE entry == [channel |-> channel, subject |-> subject,
                     event |-> event, ok |-> ok]
           all == Append(audit, entry)
<1>1. entry \in SendRecord
  BY DEF SendRecord
<1>2. audit' = IF Len(all) > AuditCap THEN Tail(all) ELSE all
  BY DEF record
<1> HIDE DEF entry
<1>3. all \in Seq(SendRecord) /\ all # <<>> /\ Len(all) = Len(audit) + 1
  BY <1>1, AppendProperties
<1> HIDE DEF all
<1>4. Tail(all) \in Seq(SendRecord) /\ Len(Tail(all)) = Len(all) - 1
  BY <1>3, HeadTailProperties
<1>5. Len(audit) \in Nat /\ AuditCap \in Nat
  BY LenProperties, DispatchAssumption
<1>6. CASE Len(all) > AuditCap
  BY <1>2, <1>3, <1>4, <1>5, <1>6
<1>7. CASE ~(Len(all) > AuditCap)
  BY <1>2, <1>3, <1>5, <1>7
<1>8. QED
  BY <1>6, <1>7

\* The dispatcher begins within its types.
LEMMA DispatchInitType == ASSUME NEW Texts, DispatchInit PROVE DispatchTypeOK(Texts)
<1>1. audit \in Seq(SendRecord)
  BY EmptySeq DEF DispatchInit
<1>2. Len(audit) <= AuditCap
  BY EmptySeq, DispatchAssumption DEF DispatchInit
<1>3. seenAge \in [Subjects \X Events -> 0 .. TTL]
  BY DispatchAssumption DEF DispatchInit
<1>4. sending \subseteq Message(Texts) /\ webhook \in Webhooks \cup {NoWebhook}
  BY DEF DispatchInit
<1>5. QED
  BY <1>1, <1>2, <1>3, <1>4, Zenon DEF DispatchTypeOK

\* A dispatch changes the age of its own subject and event only, and only if it
\* is let through as a first notice.
LEMMA DispatchingSeen ==
  ASSUME NEW subject, NEW event, NEW text, NEW again \in BOOLEAN,
         Dispatching(subject, event, text, again)
  PROVE  /\ webhook' = webhook
         /\ Passes(subject, event, again) /\ ~again =>
              seenAge' = [seenAge EXCEPT ![<<subject, event>>] = 0]
         /\ ~Passes(subject, event, again) \/ again => seenAge' = seenAge
BY DEF Dispatching, dispatchVars

\* What is under way after it: what was, and the message, if a channel is set.
LEMMA DispatchingSends ==
  ASSUME NEW subject, NEW event, NEW text, NEW again \in BOOLEAN,
         Dispatching(subject, event, text, again)
  PROVE  \/ sending' = sending
         \/ /\ Passes(subject, event, again)
            /\ webhook # NoWebhook
            /\ sending' = sending \cup
                 {[subject |-> subject, event |-> event, text |-> text,
                   channel |-> webhook, attempt |-> 1]}
<1>1. CASE ~Passes(subject, event, again)
  BY <1>1 DEF Dispatching, dispatchVars
<1>2. CASE Passes(subject, event, again)
  <2>1. HandOff(subject, event, text)
    BY <1>2 DEF Dispatching
  <2>2. CASE webhook = NoWebhook
    BY <2>1, <2>2 DEF HandOff
  <2>3. CASE webhook # NoWebhook
    BY <1>2, <2>1, <2>3 DEF HandOff
  <2>4. QED
    BY <2>2, <2>3
<1>3. QED
  BY <1>1, <1>2

\* An event that is dispatched, dropped or suppressed keeps the types.
LEMMA DispatchingType ==
  ASSUME NEW Texts, DispatchTypeOK(Texts),
         NEW subject \in Subjects, NEW event \in Events, NEW text \in Texts,
         NEW again \in BOOLEAN, Dispatching(subject, event, text, again)
  PROVE  DispatchTypeOK(Texts)'
<1>1. webhook' \in Webhooks \cup {NoWebhook}
  <2>1. webhook' = webhook
    BY DispatchingSeen
  <2>2. QED
    BY <2>1 DEF DispatchTypeOK
<1>2. seenAge' \in [Subjects \X Events -> 0 .. TTL]
  <2>1. 0 \in 0 .. TTL
    BY DispatchAssumption
  <2>2. seenAge' = seenAge
        \/ seenAge' = [seenAge EXCEPT ![<<subject, event>>] = 0]
    BY DispatchingSeen
  <2>3. QED
    BY <2>1, <2>2 DEF DispatchTypeOK
<1>3. sending' \subseteq Message(Texts)
  <2>1. webhook # NoWebhook =>
          [subject |-> subject, event |-> event, text |-> text,
           channel |-> webhook, attempt |-> 1] \in Message(Texts)
    BY DEF DispatchTypeOK, Message
  <2>2. QED
    BY <2>1, DispatchingSends DEF DispatchTypeOK
<1>4. audit' \in Seq(SendRecord) /\ Len(audit') <= AuditCap
  <2>1. UNCHANGED audit \/ record("none", subject, event, FALSE)
    BY DEF Dispatching, HandOff, dispatchVars
  <2>2. QED
    BY <2>1, RecordType DEF DispatchTypeOK
<1>5. QED
  BY <1>1, <1>2, <1>3, <1>4, Zenon DEF DispatchTypeOK

\* A POST ends its message, or turns it into its second attempt.
LEMMA AttemptSends ==
  ASSUME NEW m, NEW ok, Attempt(m, ok)
  PROVE  /\ m \in sending /\ UNCHANGED <<webhook, seenAge>>
         /\ \/ sending' = sending \ {m}
            \/ sending' = (sending \ {m}) \cup {[m EXCEPT !.attempt = 2]}
BY DEF Attempt

\* A POST that succeeds, fails or is tried again keeps the types.
LEMMA AttemptType ==
  ASSUME NEW Texts, DispatchTypeOK(Texts), NEW m, NEW ok \in BOOLEAN,
         Attempt(m, ok)
  PROVE  DispatchTypeOK(Texts)'
<1>1. m \in Message(Texts)
  BY AttemptSends DEF DispatchTypeOK
<1>2. sending' \subseteq Message(Texts)
  <2>1. [m EXCEPT !.attempt = 2] \in Message(Texts)
    BY <1>1 DEF Message
  <2>2. QED
    BY <2>1, AttemptSends DEF DispatchTypeOK
<1>3. audit' \in Seq(SendRecord) /\ Len(audit') <= AuditCap
  <2>1. m.subject \in Subjects /\ m.event \in Events
    BY <1>1 DEF Message
  <2>2. UNCHANGED audit \/ record("webhook", m.subject, m.event, ok)
    BY DEF Attempt
  <2>3. QED
    BY <2>1, <2>2, RecordType DEF DispatchTypeOK
<1>4. webhook' \in Webhooks \cup {NoWebhook}
      /\ seenAge' \in [Subjects \X Events -> 0 .. TTL]
  BY AttemptSends DEF DispatchTypeOK
<1>5. QED
  BY <1>2, <1>3, <1>4, Zenon DEF DispatchTypeOK

\* A minute more on the marks of the deduplication keeps the types.
LEMMA AgeType ==
  ASSUME NEW Texts, DispatchTypeOK(Texts), AgeSeen,
         UNCHANGED <<webhook, sending, audit>>
  PROVE  DispatchTypeOK(Texts)'
<1>1. seenAge' \in [Subjects \X Events -> 0 .. TTL]
  <2>1. \A n \in 0 .. TTL : (IF n < TTL THEN n + 1 ELSE TTL) \in 0 .. TTL
    BY DispatchAssumption
  <2>2. QED
    BY <2>1 DEF AgeSeen, DispatchTypeOK
<1>2. QED
  BY <1>1 DEF DispatchTypeOK
=============================================================================
