------------------------------ MODULE Incident ------------------------------
(***************************************************************************)
(* The incident store (backend/internal/incident/incident.go) behind the   *)
(* inbox handlers of backend/internal/server/incidents.go.                 *)
(*                                                                         *)
(* Every operation runs under the store's mutex: one action each, which    *)
(* reads the clock once where the code reads it up to twice with nothing   *)
(* to wait for in between.  No timer runs: a silence that has run out is   *)
(* lifted by tickLocked, which all operations but AutoResolve begin with.  *)
(*                                                                         *)
(* A dedup key stands for the id hashed from it.  Clock readings are in    *)
(* units of 1/Res second; RFC3339 cuts them to whole seconds (Sec).  Left  *)
(* out: severity and title, which no operation looks at, and the order of  *)
(* the list.                                                               *)
(***************************************************************************)
EXTENDS Integers, Sequences

CONSTANTS
  Keys,       \* dedup keys
  Actors,     \* operators, as named by the identity header
  Durations,  \* snooze durations the handler accepts
  Res,        \* clock readings per second
  OccCap,     \* occurrenceCap
  MaxTime,    \* bound: the clock stops here
  MaxCount,   \* bound: observations of one key
  MaxLog,     \* bound: no operation when an audit log is this long
  Absent,     \* the store has no incident for the key
  Never       \* the empty silenced_until

ASSUME IncidentAssumption ==
  /\ Res \in Nat \ {0} /\ OccCap \in Nat \ {0}
  /\ MaxTime \in Nat /\ MaxCount \in Nat /\ MaxLog \in Nat
  /\ Durations \subseteq {d \in Nat : d >= Res}   \* whole minutes
  /\ "" \notin Actors /\ {"auto", "system"} \cap Actors = {}
  /\ Never \notin Int

VARIABLES now, inc

vars == <<now, inc>>

OpenStates == {"triggered", "acked", "snoozed"}
AllStates  == OpenStates \cup {"resolved"}
By         == Actors \cup {"auto", "system"}
Names      == Actors \cup {"", "auto"}
AuditEntry == [from : AllStates, to : AllStates, by : By]

IncidentRecord ==
  [state : AllStates, firstSeen : Nat, lastSeen : Nat, count : Nat \ {0},
   occurrences : Seq(Nat), ackedBy : Names, resolvedBy : Names,
   silencedUntil : Nat \cup {Never}, log : Seq(AuditEntry)]

ASSUME AbsentIsNoIncident == Absent \notin IncidentRecord

TypeOK ==
  /\ now \in Nat
  /\ inc \in [Keys -> IncidentRecord \cup {Absent}]

Sec(t) == t - (t % Res)

open(i)    == i.state # "resolved"
Expired(i) == i.state = "snoozed" /\ i.silencedUntil # Never
              /\ now >= i.silencedUntil

Logged(i, to, by) ==
  Append(i.log, [from |-> i.state, to |-> to, by |-> by])

-----------------------------------------------------------------------------
\* A silence lifted without a word in the audit log.
Refire_Unlogged(i) ==
  [i EXCEPT !.state = "triggered", !.silencedUntil = Never]

\* Lifting a silence.
Refire(i) == [i EXCEPT !.state = "triggered", !.silencedUntil = Never,
                       !.log = Logged(i, "triggered", "system")]

\* A silence ends only after its time, not at it.
ticked_Strict ==
  [k \in Keys |-> IF inc[k] # Absent /\ Expired(inc[k])
                     /\ now > inc[k].silencedUntil
                  THEN Refire(inc[k]) ELSE inc[k]]

ticked ==
  [k \in Keys |-> IF inc[k] # Absent /\ Expired(inc[k]) THEN Refire(inc[k])
                  ELSE inc[k]]

\* The ring grows one past its cap.
pushOccurrence_OffByOne(occ) ==
  LET all == Append(occ, Sec(now))
  IN IF Len(all) > OccCap + 1
     THEN SubSeq(all, Len(all) - OccCap, Len(all)) ELSE all

pushOccurrence(occ) ==
  LET all == Append(occ, Sec(now))
  IN IF Len(all) > OccCap
     THEN SubSeq(all, Len(all) - OccCap + 1, Len(all)) ELSE all

Created ==
  [state |-> "triggered", firstSeen |-> Sec(now), lastSeen |-> Sec(now),
   count |-> 1, occurrences |-> <<Sec(now)>>, ackedBy |-> "",
   resolvedBy |-> "", silencedUntil |-> Never, log |-> <<>>]

\* A recurrence that leaves the silence of a snoozed incident in place.
Recurred_KeepsSilence(i) ==
  LET seen == [i EXCEPT !.count = @ + 1, !.lastSeen = Sec(now),
                        !.occurrences = pushOccurrence(@)]
  IN IF i.state \in {"resolved", "snoozed"}
     THEN [seen EXCEPT !.state = "triggered", !.resolvedBy = "",
                       !.log = Logged(i, "triggered", "system")]
     ELSE seen

\* A recurrence: a closed or silenced incident is triggered again, an
\* acknowledged one stays acknowledged.
Recurred(i) ==
  LET seen == [i EXCEPT !.count = @ + 1, !.lastSeen = Sec(now),
                        !.occurrences = pushOccurrence(@)]
  IN IF i.state \in {"resolved", "snoozed"}
     THEN [seen EXCEPT !.state = "triggered", !.silencedUntil = Never,
                       !.resolvedBy = "",
                       !.log = Logged(i, "triggered", "system")]
     ELSE seen

\* The resolution is attributed as the other automatic transitions are.
AutoResolved_BySystem(i) ==
  [i EXCEPT !.state = "resolved", !.resolvedBy = "system",
            !.silencedUntil = Never, !.lastSeen = Sec(now),
            !.log = Logged(i, "resolved", "system")]

AutoResolved(i) ==
  [i EXCEPT !.state = "resolved", !.resolvedBy = "auto",
            !.silencedUntil = Never, !.lastSeen = Sec(now),
            !.log = Logged(i, "resolved", "auto")]

Acked(i, by) ==
  [i EXCEPT !.state = "acked", !.ackedBy = by, !.silencedUntil = Never,
            !.lastSeen = Sec(now), !.log = Logged(i, "acked", by)]

Resolved(i, by) ==
  [i EXCEPT !.state = "resolved", !.resolvedBy = by, !.silencedUntil = Never,
            !.lastSeen = Sec(now), !.log = Logged(i, "resolved", by)]

Snoozed(i, d, by) ==
  [i EXCEPT !.state = "snoozed", !.silencedUntil = Sec(now + d),
            !.lastSeen = Sec(now), !.log = Logged(i, "snoozed", by)]

-----------------------------------------------------------------------------
Init ==
  /\ now \in 0 .. Res - 1
  /\ inc = [k \in Keys |-> Absent]

InBounds == \A k \in Keys : inc[k] # Absent => Len(inc[k].log) < MaxLog

Observe(k) ==
  /\ InBounds
  /\ inc[k] # Absent => inc[k].count < MaxCount
  /\ inc' = [ticked EXCEPT ![k] =
               IF inc[k] = Absent THEN Created ELSE Recurred(ticked[k])]
  /\ UNCHANGED now

AutoResolve(k) ==
  /\ InBounds
  /\ inc[k] # Absent
  /\ open(inc[k])
  /\ inc' = [inc EXCEPT ![k] = AutoResolved(@)]
  /\ UNCHANGED now

\* The guard against operating on a resolved incident is gone.
Operate_Unguarded(k, after) ==
  /\ InBounds
  /\ inc' = IF inc[k] # Absent THEN [ticked EXCEPT ![k] = after] ELSE ticked
  /\ UNCHANGED now

\* Ack, Resolve and Snooze refuse an unknown or a resolved incident, after
\* the silences that have run out were lifted.
Operate(k, after) ==
  /\ InBounds
  /\ inc' = IF inc[k] # Absent /\ open(ticked[k])
            THEN [ticked EXCEPT ![k] = after] ELSE ticked
  /\ UNCHANGED now

Ack(k, by)       == Operate(k, Acked(ticked[k], by))
Resolve(k, by)   == Operate(k, Resolved(ticked[k], by))
Snooze(k, d, by) == Operate(k, Snoozed(ticked[k], d, by))

\* List, Counts and Tick.
Read == inc' = ticked /\ UNCHANGED now

Tock == now < MaxTime /\ now' = now + 1 /\ UNCHANGED inc

Next ==
  \/ \E k \in Keys : Observe(k)
  \/ \E k \in Keys : AutoResolve(k)
  \/ \E k \in Keys, by \in Actors : Ack(k, by)
  \/ \E k \in Keys, by \in Actors : Resolve(k, by)
  \/ \E k \in Keys, d \in Durations, by \in Actors : Snooze(k, d, by)
  \/ Read
  \/ Tock

Spec == Init /\ [][Next]_vars

-----------------------------------------------------------------------------
Present(k) == inc[k] # Absent

\* The audit log is the history: it starts where an incident starts, each
\* entry begins where the one before ended, and the last ends in the state the
\* inbox shows, so no transition is ever missing from it.
Replays(i) ==
  LET n == Len(i.log) IN
  /\ n = 0 => i.state = "triggered"
  /\ n > 0 => i.log[1].from = "triggered" /\ i.log[n].to = i.state
  /\ \A j \in 1 .. n - 1 : i.log[j].to = i.log[j + 1].from

AuditReplays == \A k \in Keys : Present(k) => Replays(inc[k])

\* The fields that go with a state are there exactly in that state: a silence
\* with a time at which it ends, a resolution with its author; an acknowledged
\* incident names who took it.
FieldsFit(i) ==
  /\ i.silencedUntil # Never <=> i.state = "snoozed"
  /\ i.resolvedBy # "" <=> i.state = "resolved"
  /\ i.state = "acked" => i.ackedBy # ""

FieldsMatchState == \A k \in Keys : Present(k) => FieldsFit(inc[k])

\* Group-merge does not lose count: an incident keeps as many occurrences as
\* were counted, up to the cap, in the order they came, none before the incident
\* was first seen or after it was last.
OccurrencesFit(i) ==
  LET n == Len(i.occurrences) IN
  /\ n = IF i.count < OccCap THEN i.count ELSE OccCap
  /\ \A j \in 1 .. n - 1 : i.occurrences[j] <= i.occurrences[j + 1]
  /\ i.firstSeen <= i.occurrences[1] /\ i.occurrences[n] <= i.lastSeen
  /\ i.lastSeen <= now

OccurrencesAddUp == \A k \in Keys : Present(k) => OccurrencesFit(inc[k])

\* A silence that has run out does not outlive any operation that looked at the
\* inbox: whatever changes an incident, other than the signal that resolves it,
\* leaves none snoozed past its time.
AutoStep == \E k \in Keys : Present(k) /\ open(inc[k]) /\ ~open(inc'[k])
                             /\ inc'[k].resolvedBy = "auto"

ExpiredSilenceIsLifted ==
  [][inc' # inc /\ ~AutoStep
       => \A k \in Keys : Present(k)' => ~Expired(inc'[k])]_vars

\* The store implements the promise of IncidentLifecycle.
Lifecycle == INSTANCE IncidentLifecycle WITH
  phase <- [k \in Keys |-> IF Present(k) THEN inc[k].state ELSE "absent"],
  wake  <- [k \in Keys |-> IF Present(k) /\ inc[k].silencedUntil # Never
                           THEN inc[k].silencedUntil ELSE 0],
  clock <- now

KeepsThePromise == Lifecycle!Spec
=============================================================================
