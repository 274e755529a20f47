----------------------------- MODULE AuditTrail -----------------------------
(***************************************************************************)
(* The audit trail of the guard: handlePlaygroundChat judges each request  *)
(* and offers one row to audit.Sink (internal/audit/clickhouse.go) before  *)
(* the upstream is called.  The sink is a BatchSink whose writer inserts a *)
(* batch in ClickHouse and then puts its rows, one by one, in the          *)
(* object-lock store (internal/audit/worm.go).                             *)
(*                                                                         *)
(* A request stands for the row it makes.                                  *)
(***************************************************************************)
EXTENDS BatchSink, Integers

CONSTANT MaxCrash   \* bound: restarts

ASSUME TrailAssumption == MaxCrash \in Nat

VARIABLES
  judged,   \* the requests whose row was offered
  put,      \* rows of the batch the WORM loop is past; -1: insert not over
  mirror,   \* rows of fabrix.guard_audit, in the order of insertion
  worm,     \* rows preserved in the bucket
  wormOn,   \* the WORM store is attached and enabled
  arrived,  \* rows the sink accepted, in order (history)
  crashes

vars == <<sinkVars, judged, put, mirror, worm, wormOn, arrived, crashes>>

TypeOK ==
  /\ SinkTypeOK
  /\ judged \subseteq Rows
  /\ put \in -1 .. BatchMax - 1
  /\ mirror \in Seq(Rows) /\ arrived \in Seq(Rows)
  /\ worm \subseteq Rows /\ wormOn \in BOOLEAN
  /\ crashes \in 0 .. MaxCrash

Init ==
  /\ SinkInit
  /\ judged = {} /\ put = -1 /\ mirror = <<>> /\ arrived = <<>>
  /\ worm = {} /\ wormOn \in BOOLEAN
  /\ crashes = 0

-----------------------------------------------------------------------------
\* classifyAndAudit offers the row whatever the verdict, and does not look at
\* whether it was taken.
classifyAndAudit(r) ==
  /\ r \notin judged
  /\ judged' = judged \cup {r}
  /\ Enqueue(r)
  /\ arrived' = IF Accepts THEN Append(arrived, r) ELSE arrived
  /\ UNCHANGED <<put, mirror, worm, wormOn, crashes>>

Receive ==
  Take /\ UNCHANGED <<judged, put, mirror, worm, wormOn, arrived, crashes>>

Tick ==
  TickerFires
    /\ UNCHANGED <<judged, put, mirror, worm, wormOn, arrived, crashes>>

\* The rows are in the table or not (the answer may be lost), and the writer
\* goes on either way.
Insert ==
  /\ writing /\ put = -1
  /\ mirror' \in {mirror, mirror \o batch}
  /\ IF wormOn THEN put' = 0 /\ UNCHANGED sinkVars
     ELSE Written /\ UNCHANGED put
  /\ UNCHANGED <<judged, worm, wormOn, arrived, crashes>>

\* The first Put that fails ends the loop over the batch.
Put ==
  /\ writing /\ put >= 0
  /\ \E stored, ok \in BOOLEAN :
       /\ ok => stored
       /\ worm' = IF stored THEN worm \cup {batch[put + 1]} ELSE worm
       /\ IF ok /\ put + 1 < Len(batch)
          THEN put' = put + 1 /\ UNCHANGED sinkVars
          ELSE put' = -1 /\ Written
  /\ UNCHANGED <<judged, mirror, wormOn, arrived, crashes>>

\* The process dies and comes back: what was in memory is gone.
Crash ==
  /\ crashes < MaxCrash
  /\ crashes' = crashes + 1
  /\ Killed /\ put' = -1
  /\ UNCHANGED <<judged, mirror, worm, wormOn, arrived>>

Next ==
  \/ \E r \in Rows : classifyAndAudit(r)
  \/ Receive
  \/ Tick
  \/ Insert
  \/ Put
  \/ Crash

\* The writer's goroutine runs, its ticker fires, its requests time out.
Fairness ==
  /\ WF_vars(Receive) /\ WF_vars(Tick) /\ WF_vars(Insert) /\ WF_vars(Put)

Spec     == Init /\ [][Next]_vars
FairSpec == Spec /\ Fairness

-----------------------------------------------------------------------------
\* s is t, whose elements differ, with some of them left out.
Within(s, t) ==
  /\ \A i \in DOMAIN s : Contains(t, s[i])
  /\ \A i, j \in DOMAIN s : i < j =>
       \E p, q \in DOMAIN t : p < q /\ t[p] = s[i] /\ t[q] = s[j]

\* Through failed inserts, failed Puts and restarts, no row is recorded twice
\* or out of turn: what was inserted and what still is to be, in this order, is
\* what the sink accepted, with rows missing but none repeated or overtaken.
RowsAreWrittenAtMostOnce ==
  Within(mirror \o (IF put = -1 THEN batch ELSE <<>>) \o queue, arrived)

\* A row the sink accepted does not stay in memory: those that do not fill a
\* batch are written (or lost) as well.
NoRowLingers == \A r \in Rows : Waits(r) ~> ~Waits(r)
=============================================================================
