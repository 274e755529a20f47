----------------------------- MODULE BatchSink -----------------------------
(***************************************************************************)
(* The asynchronous writer of the guard audit                              *)
(* (backend/internal/audit/clickhouse.go).  The usage rollup and the       *)
(* Langfuse ingestion repeat its loop with other capacities.               *)
(*                                                                         *)
(* Producers never wait: a row that finds the channel full is dropped.     *)
(* One goroutine moves rows from the channel to a batch and writes it when *)
(* it is full or when the ticker fires; while it writes it takes nothing.  *)
(* Nothing is persisted before it is written, and shutdown does not drain. *)
(***************************************************************************)
EXTENDS Naturals, Sequences, SequencesExt

CONSTANTS
  Rows,      \* rows, each offered once
  Cap,       \* capacity of the channel
  BatchMax   \* rows that fill a batch

ASSUME SinkAssumption == Cap \in Nat \ {0} /\ BatchMax \in Nat \ {0}

VARIABLES queue, batch, writing

sinkVars == <<queue, batch, writing>>

SinkTypeOK ==
  /\ queue \in Seq(Rows) /\ Len(queue) <= Cap
  /\ batch \in Seq(Rows) /\ Len(batch) <= BatchMax
  /\ writing \in BOOLEAN

SinkInit == queue = <<>> /\ batch = <<>> /\ writing = FALSE

Accepts == Len(queue) < Cap

Enqueue(row) ==
  /\ queue' = IF Accepts THEN Append(queue, row) ELSE queue
  /\ UNCHANGED <<batch, writing>>

Take ==
  /\ ~writing /\ queue # <<>>
  /\ queue' = Tail(queue)
  /\ batch' = Append(batch, Head(queue))
  /\ writing' = (Len(batch') >= BatchMax)

\* The ticker counts the rows it leaves to the next full batch.
TickerFires_WaitsForFull ==
  /\ ~writing
  /\ writing' = (Len(batch) >= BatchMax)
  /\ UNCHANGED <<queue, batch>>

TickerFires ==
  /\ ~writing
  /\ writing' = (batch # <<>>)
  /\ UNCHANGED <<queue, batch>>

\* The batch is not reset after the write.
Written_KeepsBatch ==
  /\ writing
  /\ writing' = FALSE
  /\ UNCHANGED <<queue, batch>>

\* The write is over, whether it failed or not.
Written ==
  /\ writing
  /\ batch' = <<>> /\ writing' = FALSE
  /\ UNCHANGED queue

Killed == queue' = <<>> /\ batch' = <<>> /\ writing' = FALSE

Waits(row) == Contains(queue, row) \/ Contains(batch, row)
=============================================================================
