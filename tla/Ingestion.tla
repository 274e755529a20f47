------------------------------ MODULE Ingestion ------------------------------
(***************************************************************************)
(* The forwarder of exchanges to Langfuse (backend/internal/glue):         *)
(* capture.go makes events of an exchange, with as much of its texts as    *)
(* the policy keeps; they are offered one by one to the queue of           *)
(* langfuse.go, which sends them in batches and forgets a batch that was   *)
(* sent, whatever the answer.                                              *)
(***************************************************************************)
EXTENDS MaskingPolicy, BatchSink

CONSTANT Exchanges   \* captured, each once

\* What is captured; suspected: the judgement gave it a confidence above zero.
ASSUME CaptureAssumption ==
    Exchanges \subseteq [decision : {"", "allowed", "flagged", "blocked"}, pointedOut : SUBSET {"phone", "name"}, suspected : BOOLEAN]

VARIABLE traces

(* offered: the events of an exchange still to be offered; by (history):   *)
(* the policy it was captured under; torn: those of which an event found   *)
(* the queue full; lost: a batch may not have arrived.                     *)
NoTraces ==
    [offered |-> [x \in Exchanges |-> <<>>], captured |-> {}, by |-> [x \in Exchanges |-> DefaultMaskingPolicy], torn |-> {},
     lost |-> FALSE, ingested |-> <<>>]

-----------------------------------------------------------------------------
InMode(p, decision) == IF decision = "blocked" /\ p.blocked # "" THEN p.blocked ELSE p.input
OutMode(p, decision) == IF decision = "blocked" /\ p.blocked # "" THEN p.blocked ELSE p.output
Event(x, kind, input, output) == [of |-> x, kind |-> kind, input |-> input, output |-> output]
\* What was suspected, and what was judged, has a score for it.
EventsOf(x, p) ==
    LET input == Apply(p, InMode(p, x.decision), x.pointedOut)
        output == Apply(p, OutMode(p, x.decision), x.pointedOut)
    IN  <<Event(x, "trace", {}, {}), Event(x, "guardrail", input, {}), Event(x, "generation", input, output)>>
        \o (IF x.suspected THEN <<Event(x, "suspicion", {}, {})>> ELSE <<>>)
        \o (IF x.decision # "" THEN <<Event(x, "decision", {}, {})>> ELSE <<>>)

Capture(x) ==
    /\ x \notin traces.captured
    /\ traces' = [traces EXCEPT !.captured = @ \cup {x}, !.offered[x] = EventsOf(x, masking.current.policy),
                      !.by[x] = masking.current.policy]
    /\ UNCHANGED sinkVars
\* The texts are masked when an event is offered, by the policy of that moment.
Offer_MaskedLate(x) ==
    LET now == EventsOf(x, masking.current.policy)
    IN  /\ traces.offered[x] # <<>>
        /\ Enqueue(now[Len(now) - Len(traces.offered[x]) + 1])
        /\ traces' = [traces EXCEPT !.offered[x] = Tail(@), !.torn = IF Accepts THEN @ ELSE @ \cup {x}]
\* Between two events of one exchange come those of another, and the sender.
Offer(x) ==
    /\ traces.offered[x] # <<>>
    /\ Enqueue(Head(traces.offered[x]))
    /\ traces' = [traces EXCEPT !.offered[x] = Tail(@), !.torn = IF Accepts THEN @ ELSE @ \cup {x}]

Receive == Take /\ UNCHANGED traces
TimeUp == TickerFires /\ UNCHANGED traces
\* The events are there or not; nobody asks again.
Send(arrives) ==
    /\ Written
    /\ traces' = [traces EXCEPT !.lost = @ \/ ~arrives, !.ingested = IF arrives THEN @ \o batch ELSE @]
RestartForwarder ==
    /\ masking.restarts < MaxRestarts
    /\ masking' = Forgotten /\ Killed
    /\ traces' = [traces EXCEPT !.lost = TRUE, !.offered = [x \in Exchanges |-> <<>>]]

IngestionNext ==
    \/ MaskingNext /\ UNCHANGED <<sinkVars, traces>>
    \/ /\ \/ \E x \in Exchanges : Capture(x) \/ Offer(x)
          \/ Receive \/ TimeUp \/ \E arrives \in BOOLEAN : Send(arrives)
       /\ UNCHANGED masking
    \/ RestartForwarder

IngestionInit ==
    /\ \E database, mock, reached \in BOOLEAN : masking = Started(database, mock, reached)
    /\ traces = NoTraces /\ SinkInit
IngestionSpec == IngestionInit /\ [][IngestionNext]_<<masking, traces, sinkVars>>

-----------------------------------------------------------------------------
Place == [trace |-> 1, guardrail |-> 2, generation |-> 3, suspicion |-> 4, decision |-> 5]

(* The events of an exchange keep their order and come once; all of them   *)
(* come unless the queue overflowed, a batch was lost or the forwarder     *)
(* restarted.  All tell of one policy, however often it changed while they *)
(* were under way: both events with the prompt keep the same of it, and no *)
(* personal data can be read that was found and that this policy hides.    *)
TracesStayTogether ==
    \A x \in traces.captured :
        LET events == traces.ingested \o batch \o queue \o traces.offered[x]
            mine == {i \in DOMAIN events : events[i].of = x}
            p == traces.by[x]
            Hides(mode, part) ==
                \/ mode = "none"
                \/ /\ mode = "masked" /\ p.enabled
                   /\ part = "phone" \/ part \in x.pointedOut
                   /\ part \in DOMAIN p.rules /\ p.rules[part] # "keep"
            Mode(usual) == IF x.decision = "blocked" /\ p.blocked # "" THEN p.blocked ELSE usual
        IN  /\ \A i, j \in mine : i < j => Place[events[i].kind] < Place[events[j].kind]
            /\ \A i, j \in mine :
                   {events[i].kind, events[j].kind} = {"guardrail", "generation"} => events[i].input = events[j].input
            /\ \A i \in mine :
                   /\ \A part \in events[i].input : ~Hides(Mode(p.input), part)
                   /\ \A part \in events[i].output : ~Hides(Mode(p.output), part)
            /\ \/ x \in traces.torn \/ traces.lost
               \/ {events[i].kind : i \in mine} = {"trace", "guardrail", "generation"} \cup {k \in {"suspicion"} : x.suspected}
                                                      \cup {k \in {"decision"} : x.decision # ""}
=============================================================================
