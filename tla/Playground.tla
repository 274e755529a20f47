------------------------------ MODULE Playground ------------------------------
(***************************************************************************)
(* The chat of the playground (web/src/pages/Playground.tsx).  A question  *)
(* waits a moment, is sent, and its answer is drawn on the screen piece by *)
(* piece.  One status locks the controls; a place of the conversation is   *)
(* found by its number.  Stopping and clearing end the drawing, not the    *)
(* request.  A question may be put to all models at once, aside from the   *)
(* chat.                                                                   *)
(***************************************************************************)
EXTENDS Naturals, Sequences, Overlay

CONSTANTS MaxRequests,    \* requests of one visit at most
          Full            \* pieces an answer is drawn in

VARIABLE chat

None == "none"
NoAnswer == 0
Nothing == [to |-> NoAnswer, len |-> 0]

(* An exchange: the question (its number), what is drawn of an answer, the *)
(* question the whole answer is to, and the one asked when it came.        *)
Turn(n) == [question |-> n, content |-> Nothing, full |-> NoAnswer, status |-> "queued", reqHistory |-> NoAnswer]

Arrived(reduced) ==
    [turns |-> <<>>, status |-> "idle", typewriter |-> {}, requests |-> {}, asked |-> 0, reduced |-> reduced,
     comparing |-> FALSE, compareRows |-> {}, stoppedAsking |-> FALSE, clearedAsking |-> FALSE]

\* The exchange in a place, if the place is still there.
Updated(turns, idx, patch) == [i \in DOMAIN turns |-> IF i = idx THEN patch ++ turns[i] ELSE turns[i]]
Completed(answer) == [content |-> [to |-> answer, len |-> Full], status |-> "complete"]

\* A drawing takes the place of the one before, whosever that is; nobody who asked for less motion sees one.
runTypewriter(c, idx, full, from) ==
    IF c.reduced
      THEN [c EXCEPT !.typewriter = {}, !.status = "idle", !.turns = Updated(@, idx, Completed(full))]
      ELSE [c EXCEPT !.typewriter = {[idx |-> idx, full |-> full, pos |-> from]}, !.status = "streaming"]

\* An answer that was blocked is shown whole, and whatever is being drawn goes on.
beginStream(c, r, blocked) ==
    LET begun == [c EXCEPT !.turns = Updated(@, r.idx,
                      [full |-> r.history, reqHistory |-> r.history, content |-> Nothing, status |-> "streaming"])]
    IN  IF blocked THEN [begun EXCEPT !.turns = Updated(@, r.idx, Completed(r.history)), !.status = "idle"]
        ELSE runTypewriter(begun, r.idx, r.history, 0)

runRequest(c, idx, history) ==
    [c EXCEPT !.status = "queued", !.asked = @ + 1,
              !.turns = Updated(@, idx, [status |-> "queued"]),
              !.requests = @ \cup {[n |-> c.asked + 1, idx |-> idx, history |-> history, phase |-> "queued"]}]

-----------------------------------------------------------------------------
\* The Enter key without its look at the status.
send_Always ==
    /\ chat.asked < MaxRequests
    /\ chat' = runRequest([chat EXCEPT !.turns = Append(@, Turn(chat.asked + 1))], Len(chat.turns) + 1, chat.asked + 1)
send ==
    /\ chat.status = "idle" /\ chat.asked < MaxRequests
    /\ chat' = runRequest([chat EXCEPT !.turns = Append(@, Turn(chat.asked + 1))], Len(chat.turns) + 1, chat.asked + 1)

\* The moment is over: the status says so whatever was pressed meanwhile.
Think(r) ==
    /\ r \in chat.requests /\ r.phase = "queued"
    /\ chat' = [chat EXCEPT !.status = "thinking",
                    !.turns = Updated(@, r.idx, [status |-> "thinking"]),
                    !.requests = (@ \ {r}) \cup {[r EXCEPT !.phase = "thinking"]}]
Answer(r, blocked) ==
    /\ r \in chat.requests /\ r.phase = "thinking"
    /\ chat' = beginStream([chat EXCEPT !.requests = @ \ {r}], r, blocked)
Refuse(r) ==
    /\ r \in chat.requests /\ r.phase = "thinking"
    /\ chat' = [chat EXCEPT !.status = "idle", !.requests = @ \ {r},
                    !.turns = Updated(@, r.idx, [status |-> "error"])]

\* A frame: one more piece, and with the last one the answer is complete.
Tick(w) ==
    /\ w \in chat.typewriter
    /\ chat' = IF w.pos + 1 >= Full
                 THEN [chat EXCEPT !.status = "idle", !.typewriter = {}, !.turns = Updated(@, w.idx, Completed(w.full))]
                 ELSE [chat EXCEPT !.typewriter = {[w EXCEPT !.pos = w.pos + 1]},
                           !.turns = Updated(@, w.idx, [content |-> [to |-> w.full, len |-> w.pos + 1]])]

Unfinished == {"queued", "thinking", "streaming"}
Stopped(c) ==
    [c EXCEPT !.status = "idle", !.typewriter = {},
              !.turns = [i \in DOMAIN @ |-> IF @[i].status \in Unfinished THEN [@[i] EXCEPT !.status = "stopped"] ELSE @[i]]]
stop ==
    /\ chat.status \in Unfinished
    /\ chat' = [Stopped(chat) EXCEPT !.stoppedAsking = @ \/ chat.requests # {}]
Clear ==
    /\ chat.turns # <<>>
    /\ chat' = [Stopped(chat) EXCEPT !.turns = <<>>, !.clearedAsking = @ \/ chat.requests # {}]

resume(idx) ==
    /\ chat.status = "idle" /\ idx \in DOMAIN chat.turns
    /\ LET turn == chat.turns[idx]
       IN  /\ turn.status = "stopped" /\ turn.full # NoAnswer /\ turn.content.len < Full
           /\ chat' = runTypewriter([chat EXCEPT !.turns = Updated(@, idx, [status |-> "streaming"])],
                                    idx, turn.full, turn.content.len)
regenerate(idx) ==
    /\ chat.status = "idle" /\ idx \in DOMAIN chat.turns /\ chat.asked < MaxRequests
    /\ chat.turns[idx].status = "stopped" /\ chat.turns[idx].reqHistory # NoAnswer
    /\ chat' = runRequest([chat EXCEPT !.turns = Updated(@, idx, [content |-> Nothing, full |-> NoAnswer])],
                          idx, chat.turns[idx].reqHistory)
\* The question above is asked again, not the one that failed.
retry(idx) ==
    /\ chat.status = "idle" /\ idx \in DOMAIN chat.turns /\ chat.asked < MaxRequests
    /\ chat.turns[idx].status = "error"
    /\ chat' = runRequest(chat, idx, chat.turns[idx].question)

\* All answers together; they are shown even if the table was closed meanwhile.
compare ==
    /\ ~chat.comparing /\ chat.status \notin Unfinished
    /\ chat' = [chat EXCEPT !.comparing = TRUE, !.compareRows = {"blank"}]
Compared == chat.comparing /\ chat' = [chat EXCEPT !.comparing = FALSE, !.compareRows = {"results"}]
CloseRows == chat.compareRows # {} /\ chat' = [chat EXCEPT !.compareRows = {}]

ChatNext ==
    \/ send \/ stop \/ Clear \/ compare \/ Compared \/ CloseRows
    \/ \E r \in chat.requests : Think(r) \/ Refuse(r) \/ \E blocked \in BOOLEAN : Answer(r, blocked)
    \/ \E w \in chat.typewriter : Tick(w)
    \/ \E idx \in DOMAIN chat.turns : resume(idx) \/ regenerate(idx) \/ retry(idx)

-----------------------------------------------------------------------------
(* An answer stands under the question it answers, unless the conversation *)
(* was cleared while a question was being answered.  As long as nobody     *)
(* stopped or cleared one that was being answered, the controls are open   *)
(* just when nothing is asked or drawn, an exchange that waits has         *)
(* somebody to wait for, and a complete one shows the whole answer.  A     *)
(* comparison without results is under way.                                *)
AnswersFindTheirQuestion ==
    LET turns == chat.turns
        Busy(idx) == {x \in chat.requests \cup chat.typewriter : x.idx = idx}
    IN  /\ ~chat.clearedAsking => \A i \in DOMAIN turns : {turns[i].full, turns[i].content.to} \subseteq {NoAnswer, turns[i].question}
        /\ ~(chat.stoppedAsking \/ chat.clearedAsking) =>
               /\ (chat.status = "idle") <=> (chat.requests \cup chat.typewriter = {})
               /\ \A i \in DOMAIN turns :
                      /\ turns[i].status \in Unfinished <=> \E x \in Busy(i) : Busy(i) = {x}
                      /\ turns[i].status = "complete" => turns[i].content = [to |-> turns[i].question, len |-> Full]
        /\ chat.compareRows = {"blank"} => chat.comparing
=============================================================================
