------------------------------ MODULE Transport ------------------------------
(***************************************************************************)
(* How the web client reads (web/src/api/client.ts, getJSON): a request    *)
(* with a limit on its time, and more of them after a failure, each after  *)
(* a longer wait.  The caller's signal cuts off the request under way, but *)
(* not a wait.                                                             *)
(***************************************************************************)
EXTENDS Naturals

CONSTANT MAX_RETRY    \* requests after the first one at most

VARIABLE http

Statuses == {200, 404, 429, 500}
isRetriableStatus(status) == status = 429 \/ status >= 500

NoStatus == 0
\* A failure that the next request may not meet: no answer, one that breaks off, a refusal to be retried.
Passing(status) == status \in {NoStatus, 200} \/ isRetriableStatus(status)
getJSON == [attempt |-> 0, phase |-> "next", status |-> NoStatus, sent |-> 0, result |-> {}, abortedIn |-> {}, sentByAbort |-> 0]

aborted == http.abortedIn # {}
Ended == http.result # {}

\* What follows a failure: the caller's abort and the last attempt end the call.
Caught(h, error) ==
    IF h.abortedIn # {} \/ h.attempt = MAX_RETRY THEN [h EXCEPT !.result = {error}] ELSE [h EXCEPT !.phase = "backoff"]

\* An attempt that knows its time limit only.
fetch_NoSignal ==
    /\ http.phase = "next" /\ ~Ended
    /\ http' = [http EXCEPT !.phase = "fetching", !.sent = @ + 1]
\* A request is not sent with a signal that was aborted.
fetch ==
    /\ http.phase = "next" /\ ~Ended
    /\ http' = IF aborted THEN Caught(http, "AbortError") ELSE [http EXCEPT !.phase = "fetching", !.sent = @ + 1]
Respond(status) ==
    /\ http.phase = "fetching" /\ ~aborted
    /\ http' = [http EXCEPT !.phase = "reading", !.status = status]
\* No answer, an answer that breaks off or is not JSON, the time limit, or the abort.
Reject ==
    /\ ~Ended /\ (http.phase = "fetching" \/ (http.phase = "reading" /\ http.status = 200))
    /\ http' = Caught(http, IF aborted THEN "AbortError" ELSE "error")
Read ==
    /\ http.phase = "reading" /\ http.status = 200 /\ ~aborted /\ ~Ended
    /\ http' = [http EXCEPT !.result = {"data"}]
\* A refusal is thrown where failures are caught, so that it is retried whatever its status; what its body says is only its text.
Refused ==
    /\ http.phase = "reading" /\ http.status # 200 /\ ~Ended
    /\ http' = IF isRetriableStatus(http.status) /\ http.attempt < MAX_RETRY THEN [http EXCEPT !.phase = "backoff"]
               ELSE Caught(http, "error")
Wake ==
    /\ http.phase = "backoff" /\ ~Ended
    /\ http' = [http EXCEPT !.phase = "next", !.attempt = @ + 1, !.status = NoStatus]
\* The caller leaves the screen, or loads anew.
Abort ==
    /\ ~Ended /\ ~aborted
    /\ http' = [http EXCEPT !.abortedIn = {[phase |-> http.phase, status |-> http.status]}, !.sentByAbort = http.sent]

TransportNext ==
    \/ fetch \/ Reject \/ Read \/ Refused \/ Wake \/ Abort
    \/ \E status \in Statuses : Respond(status)

-----------------------------------------------------------------------------
(* A call that its caller cut off sends nothing more, and tells of an      *)
(* abort, which screens do not show, unless a refusal was being read.      *)
(* Nobody sends more requests than the retries allow, and whoever was not  *)
(* cut off is told of a passing failure only after all of them (getJSON).  *)
AbortIsQuiet ==
    /\ \A a \in http.abortedIn :
           /\ http.sent = http.sentByAbort
           /\ http.result \subseteq {"AbortError"} \/ (a.phase = "reading" /\ a.status # 200)
    /\ http.sent <= MAX_RETRY + 1
    /\ http.result = {"error"} /\ ~aborted /\ Passing(http.status) => http.sent = MAX_RETRY + 1

(* "Only 5xx and 429 are retried as passing failures, a 4xx of the client  *)
(* is thrown at once" (client.ts:114): nobody waits for another attempt    *)
(* after a refusal of that kind.  It is thrown inside the try whose catch  *)
(* retries (client.ts:119-130).                                            *)
ClientErrorIsFinal == http.phase = "backoff" => Passing(http.status)
=============================================================================
