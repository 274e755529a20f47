---------------------------- MODULE TokenBuckets ----------------------------
(***************************************************************************)
(* What the rate limiter promises: every key has a bucket of its own, full *)
(* at first, refilled at a fixed rate up to its capacity and never thrown  *)
(* away; a request is admitted when its token is there.                    *)
(*                                                                         *)
(* Levels are counted in parts of a token, so that a refill is whole.      *)
(***************************************************************************)
EXTENDS Integers

CONSTANTS
  Keys,   \* what requests are told apart by
  Token,  \* parts of a token
  Burst,  \* tokens a bucket holds
  Rate    \* parts that flow in during one tick

VARIABLES
  level,
  answer  \* the request answered last: whose, and whether it was admitted

bucketVars == <<level, answer>>

Full     == Token * Burst
Capped(n) == IF n > Full THEN Full ELSE n

NoAnswer == [key |-> "", ok |-> FALSE]
Verdict(k, ok) == [key |-> k, ok |-> ok]

Answer(k) ==
  \/ /\ level[k] >= Token
     /\ level' = [level EXCEPT ![k] = @ - Token]
     /\ answer' = Verdict(k, TRUE)
  \/ /\ level[k] < Token
     /\ answer' = Verdict(k, FALSE)
     /\ UNCHANGED level

Refill ==
  /\ level' = [k \in Keys |-> Capped(level[k] + Rate)]
  /\ UNCHANGED answer

Init ==
  /\ level = [k \in Keys |-> Full]
  /\ answer = NoAnswer

Next == Refill \/ \E k \in Keys : Answer(k)

Spec == Init /\ [][Next]_bucketVars
=============================================================================
