----------------------------- MODULE RateLimit -----------------------------
(***************************************************************************)
(* The rate limiter of the API (backend/internal/httpx/ratelimit.go): one  *)
(* token bucket per key in a map, from which a ticker evicts the keys that *)
(* were not seen for IdleTTL.  A key is what rateKey makes of a request.   *)
(*                                                                         *)
(* The bucket is rate.Limiter of golang.org/x/time: it keeps the tokens it *)
(* had when it last admitted, and computes from the time what flowed in.   *)
(*                                                                         *)
(* A tick is a second; tokens are counted in parts.  get and Allow are two *)
(* critical sections of one request with nothing to wait for in between,   *)
(* and an eviction between them would need a key that idles for IdleTTL    *)
(* there: they are one step.  Left out: exempt paths and OPTIONS, which    *)
(* pass without looking at a bucket, and a limiter that is switched off.   *)
(***************************************************************************)
EXTENDS Integers

CONSTANTS
  Keys, Token, Burst, Rate,
  IdleTTL,   \* a key not seen for longer is evicted
  Interval,  \* distance of the evictions
  MaxTime,   \* bound: the clock stops here
  Absent     \* the map has no entry for the key

\* IdleRefills is what makes eviction invisible.  Nothing checks it when the
\* limits are read from the environment; the defaults refill in two seconds
\* what may idle for ten minutes.
ASSUME LimitAssumption ==
  /\ Token \in Nat \ {0} /\ Burst \in Nat \ {0} /\ Rate \in Nat \ {0}
  /\ IdleTTL \in Nat \ {0} /\ Interval \in Nat \ {0} /\ MaxTime \in Nat
ASSUME IdleRefills == Rate * IdleTTL >= Token * Burst

VARIABLES
  now,
  keys,     \* limiterStore.keys
  sinceRun, \* time since evictIdle ran
  answer,   \* the request answered last (history)
  refused,  \* keys whose last request was refused (history)
  total,    \* requests admitted (history)
  before    \* what total was when a tick began (history)

vars == <<now, keys, sinceRun, answer, refused, total, before>>

Full      == Token * Burst
Capped(n) == IF n > Full THEN Full ELSE n

Entry == [tokens : 0 .. Full, last : Nat, lastSeen : Nat]
ASSUME AbsentIsNoEntry == Absent \notin Entry

NoAnswer == [key |-> "", ok |-> FALSE]

TypeOK ==
  /\ now \in 0 .. MaxTime
  /\ keys \in [Keys -> Entry \cup {Absent}]
  /\ sinceRun \in 0 .. Interval
  /\ answer \in [key : Keys, ok : BOOLEAN] \cup {NoAnswer}
  /\ refused \subseteq Keys
  /\ total \in [Keys -> Nat] /\ before \in [Keys -> [0 .. MaxTime -> Nat]]

Init ==
  /\ now = 0 /\ sinceRun = 0
  /\ keys = [k \in Keys |-> Absent]
  /\ answer = NoAnswer /\ refused = {}
  /\ total = [k \in Keys |-> 0]
  /\ before = [k \in Keys |-> [t \in 0 .. MaxTime |-> 0]]

-----------------------------------------------------------------------------
\* A bucket that fills without a limit.
advanced_Uncapped(e) == e.tokens + Rate * (now - e.last)

\* rate.Limiter: what the bucket holds by now.
advanced(e) == Capped(e.tokens + Rate * (now - e.last))

\* limiterStore.get: a key that is not in the map gets a full bucket.
get(k) == IF keys[k] = Absent
          THEN [tokens |-> Full, last |-> now, lastSeen |-> now]
          ELSE [keys[k] EXCEPT !.lastSeen = now]

\* rate.Limiter.Allow: a refusal leaves the bucket as it is.
charged(e) ==
  IF advanced(e) >= Token
  THEN [tokens |-> advanced(e) - Token, last |-> now, lastSeen |-> e.lastSeen]
  ELSE e

Serve(k) ==
  LET e  == get(k)
      ok == advanced(e) >= Token
  IN /\ keys' = [keys EXCEPT ![k] = charged(e)]
     /\ answer' = [key |-> k, ok |-> ok]
     /\ refused' = IF ok THEN refused \ {k} ELSE refused \cup {k}
     /\ total' = [total EXCEPT ![k] = IF ok THEN @ + 1 ELSE @]
     /\ UNCHANGED <<now, sinceRun, before>>

\* Keys are idle once they are not seen for a tick.
Idle_AtOnce(k) == keys[k] # Absent /\ now - keys[k].lastSeen > 0

\* Keys stay until they idle for as long again as the ticker waits.
Idle_Late(k) == keys[k] # Absent /\ now - keys[k].lastSeen > IdleTTL + Interval

Idle(k) == keys[k] # Absent /\ now - keys[k].lastSeen > IdleTTL

evictIdle ==
  /\ sinceRun = Interval
  /\ sinceRun' = 0
  /\ keys' = [k \in Keys |-> IF Idle(k) THEN Absent ELSE keys[k]]
  /\ UNCHANGED <<now, answer, refused, total, before>>

\* cleanupLoop runs evictIdle when its ticker fires.
Tick ==
  /\ now < MaxTime /\ sinceRun < Interval
  /\ now' = now + 1 /\ sinceRun' = sinceRun + 1
  /\ before' = [k \in Keys |-> [before[k] EXCEPT ![now + 1] = total[k]]]
  /\ UNCHANGED <<keys, answer, refused, total>>

Next == Tick \/ evictIdle \/ \E k \in Keys : Serve(k)

Spec == Init /\ [][Next]_vars

-----------------------------------------------------------------------------
\* What a key has at hand: an evicted bucket counts as a full one.
held(k) == IF keys[k] = Absent THEN Full ELSE advanced(keys[k])

\* The limit holds over every span of time, across evictions: from any tick to
\* now a key was admitted no more often than a full bucket and the refill since
\* then allow.
RateHolds ==
  \A k \in Keys : \A s \in 0 .. now :
    Token * (total[k] - before[k][s]) <= Full + Rate * (now - s)

\* The map does not grow without bound: a key that is not seen any more leaves
\* it within IdleTTL and one round of the ticker.
IdleIsEvicted ==
  \A k \in Keys : keys[k] # Absent =>
    now - keys[k].lastSeen <= IdleTTL + Interval

\* The wait without the rounding up.
retryAfter_Floor == IF Token \div Rate > 1 THEN Token \div Rate ELSE 1

\* int(1/RPS + 0.999), at least 1: what the header Retry-After says.
retryAfter ==
  LET secs == (1000 * Token + 999 * Rate) \div (1000 * Rate)
  IN IF secs > 1 THEN secs ELSE 1

\* A client that was refused and stays away for Retry-After is admitted.
RetryIsServed ==
  [][\A k \in refused :
       keys'[k] \notin {keys[k], Absent}
       /\ (keys[k] # Absent => now - keys[k].lastSeen >= retryAfter)
         => k \notin refused']_vars

\* The limiter answers every request as buckets that are never evicted would.
Buckets == INSTANCE TokenBuckets WITH level <- [k \in Keys |-> held(k)]

NeverEvicted == Buckets!Spec
=============================================================================
