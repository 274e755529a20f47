-------------------------- MODULE RateLimitProofs --------------------------
(***************************************************************************)
(* Proofs about RateLimit for any keys, rate, capacity and idle time, as   *)
(* long as an idle bucket is a full one (IdleRefills).                     *)
(*                                                                         *)
(* What a key has at hand, held(k), is what the argument is about: a tick  *)
(* refills it, a request takes a token from it or leaves it alone, and an  *)
(* eviction does not change it.                                            *)
(***************************************************************************)
EXTENDS RateLimit, TLAPS

\* A bucket admitted last when its key was seen or before, which is not long
\* ago.
Recent(k) ==
  keys[k] # Absent =>
    /\ keys[k].last <= keys[k].lastSeen /\ keys[k].lastSeen <= now
    /\ now - keys[k].lastSeen <= IdleTTL + sinceRun

\* What was admitted since a tick and what is left never exceed what there was
\* and what flowed in.
Balanced(k) ==
  \A s \in 0 .. now :
    Token * (total[k] - before[k][s]) + held(k) <= Full + Rate * (now - s)

LInv == TypeOK /\ \A k \in Keys : Recent(k) /\ Balanced(k)

-----------------------------------------------------------------------------
\* A product of naturals is a natural, and grows with its second factor.
LEMMA Products ==
  ASSUME NEW r \in Nat, NEW m \in Nat, NEW n \in Nat
  PROVE  /\ r * m \in Nat
         /\ m <= n => r * m <= r * n
<1>1. r * m \in Nat
  OBVIOUS
<1>2. ASSUME m <= n PROVE r * m <= r * n
  <2>1. n - m \in Nat /\ r * (n - m) >= 0
    BY <1>2
  <2>2. r * n = r * m + r * (n - m)
    BY <1>2
  <2> QED
    BY <1>1, <2>1, <2>2
<1> QED
  BY <1>1, <1>2

\* One more second, one more refill.
LEMMA OneMore ==
  ASSUME NEW r \in Nat, NEW n \in Int
  PROVE  r * (n + 1) = r * n + r
OBVIOUS

\* The capacity is a natural, and a token fits.
LEMMA FullType == Full \in Nat /\ Token \in Nat \ {0} /\ Token <= Full
<1>1. Token \in Nat \ {0} /\ Burst \in Nat \ {0}
  BY LimitAssumption
<1>2. Token * 1 <= Token * Burst /\ Token * Burst \in Nat
  BY <1>1, Products
<1> QED
  BY <1>1, <1>2 DEF Full

\* What a bucket holds at a later moment is between nothing and its capacity.
LEMMA AdvancedType ==
  ASSUME now \in Nat, NEW e \in Entry, e.last <= now
  PROVE  /\ advanced(e) \in 0 .. Full
         /\ e.tokens + Rate * (now - e.last) \in Nat
<1>1. Rate \in Nat /\ e.tokens \in 0 .. Full /\ now - e.last \in Nat
  BY LimitAssumption DEF Entry
<1>2. Rate * (now - e.last) \in Nat
  BY <1>1, Products
<1> QED
  BY <1>1, <1>2, FullType DEF advanced, Capped

\* What a key has at hand is a level of a bucket.
LEMMA HeldType ==
  ASSUME LInv, NEW k \in Keys
  PROVE  held(k) \in 0 .. Full
<1>1. CASE keys[k] = Absent
  BY <1>1, FullType DEF held
<1>2. CASE keys[k] # Absent
  <2>1. keys[k] \in Entry /\ now \in Nat /\ keys[k].last <= now
    BY <1>2 DEF LInv, TypeOK, Recent, Entry
  <2> QED
    BY <1>2, <2>1, AdvancedType DEF held
<1> QED
  BY <1>1, <1>2

\* The bucket a request gets holds what its key has at hand.
LEMMA GetType ==
  ASSUME LInv, NEW k \in Keys
  PROVE  /\ get(k) \in Entry /\ get(k) # Absent
         /\ get(k).last <= now /\ get(k).lastSeen = now
         /\ advanced(get(k)) = held(k)
<1>1. now \in Nat /\ keys[k] \in Entry \cup {Absent} /\ Rate \in Nat
  BY LimitAssumption DEF LInv, TypeOK
<1>2. CASE keys[k] = Absent
  <2>1. get(k) = [tokens |-> Full, last |-> now, lastSeen |-> now]
    BY <1>2 DEF get
  <2>2. get(k) \in Entry
    BY <1>1, <2>1, FullType DEF Entry
  <2>3. advanced(get(k)) = Full
    BY <1>1, <2>1, FullType DEF advanced, Capped
  <2> QED
    BY <1>1, <1>2, <2>1, <2>2, <2>3, AbsentIsNoEntry DEF held
<1>3. CASE keys[k] # Absent
  <2>1. keys[k] \in Entry /\ keys[k].last <= now
    BY <1>1, <1>3 DEF LInv, Recent, Entry
  <2>2. get(k) = [keys[k] EXCEPT !.lastSeen = now]
    BY <1>3 DEF get
  <2>3. /\ get(k) \in Entry /\ get(k).lastSeen = now
        /\ get(k).tokens = keys[k].tokens /\ get(k).last = keys[k].last
    BY <1>1, <2>1, <2>2 DEF Entry
  <2>4. advanced(get(k)) = held(k)
    BY <1>3, <2>3 DEF advanced, held
  <2> QED
    BY <2>1, <2>3, <2>4, AbsentIsNoEntry
<1> QED
  BY <1>2, <1>3

\* Allow takes a token from a bucket that has one and leaves the others alone.
LEMMA ChargedType ==
  ASSUME now \in Nat, NEW e \in Entry, e.last <= now
  PROVE  /\ charged(e) \in Entry
         /\ charged(e).last <= now /\ charged(e).lastSeen = e.lastSeen
         /\ advanced(charged(e)) =
              IF advanced(e) >= Token THEN advanced(e) - Token ELSE advanced(e)
<1>1. advanced(e) \in 0 .. Full /\ Rate \in Nat
  BY AdvancedType, LimitAssumption
<1>2. CASE advanced(e) >= Token
  <2>1. /\ charged(e) \in Entry
        /\ charged(e).tokens = advanced(e) - Token
        /\ charged(e).last = now /\ charged(e).lastSeen = e.lastSeen
    <3>1. advanced(e) - Token \in 0 .. Full /\ e.lastSeen \in Nat
      BY <1>1, <1>2, FullType DEF Entry
    <3>2. charged(e) = [tokens |-> advanced(e) - Token, last |-> now,
                        lastSeen |-> e.lastSeen]
      BY <1>2 DEF charged
    <3> QED
      BY <3>1, <3>2 DEF Entry
  <2>2. advanced(charged(e)) = Capped(advanced(e) - Token + Rate * (now - now))
    BY <2>1 DEF advanced
  <2>3. advanced(charged(e)) = advanced(e) - Token
    BY <1>1, <1>2, <2>2, FullType DEF Capped
  <2> QED
    BY <1>2, <2>1, <2>3
<1>3. CASE ~(advanced(e) >= Token)
  BY <1>3 DEF charged
<1> QED
  BY <1>2, <1>3

\* Serving a request changes only what its key has at hand.
LEMMA ServeHeld ==
  ASSUME LInv, NEW k \in Keys, Serve(k)
  PROVE  /\ keys' \in [Keys -> Entry \cup {Absent}]
         /\ keys'[k] \in Entry /\ keys'[k] # Absent
         /\ keys'[k].last <= now /\ keys'[k].lastSeen = now
         /\ held(k)' = IF held(k) >= Token THEN held(k) - Token ELSE held(k)
         /\ \A j \in Keys \ {k} : keys'[j] = keys[j] /\ held(j)' = held(j)
<1>1. /\ get(k) \in Entry /\ get(k).last <= now /\ get(k).lastSeen = now
      /\ advanced(get(k)) = held(k) /\ now \in Nat
      /\ keys \in [Keys -> Entry \cup {Absent}]
  BY GetType DEF LInv, TypeOK
<1>2. /\ charged(get(k)) \in Entry /\ charged(get(k)) # Absent
      /\ charged(get(k)).last <= now /\ charged(get(k)).lastSeen = now
      /\ advanced(charged(get(k))) =
           IF held(k) >= Token THEN held(k) - Token ELSE held(k)
  BY <1>1, ChargedType, AbsentIsNoEntry
<1>3. keys' = [keys EXCEPT ![k] = charged(get(k))] /\ now' = now
  BY DEF Serve
<1>4. keys'[k] = charged(get(k)) /\ \A j \in Keys \ {k} : keys'[j] = keys[j]
  BY <1>1, <1>3
<1>5. held(k)' = advanced(charged(get(k)))
  BY <1>2, <1>3, <1>4 DEF held, advanced, Capped, Full
<1>6. \A j \in Keys \ {k} : held(j)' = held(j)
  BY <1>3, <1>4 DEF held, advanced, Capped, Full
<1> QED
  BY <1>1, <1>2, <1>3, <1>4, <1>5, <1>6

\* An eviction takes nothing from anybody: who idles that long has a full
\* bucket.
LEMMA EvictHeld ==
  ASSUME LInv, evictIdle, NEW k \in Keys
  PROVE  held(k)' = held(k)
<1>1. /\ now' = now /\ now \in Nat
      /\ keys'[k] = IF Idle(k) THEN Absent ELSE keys[k]
  BY DEF evictIdle, LInv, TypeOK
<1>2. CASE ~Idle(k)
  BY <1>1, <1>2 DEF held, advanced, Capped, Full
<1>3. CASE Idle(k)
  <2> DEFINE e == keys[k]
  <2>1. /\ e \in Entry /\ e # Absent /\ e.tokens \in Nat
        /\ e.last \in Nat /\ e.lastSeen \in Nat
        /\ e.last <= e.lastSeen /\ e.lastSeen <= now
        /\ now - e.lastSeen > IdleTTL
    BY <1>3, FullType DEF Idle, LInv, TypeOK, Recent, Entry
  <2>2. IdleTTL \in Nat /\ now - e.last \in Nat /\ IdleTTL <= now - e.last
        /\ Rate \in Nat
    BY <1>1, <2>1, LimitAssumption
  <2>3. Rate * IdleTTL <= Rate * (now - e.last)
    BY <2>2, Products
  <2>4. Rate * IdleTTL >= Full
    BY IdleRefills DEF Full
  <2>5. Rate * IdleTTL \in Nat /\ Rate * (now - e.last) \in Nat
    BY <2>2, Products
  <2>6. e.tokens + Rate * (now - e.last) >= Full
    BY <2>1, <2>3, <2>4, <2>5, FullType
  <2>7. advanced(e) = Full
    BY <2>1, <2>5, <2>6, FullType DEF advanced, Capped
  <2>8. held(k) = Full
    BY <2>1, <2>7 DEF held
  <2>9. held(k)' = Full
    BY <1>1, <1>3 DEF held, Full
  <2> QED
    BY <2>8, <2>9
<1> QED
  BY <1>2, <1>3

\* A tick refills.
LEMMA TickHeld ==
  ASSUME LInv, Tick, NEW k \in Keys
  PROVE  held(k)' = Capped(held(k) + Rate)
<1>1. keys' = keys /\ now' = now + 1 /\ now \in Nat /\ Rate \in Nat
  BY LimitAssumption DEF Tick, LInv, TypeOK
<1>2. CASE keys[k] = Absent
  BY <1>1, <1>2, FullType DEF held, Capped, Full
<1>3. CASE keys[k] # Absent
  <2> DEFINE e == keys[k]
             x == e.tokens + Rate * (now - e.last)
  <2>1. e \in Entry /\ e.last <= now /\ e.last \in Nat /\ e.tokens \in Nat
    BY <1>1, <1>3, FullType DEF LInv, TypeOK, Recent, Entry
  <2>2. x \in Nat
    BY <1>1, <2>1, AdvancedType
  <2>3. e.tokens + Rate * ((now + 1) - e.last) = x + Rate
    <3>1. (now + 1) - e.last = (now - e.last) + 1 /\ now - e.last \in Int
      BY <1>1, <2>1
    <3>2. Rate * ((now + 1) - e.last) = Rate * (now - e.last) + Rate
      BY <1>1, <3>1, OneMore
    <3>3. Rate * (now - e.last) \in Int
      BY <1>1, <3>1
    <3> QED
      BY <1>1, <2>1, <3>2, <3>3
  <2>4. held(k) = Capped(x)
    BY <1>3 DEF held, advanced
  <2>5. held(k)' = Capped(x + Rate)
    BY <1>1, <1>3, <2>3 DEF held, advanced, Capped, Full
  <2> HIDE DEF x
  <2> QED
    BY <1>1, <2>2, <2>4, <2>5, FullType DEF Capped
<1> QED
  BY <1>2, <1>3
-----------------------------------------------------------------------------
\* An empty map satisfies the invariant.
LEMMA InitInvariant == Init => LInv
<1> SUFFICES ASSUME Init PROVE LInv
  OBVIOUS
<1>1. TypeOK
  <2>1. now \in 0 .. MaxTime /\ sinceRun \in 0 .. Interval
    BY LimitAssumption DEF Init
  <2>2. keys \in [Keys -> Entry \cup {Absent}]
    BY DEF Init
  <2>3. total \in [Keys -> Nat] /\ before \in [Keys -> [0 .. MaxTime -> Nat]]
    BY DEF Init
  <2> QED
    BY <2>1, <2>2, <2>3 DEF Init, TypeOK
<1>2. ASSUME NEW k \in Keys PROVE Recent(k) /\ Balanced(k)
  <2>1. Recent(k) /\ held(k) = Full
    BY DEF Init, Recent, held
  <2>2. ASSUME NEW s \in 0 .. now
        PROVE  Token * (total[k] - before[k][s]) + held(k)
                 <= Full + Rate * (now - s)
    <3>1. s = 0 /\ now = 0 /\ total[k] = 0 /\ before[k][s] = 0
      BY LimitAssumption DEF Init
    <3>2. Token * (0 - 0) = 0 /\ Rate * (0 - 0) = 0
      BY LimitAssumption
    <3> QED
      BY <2>1, <3>1, <3>2, FullType
  <2> QED
    BY <2>1, <2>2 DEF Balanced
<1> QED
  BY <1>1, <1>2 DEF LInv

\* A request keeps the books balanced: it is counted when it pays.
LEMMA ServeInvariant ==
  ASSUME LInv, NEW k \in Keys, Serve(k)
  PROVE  LInv'
<1> USE DEF LInv
<1>1. /\ now' = now /\ sinceRun' = sinceRun /\ before' = before
      /\ answer' = [key |-> k, ok |-> advanced(get(k)) >= Token]
      /\ refused' \subseteq Keys
      /\ total' = [total EXCEPT ![k] = IF advanced(get(k)) >= Token
                                       THEN @ + 1 ELSE @]
  BY DEF Serve, TypeOK
<1>2. advanced(get(k)) = held(k)
  BY GetType
<1>t. /\ now \in Nat /\ total \in [Keys -> Nat] /\ sinceRun \in Nat
      /\ before \in [Keys -> [0 .. MaxTime -> Nat]] /\ now \in 0 .. MaxTime
      /\ Rate \in Nat /\ IdleTTL \in Nat /\ Token \in Nat
  BY LimitAssumption DEF TypeOK
<1>3. TypeOK'
  <2>1. total' \in [Keys -> Nat]
    BY <1>1, <1>t
  <2>2. answer' \in [key : Keys, ok : BOOLEAN]
    BY <1>1
  <2>3. keys' \in [Keys -> Entry \cup {Absent}]
    BY ServeHeld
  <2> QED
    BY <1>1, <2>1, <2>2, <2>3 DEF TypeOK, Entry, Full, NoAnswer
<1>4. ASSUME NEW j \in Keys PROVE Recent(j)'
  <2>1. CASE j = k
    BY <1>1, <1>t, <2>1, ServeHeld DEF Recent
  <2>2. CASE j # k
    BY <1>1, <2>2, ServeHeld DEF Recent
  <2> QED
    BY <2>1, <2>2
<1>5. ASSUME NEW j \in Keys, NEW s \in 0 .. now
      PROVE  Token * (total'[j] - before'[j][s]) + held(j)'
               <= Full + Rate * (now - s)
  <2>0. Token * (total[j] - before[j][s]) + held(j) <= Full + Rate * (now - s)
    BY DEF Balanced
  <2>1. CASE j = k /\ held(k) >= Token
    <3>1. total'[j] = total[j] + 1 /\ held(j)' = held(j) - Token
      BY <1>1, <1>2, <1>t, <2>1, ServeHeld
    <3>2. before[j][s] \in Nat /\ total[j] \in Nat
      <4>1. s \in 0 .. MaxTime /\ before[j] \in [0 .. MaxTime -> Nat]
        BY <1>t, LimitAssumption
      <4> QED
        BY <4>1, <1>t
    <3> DEFINE n == total[j] - before[j][s]
    <3>3. n \in Int /\ total'[j] - before'[j][s] = n + 1
      BY <1>1, <3>1, <3>2
    <3>4. Token * (n + 1) = Token * n + Token
      BY <1>t, <3>3, OneMore
    <3>5. Token * n \in Int /\ held(j) \in Int
      BY <1>t, <3>3, HeldType
    <3> QED
      BY <1>t, <2>0, <3>1, <3>3, <3>4, <3>5
  <2>2. CASE ~(j = k /\ held(k) >= Token)
    <3>1. total'[j] = total[j] /\ held(j)' = held(j)
      BY <1>1, <1>2, <1>t, <2>2, ServeHeld
    <3> QED
      BY <1>1, <2>0, <3>1
  <2> QED
    BY <2>1, <2>2
<1>6. ASSUME NEW j \in Keys PROVE Balanced(j)'
  BY <1>1, <1>5 DEF Balanced, Full
<1> QED
  BY <1>3, <1>4, <1>6

\* An eviction keeps them balanced, since it changes nothing that counts.
LEMMA EvictInvariant ==
  ASSUME LInv, evictIdle
  PROVE  LInv'
<1> USE DEF LInv
<1>1. /\ now' = now /\ sinceRun' = 0 /\ before' = before /\ total' = total
      /\ answer' = answer /\ refused' = refused
      /\ keys' = [k \in Keys |-> IF Idle(k) THEN Absent ELSE keys[k]]
  BY DEF evictIdle
<1>2. TypeOK'
  <2>1. keys' \in [Keys -> Entry \cup {Absent}]
    BY <1>1 DEF TypeOK
  <2>2. sinceRun' \in 0 .. Interval
    BY <1>1, LimitAssumption
  <2> QED
    BY <1>1, <2>1, <2>2 DEF TypeOK, Entry, Full, NoAnswer
<1>3. ASSUME NEW k \in Keys PROVE Recent(k)'
  BY <1>1, LimitAssumption DEF Recent, Idle, TypeOK, Entry
<1>4. ASSUME NEW k \in Keys PROVE Balanced(k)'
  BY <1>1, EvictHeld DEF Balanced, Full
<1> QED
  BY <1>2, <1>3, <1>4

\* A tick keeps them balanced: what flows in is allowed for.
LEMMA TickInvariant ==
  ASSUME LInv, Tick
  PROVE  LInv'
<1> USE DEF LInv
<1>1. /\ now' = now + 1 /\ sinceRun' = sinceRun + 1 /\ keys' = keys
      /\ answer' = answer /\ refused' = refused /\ total' = total
      /\ before' = [k \in Keys |-> [before[k] EXCEPT ![now + 1] = total[k]]]
      /\ now < MaxTime /\ sinceRun < Interval
  BY DEF Tick
<1>t. /\ now \in Nat /\ now + 1 \in 0 .. MaxTime /\ total \in [Keys -> Nat]
      /\ before \in [Keys -> [0 .. MaxTime -> Nat]] /\ sinceRun \in Nat
      /\ Rate \in Nat /\ Token \in Nat /\ MaxTime \in Nat /\ Interval \in Nat
      /\ IdleTTL \in Nat
  BY <1>1, LimitAssumption DEF TypeOK
<1>2. TypeOK'
  <2>1. before' \in [Keys -> [0 .. MaxTime -> Nat]]
    BY <1>1, <1>t
  <2>2. now' \in 0 .. MaxTime /\ sinceRun' \in 0 .. Interval
    BY <1>1, <1>t
  <2> QED
    BY <1>1, <2>1, <2>2 DEF TypeOK, Entry, Full, NoAnswer
<1>3. ASSUME NEW k \in Keys PROVE Recent(k)'
  BY <1>1, <1>t DEF Recent, TypeOK, Entry
<1>4. ASSUME NEW k \in Keys, NEW s \in 0 .. now + 1
      PROVE  Token * (total'[k] - before'[k][s]) + held(k)'
               <= Full + Rate * ((now + 1) - s)
  <2>h. /\ held(k)' = Capped(held(k) + Rate) /\ held(k) \in 0 .. Full
        /\ Full \in Nat
    BY TickHeld, HeldType, FullType
  <2>1. CASE s = now + 1
    <3>1. before'[k][s] = total'[k] /\ total'[k] \in Nat
      BY <1>1, <1>t, <2>1
    <3>2. Token * (total'[k] - before'[k][s]) = 0 /\ Rate * ((now + 1) - s) = 0
      BY <1>t, <2>1, <3>1
    <3>3. held(k)' <= Full /\ held(k)' \in Int
      BY <1>t, <2>h DEF Capped
    <3> QED
      BY <2>h, <3>2, <3>3
  <2>2. CASE s # now + 1
    <3>1. s \in 0 .. now
      BY <1>t, <2>2
    <3>2. /\ before'[k][s] = before[k][s] /\ total'[k] = total[k]
          /\ before[k][s] \in Nat /\ total[k] \in Nat
      BY <1>1, <1>t, <2>2, <3>1
    <3>3. Token * (total[k] - before[k][s]) + held(k) <= Full + Rate * (now - s)
      BY <3>1 DEF Balanced
    <3>4. (now + 1) - s = (now - s) + 1 /\ now - s \in Int
      BY <1>t, <3>1
    <3>5. Rate * ((now + 1) - s) = Rate * (now - s) + Rate
      BY <1>t, <3>4, OneMore
    <3>6. Token * (total[k] - before[k][s]) \in Int /\ Rate * (now - s) \in Int
      BY <1>t, <3>2, <3>4
    <3>7. held(k)' <= held(k) + Rate /\ held(k)' \in Int /\ held(k) \in Int
      BY <1>t, <2>h DEF Capped
    <3> QED
      BY <1>t, <2>h, <3>2, <3>3, <3>5, <3>6, <3>7
  <2> QED
    BY <2>1, <2>2
<1>5. ASSUME NEW k \in Keys PROVE Balanced(k)'
  BY <1>1, <1>4 DEF Balanced, Full
<1> QED
  BY <1>2, <1>3, <1>5

\* Every step keeps the invariant.
LEMMA NextInvariant == LInv /\ [Next]_vars => LInv'
<1> SUFFICES ASSUME LInv, [Next]_vars PROVE LInv'
  OBVIOUS
<1>1. ASSUME NEW k \in Keys, Serve(k) PROVE LInv'
  BY <1>1, ServeInvariant
<1>2. CASE evictIdle
  BY <1>2, EvictInvariant
<1>3. CASE Tick
  BY <1>3, TickInvariant
<1>4. CASE UNCHANGED vars
  BY <1>4 DEF vars, LInv, TypeOK, Recent, Balanced, held, advanced, Capped,
    Full, Entry, NoAnswer
<1> QED
  BY <1>1, <1>2, <1>3, <1>4 DEF Next

\* The invariant holds in every reachable state.
LEMMA AlwaysBalanced == Spec => []LInv
<1> QED
  BY InitInvariant, NextInvariant, PTL DEF Spec

-----------------------------------------------------------------------------
\* The limiter keeps its types: no bucket holds less than nothing or more than
\* its capacity, whatever is evicted in between.
THEOREM TypeCorrect == Spec => []TypeOK
<1>1. LInv => TypeOK
  BY DEF LInv
<1> QED
  BY <1>1, AlwaysBalanced, PTL

\* From any second to now, no key was admitted more often than a full bucket and
\* the refill allow, although evictions hand out full buckets.
THEOREM TheLimitHolds == Spec => []RateHolds
<1>1. ASSUME LInv PROVE RateHolds
  <2> SUFFICES ASSUME NEW k \in Keys, NEW s \in 0 .. now
               PROVE  Token * (total[k] - before[k][s]) <= Full + Rate * (now - s)
    BY DEF RateHolds
  <2>1. Token * (total[k] - before[k][s]) + held(k) <= Full + Rate * (now - s)
    BY <1>1 DEF LInv, Balanced
  <2>2. held(k) \in Nat /\ Full \in Nat
    BY <1>1, HeldType, FullType
  <2>3. /\ total[k] \in Nat /\ before[k][s] \in Nat /\ now - s \in Int
        /\ Token \in Nat /\ Rate \in Nat
    BY <1>1, LimitAssumption DEF LInv, TypeOK
  <2>4. Token * (total[k] - before[k][s]) \in Int /\ Rate * (now - s) \in Int
    BY <2>3
  <2> QED
    BY <2>1, <2>2, <2>4
<1> QED
  BY <1>1, AlwaysBalanced, PTL

\* A key that is not seen any more leaves the map within IdleTTL and one round
\* of the ticker of cleanupLoop.
THEOREM IdleKeysLeave == Spec => []IdleIsEvicted
<1>1. ASSUME LInv PROVE IdleIsEvicted
  BY <1>1, LimitAssumption DEF LInv, TypeOK, Recent, IdleIsEvicted, Entry
<1> QED
  BY <1>1, AlwaysBalanced, PTL

-----------------------------------------------------------------------------
\* The refinement: every step is one of buckets that are never evicted.
LEMMA InitRefines == Init => Buckets!Init
<1> SUFFICES ASSUME Init PROVE Buckets!Init
  OBVIOUS
<1>1. \A k \in Keys : held(k) = Full
  BY DEF Init, held
<1> QED
  BY <1>1 DEF Init, Buckets!Init, Buckets!Full, Full, NoAnswer, Buckets!NoAnswer

\* A request is answered alike, an eviction is not noticed, a tick refills.
LEMMA NextRefines == LInv /\ [Next]_vars => [Buckets!Next]_(Buckets!bucketVars)
<1> DEFINE lvl == [k \in Keys |-> held(k)]
<1> SUFFICES ASSUME LInv, [Next]_vars
             PROVE  Buckets!Next \/ UNCHANGED Buckets!bucketVars
  OBVIOUS
<1>1. ASSUME NEW k \in Keys, Serve(k) PROVE Buckets!Next
  <2>1. answer' = [key |-> k, ok |-> held(k) >= Token]
    BY <1>1, GetType DEF Serve
  <2>2. lvl' = [lvl EXCEPT ![k] = IF held(k) >= Token THEN held(k) - Token
                                  ELSE held(k)]
    BY <1>1, ServeHeld
  <2>3. held(k) \in Int /\ Token \in Int
    BY HeldType, FullType
  <2>4. CASE held(k) >= Token
    <3>1. answer' = Buckets!Verdict(k, TRUE)
      BY <2>1, <2>4 DEF Buckets!Verdict
    <3>2. lvl' = [lvl EXCEPT ![k] = @ - Token]
      BY <2>2, <2>4
    <3> QED
      BY <2>4, <3>1, <3>2 DEF Buckets!Next, Buckets!Answer
  <2>5. CASE held(k) < Token
    <3>1. ~(held(k) >= Token)
      BY <2>3, <2>5
    <3>2. (held(k) >= Token) = FALSE
      BY <3>1
    <3>3. answer' = Buckets!Verdict(k, FALSE)
      BY <2>1, <3>2, Zenon DEF Buckets!Verdict
    <3>4. lvl' = lvl
      BY <2>2, <3>1
    <3> QED
      BY <2>5, <3>3, <3>4 DEF Buckets!Next, Buckets!Answer
  <2> QED
    BY <2>3, <2>4, <2>5
<1>2. CASE evictIdle
  <2>1. lvl' = lvl /\ answer' = answer
    BY <1>2, EvictHeld DEF evictIdle
  <2> QED
    BY <2>1 DEF Buckets!bucketVars
<1>3. CASE Tick
  <2>1. lvl' = [k \in Keys |-> Capped(held(k) + Rate)] /\ answer' = answer
    BY <1>3, TickHeld DEF Tick
  <2> QED
    BY <2>1 DEF Buckets!Next, Buckets!Refill, Buckets!Capped, Buckets!Full,
      Capped, Full
<1>4. CASE UNCHANGED vars
  BY <1>4 DEF vars, Buckets!bucketVars, held, advanced, Capped, Full
<1> QED
  BY <1>1, <1>2, <1>3, <1>4 DEF Next

\* No client can tell that buckets are evicted: every request is answered as it
\* would be if they were not.
THEOREM EvictionIsInvisible == Spec => NeverEvicted
<1> QED
  BY InitRefines, NextRefines, AlwaysBalanced, PTL
    DEF Spec, NeverEvicted, Buckets!Spec

-----------------------------------------------------------------------------
(* Retry-After.  The code adds 0.999 to the seconds a token takes and cuts *)
(* the rest off: that rounds up, unless what is left over after whole      *)
(* seconds is less than a thousandth.  A rate of once a second or more is  *)
(* none of these.                                                          *)

RoundsUp == \/ Token <= Rate \/ Token % Rate = 0
            \/ 1000 * (Token % Rate) >= Rate

\* A quotient is at least what its divisor fits in.
LEMMA Quotient ==
  ASSUME NEW n \in Nat, NEW d \in Nat \ {0}, NEW c \in Nat, d * c <= n
  PROVE  n \div d \in Nat /\ c <= n \div d
<1> DEFINE q == n \div d
           m == n % d
<1>1. q \in Nat /\ m \in 0 .. d - 1 /\ n = d * q + m
  OBVIOUS
<1> HIDE DEF q, m
<1>2. ASSUME q < c PROVE FALSE
  <2>1. q + 1 \in Nat /\ q + 1 <= c /\ d \in Nat
    BY <1>1, <1>2
  <2>2. d * (q + 1) <= d * c
    BY <2>1, Products
  <2>3. d * (q + 1) = d * q + d
    BY <1>1, OneMore
  <2>4. d * q \in Nat /\ d * c \in Nat
    BY <1>1, <2>1, Products
  <2> QED
    BY <1>1, <2>2, <2>3, <2>4
<1> QED
  BY <1>1, <1>2 DEF q

\* In the time that is told, a token flows in.
LEMMA WaitSuffices ==
  ASSUME RoundsUp
  PROVE  retryAfter \in Nat /\ Token <= Rate * retryAfter
<1> DEFINE secs == (1000 * Token + 999 * Rate) \div (1000 * Rate)
           q == Token \div Rate
           m == Token % Rate
<1>1. Token \in Nat /\ Rate \in Nat \ {0} /\ 1000 * Rate \in Nat \ {0}
      /\ 1000 * Token + 999 * Rate \in Nat
  BY LimitAssumption
<1>2. q \in Nat /\ m \in 0 .. Rate - 1 /\ Token = Rate * q + m
  BY <1>1
<1>3. \A c \in Nat : 1000 * Rate * c <= 1000 * Token + 999 * Rate
        => secs \in Nat /\ c <= secs
  BY <1>1, Quotient
<1>4. secs \in Nat
  BY <1>1, <1>3
<1>5. retryAfter = IF secs > 1 THEN secs ELSE 1
  BY DEF retryAfter
<1> HIDE DEF secs
<1>6. retryAfter \in Nat /\ 1 <= retryAfter /\ secs <= retryAfter
  BY <1>4, <1>5
<1>7. CASE Token <= Rate
  <2>1. Rate * 1 <= Rate * retryAfter
    BY <1>1, <1>6, Products
  <2> QED
    BY <1>1, <1>6, <1>7, <2>1
<1>8. ASSUME NEW c \in Nat, Token <= Rate * c, 1000 * (Rate * c) <= 1000 * Token + 999 * Rate
      PROVE  Token <= Rate * retryAfter
  <2>1. 1000 * Rate * c = 1000 * (Rate * c)
    BY <1>1
  <2>2. c <= secs
    BY <1>3, <1>8, <2>1
  <2>3. c <= retryAfter
    BY <1>4, <1>6, <2>2
  <2>4. Rate * c <= Rate * retryAfter /\ Rate * c \in Nat /\ Rate * retryAfter \in Nat
    BY <1>1, <1>6, <2>3, Products
  <2> QED
    BY <1>1, <1>8, <2>4
<1> HIDE DEF q, m
<1>9. CASE m = 0
  <2>1. Token = Rate * q
    BY <1>1, <1>2, <1>9
  <2> QED
    BY <1>1, <1>2, <1>6, <1>8, <2>1
<1>10. CASE 1000 * m >= Rate
  <2>1. Rate * (q + 1) = Rate * q + Rate /\ Rate * q \in Nat /\ q + 1 \in Nat
    BY <1>1, <1>2, OneMore, Products
  <2>2. Token <= Rate * (q + 1)
    BY <1>1, <1>2, <2>1
  <2>3. 1000 * (Rate * (q + 1)) <= 1000 * Token + 999 * Rate
    BY <1>1, <1>2, <1>10, <2>1
  <2> QED
    BY <1>6, <1>8, <2>1, <2>2, <2>3
<1> QED
  BY <1>7, <1>9, <1>10 DEF RoundsUp, m

\* Who stays away that long has a token at hand: what flows in is counted from
\* the last admission, which is no later than the last request.
LEMMA AwayIsServed ==
  ASSUME RoundsUp, LInv, NEW k \in Keys,
         keys[k] # Absent => now - keys[k].lastSeen >= retryAfter
  PROVE  held(k) >= Token
<1>1. CASE keys[k] = Absent
  BY <1>1, FullType DEF held
<1>2. CASE keys[k] # Absent
  <2> DEFINE e == keys[k]
             age == now - e.last
  <2>1. e \in Entry /\ e.last <= e.lastSeen /\ e.lastSeen <= now /\ now \in Nat
    BY <1>2 DEF LInv, TypeOK, Recent
  <2>2. e.tokens \in Nat /\ e.last \in Nat /\ e.lastSeen \in Nat
    BY <2>1, FullType DEF Entry
  <2>3. retryAfter \in Nat /\ Token <= Rate * retryAfter
    BY WaitSuffices
  <2>4. age \in Nat /\ retryAfter <= age
    BY <1>2, <2>1, <2>2, <2>3
  <2>5. held(k) = Capped(e.tokens + Rate * age)
    BY <1>2 DEF held, advanced
  <2> HIDE DEF e, age
  <2>6. Rate \in Nat /\ Token \in Nat
    BY LimitAssumption
  <2>7. Rate * retryAfter <= Rate * age /\ Rate * age \in Nat /\ Rate * retryAfter \in Nat
    BY <2>3, <2>4, <2>6, Products
  <2>8. Token <= e.tokens + Rate * age
    BY <2>2, <2>3, <2>6, <2>7
  <2> QED
    BY <2>5, <2>8, FullType DEF Capped
<1> QED
  BY <1>1, <1>2

\* A client that was refused and stays away for as long as Retry-After says is
\* admitted when it comes back, evicted or not (RateLimit, its header and its
\* buckets), unless the rate is one of those whose seconds are rounded down.
THEOREM RetriesAreServed == RoundsUp => (Spec => RetryIsServed)
<1> SUFFICES ASSUME RoundsUp PROVE Spec => RetryIsServed
  OBVIOUS
<1> DEFINE Served(k) ==
             keys'[k] \notin {keys[k], Absent}
             /\ (keys[k] # Absent => now - keys[k].lastSeen >= retryAfter)
               => k \notin refused'
<1>1. LInv /\ [Next]_vars => [\A k \in refused : Served(k)]_vars
  <2> SUFFICES ASSUME LInv, Next, NEW k \in refused,
                      keys'[k] \notin {keys[k], Absent},
                      keys[k] # Absent => now - keys[k].lastSeen >= retryAfter
               PROVE  k \notin refused'
    OBVIOUS
  <2>1. k \in Keys /\ keys \in [Keys -> Entry \cup {Absent}]
    BY DEF LInv, TypeOK
  <2>2. CASE Tick
    BY <2>2 DEF Tick
  <2>3. CASE evictIdle
    BY <2>1, <2>3 DEF evictIdle
  <2>4. ASSUME NEW j \in Keys, Serve(j) PROVE k \notin refused'
    <3>1. j = k
      BY <2>1, <2>4, ServeHeld
    <3>2. advanced(get(k)) = held(k)
      BY <2>1, GetType
    <3>3. held(k) >= Token
      BY <2>1, AwayIsServed
    <3> QED
      BY <2>4, <3>1, <3>2, <3>3 DEF Serve
  <2> QED
    BY <2>2, <2>3, <2>4 DEF Next
<1> QED
  BY <1>1, AlwaysBalanced, PTL DEF Spec, RetryIsServed
=============================================================================
