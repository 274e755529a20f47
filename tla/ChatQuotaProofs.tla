--------------------------- MODULE ChatQuotaProofs ---------------------------
(***************************************************************************)
(* What the quota of a key promises, for any number of keys, of concurrent *)
(* requests and of days, and any budgets and answers.                      *)
(***************************************************************************)
EXTENDS ChatQuota, AlertDispatchProofs, FiniteSetTheorems

-----------------------------------------------------------------------------
(* Days, callbacks and requests.                                           *)

\* Days follow the clock.
LEMMA DayGrows ==
  /\ \A t \in Nat : Day(t) \in Nat
  /\ \A s, t \in Nat : s <= t => Day(s) <= Day(t)
<1>1. DayLen \in Nat \ {0}
  BY QuotaAssumption
<1>2. ASSUME NEW t \in Nat
      PROVE  /\ Day(t) \in Nat
             /\ DayLen * Day(t) <= t /\ t < DayLen * (Day(t) + 1)
  BY <1>1 DEF Day
<1>3. ASSUME NEW s \in Nat, NEW t \in Nat, s <= t PROVE Day(s) <= Day(t)
  <2>1. ASSUME NEW a \in Nat, NEW b \in Nat, a > b
        PROVE  DayLen * a >= DayLen * (b + 1)
    BY <1>1, <2>1
  <2>2. CASE Day(s) > Day(t)
    <3>1. DayLen * Day(s) >= DayLen * (Day(t) + 1)
      BY <1>2, <2>1, <2>2
    <3>2. DayLen * Day(s) \in Int /\ DayLen * (Day(t) + 1) \in Int
      BY <1>1, <1>2
    <3>3. QED
      BY <1>2, <1>3, <3>1, <3>2
  <2>3. QED
    BY <1>2, <2>2
<1>4. QED
  BY <1>2, <1>3

\* The days that the clock of the model reaches.
LEMMA DayType == \A t \in 0 .. MaxTime : Day(t) \in Days
<1>1. MaxTime \in Nat
  BY QuotaAssumption
<1>2. QED
  BY <1>1, DayGrows DEF Days, Day

\* The levels are whole numbers.
LEMMA LevelType ==
  ASSUME limits \in [Keys -> Limits], NEW k \in Keys, NEW tpd \in Nat
  PROVE  thr(k, tpd) \in Nat /\ limits[k].tpd \in Nat /\ limits[k].rpm \in Nat
<1>1. limits[k].at \in Nat /\ limits[k].tpd \in Nat /\ limits[k].rpm \in Nat
  BY QuotaAssumption
<1>2. tpd * limits[k].at \in Nat
  BY <1>1
<1>3. QED
  BY <1>1, <1>2 DEF thr

\* Tokens are counted in whole numbers, and no answer takes more than MaxReply.
LEMMA TokensType ==
  /\ \A n \in Replies \cup {0} : n \in Nat /\ n <= MaxReply
  /\ MaxReply \in Nat
<1>1. Replies \subseteq Nat
  BY QuotaAssumption
<1>2. PICK most \in Replies : \A m \in Replies : m <= most
  BY QuotaAssumption
<1>3. MaxReply \in Replies /\ \A m \in Replies : m <= MaxReply
  BY <1>2 DEF MaxReply
<1>4. MaxReply \in Nat
  BY <1>1, <1>3
<1>5. \A n \in Replies \cup {0} : n \in Nat /\ n <= MaxReply
  BY <1>1, <1>3, <1>4
<1>6. QED
  BY <1>4, <1>5

\* What a callback of a kind is for.
Due(kind, k, tpd, day, prev, sum) ==
  /\ tpd > 0 /\ <<k, kind, day>> \notin crossed
  /\ Crosses(prev, sum, IF kind = "threshold" THEN thr(k, tpd) ELSE tpd)

\* A booking calls out the kinds that are due, each once.
LEMMA FiresFacts ==
  ASSUME NEW k, NEW tpd, NEW day, NEW prev, NEW sum
  PROVE  LET fires == Fires(k, tpd, day, prev, sum)
         IN  /\ fires \in Seq(Kinds)
             /\ \A kind : (\E i \in DOMAIN fires : fires[i] = kind)
                  <=> kind \in Kinds /\ Due(kind, k, tpd, day, prev, sum)
<1> DEFINE fires == Fires(k, tpd, day, prev, sum)
           t == Due("threshold", k, tpd, day, prev, sum)
           b == Due("budget", k, tpd, day, prev, sum)
<1>1. fires = (IF t THEN <<"threshold">> ELSE <<>>)
                \o (IF b THEN <<"budget">> ELSE <<>>)
  BY DEF Fires, Due
<1> HIDE DEF fires, t, b
<1>2. /\ <<"threshold">> \in Seq(Kinds) /\ Len(<<"threshold">>) = 1
      /\ <<"budget">> \in Seq(Kinds) /\ Len(<<"budget">>) = 1
      /\ <<>> \in Seq(Kinds) /\ Len(<<>>) = 0
  <2>1. "threshold" \in Kinds /\ "budget" \in Kinds
    BY DEF Kinds
  <2>2. <<>> \in Seq(Kinds) /\ Len(<<>>) = 0
    BY EmptySeq
  <2>3. QED
    BY <2>1, <2>2
<1>3. fires \in Seq(Kinds)
  BY <1>1, <1>2, ConcatProperties
<1>4. \A kind : (\E i \in DOMAIN fires : fires[i] = kind)
        <=> (kind = "threshold" /\ t) \/ (kind = "budget" /\ b)
  <2>1. CASE t /\ b
    <3>1. fires = <<"threshold">> \o <<"budget">>
      BY <1>1, <2>1
    <3>2. Len(fires) = 2 /\ fires[1] = "threshold" /\ fires[2] = "budget"
      BY <1>2, <3>1, ConcatProperties
    <3>3. DOMAIN fires = {1, 2}
      BY <1>3, <3>2, LenProperties
    <3>4. QED
      BY <2>1, <3>2, <3>3
  <2>2. CASE t /\ ~b
    <3>1. fires = <<"threshold">>
      BY <1>1, <1>2, <2>2, ConcatEmptySeq
    <3>2. QED
      BY <2>2, <3>1
  <2>3. CASE ~t /\ b
    <3>1. fires = <<"budget">>
      BY <1>1, <1>2, <2>3, ConcatEmptySeq
    <3>2. QED
      BY <2>3, <3>1
  <2>4. CASE ~t /\ ~b
    <3>1. fires = <<>>
      BY <1>1, <1>2, <2>4, ConcatEmptySeq
    <3>2. QED
      BY <2>4, <3>1
  <2>5. QED
    BY <2>1, <2>2, <2>3, <2>4
<1>5. QED
  BY <1>3, <1>4 DEF fires, t, b, Kinds

\* A request that is at a stage has the fields of a request in progress.
LEMMA AtStage ==
  ASSUME req \in [Requests -> Active \cup {Idle}],
         NEW r \in Requests, NEW stage \in Stages, At(r, stage)
  PROVE  /\ req[r] \in Active /\ req[r].stage = stage /\ Key(r) = req[r].key
         /\ Key(r) \in Keys
<1>1. "idle" \notin Stages
  BY DEF Stages
<1>2. req[r] # Idle
  BY <1>1 DEF At, Idle
<1>3. QED
  BY <1>2 DEF At, Key, Active

-----------------------------------------------------------------------------
(* The invariant everything below rests on: the types, and what a request  *)
(* carries from the steps before.                                          *)

\* A request never carries a day that has not begun; with a store that answers
\* it books against the budget of its key; and one that calls back has a call to
\* make.
Sound(x) ==
  /\ x.stage \in {"check", "book"} => x.clock <= Day(now)
  /\ store = "memory" /\ x.stage \in {"bookday", "book"} =>
       x.tpd = limits[x.key].tpd
  /\ x.stage = "fire" => x.fires # <<>>

RequestsAreSound == \A r \in Requests : Sound(req[r])

\* No window of the limiter is ahead of the clock.
WindowsArePast == \A k \in Keys : dayWindow[k].at <= Day(now)

Base == TypeOK /\ RequestsAreSound /\ WindowsArePast

\* A request that may still book tokens which no check has weighed against the
\* tokens of today: it is admitted, or the day it is checked for is over.
MayBook(x, k) ==
  \/ x.stage \in {"chat", "requota", "bookday", "book"} /\ x.key = k
  \/ x.stage = "check" /\ x.key = k /\ x.clock # Day(now)

HasRoom(k) == TokensToday(k) < limits[k].tpd

\* The steps of a request that neither book nor call back.
Advances(r) ==
  \/ \E k \in Keys : Arrive(r, k)
  \/ ReadMinute(r) \/ Allow(r) \/ ReadDay(r) \/ CheckBudget(r)
  \/ Chat(r) \/ Requota(r) \/ ReadBookDay(r)

\* What such a step makes of the request.
AdvancesTo(r, x) ==
  /\ req' = [req EXCEPT ![r] = x]
  /\ x \in Active \cup {Idle} /\ Sound(x) /\ x.stage # "fire"
  /\ \A k \in Keys : store = "memory" /\ limits[k].tpd > 0 /\ MayBook(x, k)
       => MayBook(req[r], k) \/ HasRoom(k)

\* A request that is over goes back to idle, which is an advance.
LEMMA EndedRequest ==
  ASSUME NEW r \in Requests, Ends(r) PROVE AdvancesTo(r, Idle)
<1>1. Idle.stage = "idle"
  BY DEF Idle
<1>2. QED
  BY <1>1 DEF Ends, AdvancesTo, Sound, MayBook

\* A step that only reads a clock.
LEMMA ReadClockFacts ==
  ASSUME TypeOK, NEW r \in Requests, NEW stage \in Stages, NEW then \in Stages,
         NEW reading \in Nat, ReadClock(r, stage, reading, then)
  PROVE  \E x \in Active :
           /\ req' = [req EXCEPT ![r] = x] /\ req[r] \in Active
           /\ x.stage = then /\ x.clock = reading
           /\ x.key = req[r].key /\ x.tpd = req[r].tpd /\ req[r].stage = stage
<1>1. At(r, stage) /\ req \in [Requests -> Active \cup {Idle}]
  BY DEF ReadClock, TypeOK
<1>2. req[r] \in Active /\ req[r].stage = stage
  BY <1>1, AtStage
<1> DEFINE x == [req[r] EXCEPT !.stage = then, !.clock = reading]
<1>3. req' = [req EXCEPT ![r] = x]
  BY <1>1 DEF ReadClock
<1>4. /\ x \in Active /\ x.stage = then /\ x.clock = reading
      /\ x.key = req[r].key /\ x.tpd = req[r].tpd
  BY <1>2 DEF Active
<1>5. QED
  BY <1>2, <1>3, <1>4

\* A step to the next stage forgets the clock it read.
LEMMA GoesFacts ==
  ASSUME TypeOK, NEW r \in Requests, NEW stage \in Stages, NEW then \in Stages,
         At(r, stage), Goes(r, then)
  PROVE  \E x \in Active :
           /\ req' = [req EXCEPT ![r] = x] /\ req[r] \in Active
           /\ x.stage = then /\ x.clock = 0 /\ x.key = req[r].key
<1>1. req \in [Requests -> Active \cup {Idle}]
  BY DEF TypeOK
<1>2. req[r] \in Active /\ req[r].stage = stage
  BY <1>1, AtStage
<1> DEFINE x == [req[r] EXCEPT !.stage = then, !.clock = 0]
<1>3. req' = [req EXCEPT ![r] = x]
  BY <1>1 DEF Goes
<1>4. x \in Active /\ x.stage = then /\ x.clock = 0 /\ x.key = req[r].key
  BY <1>2 DEF Active
<1>5. QED
  BY <1>2, <1>3, <1>4

\* With a budget the stage after the rpm check is the check of the budget.
LEMMA BudgetedStage ==
  ASSUME NEW k
  PROVE  /\ Budgeted(k) \in {"day", "chat"}
         /\ limits[k].tpd > 0 => Budgeted(k) = "day"
BY DEF Budgeted

\* A store that answers knows its keys.
LEMMA MemoryAnswers ==
  ASSUME NEW k, store = "memory" PROVE "unknown" \notin Answers(k)
BY DEF Answers

\* So does a request that arrives advance,
LEMMA ArriveAdvances ==
  ASSUME Base, NEW r \in Requests, NEW k \in Keys, Arrive(r, k)
  PROVE  \E x : AdvancesTo(r, x)
<1>1. PICK found \in Answers(k) :
        IF found = "disabled" THEN Ends(r)
        ELSE req' = [req EXCEPT ![r] =
              [stage |-> CASE found = "unknown" -> "chat"
                           [] found = "enabled" /\ limits[k].rpm > 0 -> "minute"
                           [] OTHER -> Budgeted(k),
               key |-> k, clock |-> 0, tpd |-> 0, n |-> 0, fires |-> <<>>,
               fresh |-> TRUE]]
  BY DEF Arrive
<1>2. CASE found = "disabled"
  BY <1>1, <1>2, EndedRequest
<1>3. CASE found # "disabled"
  <2> DEFINE stage == CASE found = "unknown" -> "chat"
                        [] found = "enabled" /\ limits[k].rpm > 0 -> "minute"
                        [] OTHER -> Budgeted(k)
             x == [stage |-> stage, key |-> k, clock |-> 0, tpd |-> 0, n |-> 0,
                   fires |-> <<>>, fresh |-> TRUE]
  <2>1. req' = [req EXCEPT ![r] = x]
    BY <1>1, <1>3
  <2>2. /\ stage \in {"chat", "minute", "day"}
        /\ found # "unknown" /\ limits[k].tpd > 0 => stage # "chat"
    BY BudgetedStage
  <2> HIDE DEF stage
  <2>3. x \in Active
    <3>1. stage \in Stages /\ <<>> \in Seq(Kinds)
      BY <2>2, EmptySeq DEF Stages
    <3>2. QED
      BY <3>1 DEF Active
  <2>4. x.stage = stage /\ x.key = k
    OBVIOUS
  <2> HIDE DEF x
  <2>5. store = "memory" => found # "unknown"
    BY MemoryAnswers
  <2>6. AdvancesTo(r, x)
    BY <2>1, <2>2, <2>3, <2>4, <2>5 DEF AdvancesTo, Sound, MayBook
  <2>7. QED
    BY <2>6
<1>4. QED
  BY <1>2, <1>3

\* one that reads the clock,
LEMMA ReadingAdvances ==
  ASSUME Base, NEW r \in Requests,
         ReadMinute(r) \/ ReadDay(r) \/ ReadBookDay(r)
  PROVE  \E x : AdvancesTo(r, x)
<1>1. /\ TypeOK /\ now \in Nat /\ Day(now) \in Nat
      /\ {"minute", "allow", "day", "check", "bookday", "book"} \subseteq Stages
  <2>1. TypeOK /\ now \in Nat
    BY QuotaAssumption DEF Base, TypeOK
  <2>2. QED
    BY <2>1, DayGrows DEF Stages
<1>2. CASE ReadMinute(r)
  <2>1. PICK x \in Active : req' = [req EXCEPT ![r] = x] /\ x.stage = "allow"
    BY <1>1, <1>2, ReadClockFacts DEF ReadMinute
  <2>2. QED
    BY <2>1 DEF AdvancesTo, Sound, MayBook
<1>3. CASE ReadDay(r)
  <2>1. PICK x \in Active : /\ req' = [req EXCEPT ![r] = x]
                            /\ x.stage = "check" /\ x.clock = Day(now)
    BY <1>1, <1>3, ReadClockFacts DEF ReadDay
  <2>2. x.clock <= Day(now)
    BY <1>1, <2>1
  <2>3. QED
    BY <2>1, <2>2 DEF AdvancesTo, Sound, MayBook
<1>4. CASE ReadBookDay(r)
  <2>1. PICK x \in Active : /\ req' = [req EXCEPT ![r] = x]
                            /\ x.stage = "book" /\ x.clock = Day(now)
                            /\ x.key = req[r].key /\ x.tpd = req[r].tpd
                            /\ req[r].stage = "bookday"
    BY <1>1, <1>4, ReadClockFacts DEF ReadBookDay
  <2>2. x.clock <= Day(now)
    BY <1>1, <2>1
  <2>3. Sound(x)
    BY <2>1, <2>2 DEF Base, RequestsAreSound, Sound
  <2>4. QED
    BY <2>1, <2>3 DEF AdvancesTo, MayBook
<1>5. QED
  BY <1>2, <1>3, <1>4

\* one that is let pass or refused by the minute window,
LEMMA AllowAdvances ==
  ASSUME Base, NEW r \in Requests, Allow(r)
  PROVE  \E x : AdvancesTo(r, x)
<1>1. TypeOK /\ At(r, "allow") /\ "allow" \in Stages
  BY DEF Base, Allow, Stages
<1>2. req[r] \in Active /\ req[r].key \in Keys
  BY <1>1, AtStage DEF TypeOK
<1>3. Ends(r) \/ Goes(r, Budgeted(req[r].key))
  BY DEF Allow, Key
<1>4. CASE Ends(r)
  BY <1>4, EndedRequest
<1>5. CASE Goes(r, Budgeted(req[r].key))
  <2>1. Budgeted(req[r].key) \in Stages
    BY BudgetedStage DEF Stages
  <2>2. PICK x \in Active : /\ req' = [req EXCEPT ![r] = x]
                            /\ x.stage = Budgeted(req[r].key)
                            /\ x.key = req[r].key
    BY <1>1, <1>5, <2>1, GoesFacts
  <2>3. /\ x.stage \in {"day", "chat"}
        /\ limits[x.key].tpd > 0 => x.stage = "day"
    BY <2>2, BudgetedStage
  <2>4. AdvancesTo(r, x)
    BY <2>2, <2>3 DEF AdvancesTo, Sound, MayBook
  <2>5. QED
    BY <2>4
<1>6. QED
  BY <1>3, <1>4, <1>5

\* one that is checked against the budget of the day (it passes only while there
\* is room),
LEMMA CheckAdvances ==
  ASSUME Base, NEW r \in Requests, CheckBudget(r)
  PROVE  \E x : AdvancesTo(r, x)
<1>1. /\ TypeOK /\ At(r, "check") /\ "check" \in Stages /\ "chat" \in Stages
      /\ OverTPD(r) => Ends(r)
      /\ ~OverTPD(r) => Goes(r, "chat")
  BY DEF Base, CheckBudget, Stages
<1>2. CASE OverTPD(r)
  BY <1>1, <1>2, EndedRequest
<1>3. CASE ~OverTPD(r)
  <2>1. PICK x \in Active :
          /\ req' = [req EXCEPT ![r] = x] /\ req[r] \in Active
          /\ x.stage = "chat" /\ x.key = req[r].key
    BY <1>1, <1>3, GoesFacts
  <2>2. req[r].stage = "check" /\ req[r].key \in Keys
    BY <1>1, <2>1 DEF At, Active
  <2>3. limits[req[r].key].tpd \in Nat
        /\ Spent(dayWindow[req[r].key], req[r].clock) \in Nat
    <3>1. dayWindow[req[r].key] \in Window
      BY <1>1, <2>2 DEF TypeOK
    <3>2. dayWindow[req[r].key].used \in Nat
      BY <3>1 DEF Window, NoWindow
    <3>3. limits[req[r].key].tpd \in Nat
      BY <1>1, <2>2, QuotaAssumption DEF TypeOK
    <3>4. QED
      BY <3>2, <3>3 DEF Spent
  <2>4. Spent(dayWindow[req[r].key], req[r].clock) < limits[req[r].key].tpd
    BY <1>3, <2>3 DEF OverTPD, Key
  <2>5. MayBook(req[r], req[r].key) \/ HasRoom(req[r].key)
    BY <2>2, <2>4 DEF MayBook, HasRoom, TokensToday
  <2>6. \A k \in Keys : MayBook(x, k) => k = req[r].key
    BY <2>1 DEF MayBook
  <2>7. Sound(x) /\ x.stage # "fire"
    BY <2>1 DEF Sound
  <2>8. AdvancesTo(r, x)
    BY <2>1, <2>5, <2>6, <2>7 DEF AdvancesTo
  <2>9. QED
    BY <2>8
<1>4. QED
  BY <1>2, <1>3

\* one that gets its answer or is refused by the guard or the upstream,
LEMMA ChatAdvances ==
  ASSUME Base, NEW r \in Requests, Chat(r)
  PROVE  \E x : AdvancesTo(r, x)
<1>1. TypeOK /\ At(r, "chat") /\ "chat" \in Stages
  BY DEF Base, Chat, Stages
<1>2. req[r] \in Active /\ req[r].stage = "chat"
  BY <1>1, AtStage DEF TypeOK
<1>3. CASE Ends(r)
  BY <1>3, EndedRequest
<1>4. CASE ~Ends(r)
  <2>1. PICK n \in Replies :
          req' = [req EXCEPT ![r].stage = "requota", ![r].n = n]
    BY <1>4 DEF Chat
  <2> DEFINE x == [req[r] EXCEPT !.stage = "requota", !.n = n]
  <2>2. req' = [req EXCEPT ![r] = x]
    BY <1>1, <2>1 DEF TypeOK
  <2>3. x \in Active /\ x.stage = "requota" /\ x.key = req[r].key
    BY <1>2 DEF Active, Stages
  <2> HIDE DEF x
  <2>4. AdvancesTo(r, x)
    BY <1>2, <2>2, <2>3 DEF AdvancesTo, Sound, MayBook
  <2>5. QED
    BY <2>4
<1>5. QED
  BY <1>3, <1>4

\* and one that looks up its key once more.
LEMMA RequotaAdvances ==
  ASSUME Base, NEW r \in Requests, Requota(r)
  PROVE  \E x : AdvancesTo(r, x)
<1>1. TypeOK /\ At(r, "requota") /\ "requota" \in Stages
  BY DEF Base, Requota, Stages
<1>2. /\ req[r] \in Active /\ req[r].stage = "requota" /\ req[r].key \in Keys
      /\ Key(r) = req[r].key
  BY <1>1, AtStage DEF TypeOK
<1>3. PICK found \in Answers(req[r].key) :
        IF req[r].n = 0 THEN Ends(r)
        ELSE req' = [req EXCEPT ![r].stage = "bookday",
               ![r].tpd = IF found = "unknown" THEN 0
                          ELSE limits[req[r].key].tpd]
  BY <1>2 DEF Requota
<1>4. CASE req[r].n = 0
  BY <1>3, <1>4, EndedRequest
<1>5. CASE req[r].n # 0
  <2> DEFINE tpd == IF found = "unknown" THEN 0 ELSE limits[req[r].key].tpd
             x == [req[r] EXCEPT !.stage = "bookday", !.tpd = tpd]
  <2>1. req' = [req EXCEPT ![r] = x]
    BY <1>1, <1>3, <1>5 DEF TypeOK
  <2>2. tpd \in Nat
    BY <1>1, <1>2, QuotaAssumption DEF TypeOK
  <2>3. store = "memory" => tpd = limits[req[r].key].tpd
    BY MemoryAnswers
  <2> HIDE DEF tpd
  <2>4. /\ x \in Active /\ x.stage = "bookday" /\ x.key = req[r].key
        /\ x.tpd = tpd
    BY <1>2, <2>2 DEF Active, Stages
  <2> HIDE DEF x
  <2>5. Sound(x)
    BY <2>3, <2>4 DEF Sound
  <2>6. AdvancesTo(r, x)
    BY <1>2, <2>1, <2>4, <2>5 DEF AdvancesTo, MayBook
  <2>7. QED
    BY <2>6
<1>6. QED
  BY <1>4, <1>5

\* A step of a request that neither books nor calls back, taken apart once for
\* all the proofs below.
LEMMA AdvancesFacts ==
  ASSUME Base, NEW r \in Requests, Advances(r)
  PROVE  /\ \E x : AdvancesTo(r, x)
         /\ UNCHANGED <<now, keyVars, dayWindow, crossed, told, dispatchVars>>
         /\ rpmWindow' \in [Keys -> Window]
<1>1. \E x : AdvancesTo(r, x)
  BY ArriveAdvances, ReadingAdvances, AllowAdvances, CheckAdvances,
     ChatAdvances, RequotaAdvances DEF Advances
<1>2. TypeOK /\ rpmWindow \in [Keys -> Window]
  BY DEF Base, TypeOK
<1>3. CASE Allow(r)
  <2>1. "allow" \in Stages /\ At(r, "allow")
    BY <1>3 DEF Stages, Allow
  <2>2. Key(r) \in Keys /\ req[r].clock \in Nat
    BY <1>2, <2>1, AtStage DEF TypeOK, Active
  <2>3. InWindow(rpmWindow[Key(r)], req[r].clock) \in [at : Nat, used : Nat]
    BY <1>2, <2>2 DEF InWindow, Window, NoWindow
  <2>4. ASSUME NEW w \in [at : Nat, used : Nat]
        PROVE  w \in Window /\ [w EXCEPT !.used = @ + 1] \in Window
    BY <2>4 DEF Window
  <2>5. rpmWindow' \in [Keys -> Window]
    BY <1>2, <1>3, <2>2, <2>3, <2>4 DEF Allow
  <2>6. QED
    BY <1>1, <1>3, <2>5 DEF Allow
<1>4. CASE ~Allow(r)
  BY <1>1, <1>2, <1>4
  DEF Advances, Arrive, ReadMinute, ReadDay, ReadBookDay, ReadClock,
      CheckBudget, Chat, Requota, quotaVars
<1>5. QED
  BY <1>3, <1>4

-----------------------------------------------------------------------------
(* A booking.                                                              *)

\* What AddTokensWithBudget does to the window, the crossings and the request.
Booked(r, k, day, prev, fires, x) ==
  /\ k = req[r].key /\ k \in Keys
  /\ day = req[r].clock /\ day \in Nat /\ day \in Days
  /\ day <= Day(now) /\ prev = Spent(dayWindow[k], day) /\ prev \in Nat
  /\ req[r].n \in Replies \cup {0} /\ req[r].tpd \in Nat
  /\ fires = Fires(k, req[r].tpd, day, prev, prev + req[r].n)
  /\ dayWindow' = [dayWindow EXCEPT ![k] = [at |-> day, used |-> prev + req[r].n]]
  /\ crossed' = crossed \cup {<<k, fires[i], day>> : i \in DOMAIN fires}
  /\ told' = [t \in DOMAIN told |->
                IF \E i \in DOMAIN fires : t = <<k, fires[i], day>>
                THEN (IF told[t] < 2 THEN told[t] + 1 ELSE 2) ELSE told[t]]
  /\ req' = [req EXCEPT ![r] = x] /\ x \in Active \cup {Idle}
  /\ \/ x = Idle /\ fires = <<>>
     \/ x.stage = "fire" /\ x.fires = fires /\ x.key = k /\ fires # <<>>
  /\ UNCHANGED <<now, keyVars, rpmWindow, dispatchVars>>

\* What a booking does to the window, the crossed levels and the request.
LEMMA BookFacts ==
  ASSUME Base, NEW r \in Requests, Book(r)
  PROVE  /\ req[r].stage = "book" /\ req[r] \in Active
         /\ \E k, day, prev, fires, x : Booked(r, k, day, prev, fires, x)
<1> DEFINE k == req[r].key
           day == req[r].clock
           prev == Spent(dayWindow[k], day)
           fires == Fires(k, req[r].tpd, day, prev, prev + req[r].n)
           x == IF fires = <<>> THEN Idle
                ELSE [req[r] EXCEPT !.stage = "fire", !.fires = fires]
<1>1. TypeOK /\ At(r, "book") /\ "book" \in Stages /\ "fire" \in Stages
  BY DEF Base, Book, Stages
<1>2. /\ req[r] \in Active /\ req[r].stage = "book" /\ k \in Keys
      /\ Key(r) = k
  BY <1>1, AtStage DEF TypeOK
<1>3. day \in Nat /\ req[r].n \in Replies \cup {0} /\ req[r].tpd \in Nat
  BY <1>2 DEF Active
<1>4. day <= Day(now) /\ Day(now) \in Days /\ day \in Days
  <2>1. day <= Day(now)
    BY <1>2 DEF Base, RequestsAreSound, Sound
  <2>2. Day(now) \in Days
    BY <1>1, DayType DEF TypeOK
  <2>3. QED
    BY <1>3, <2>1, <2>2, QuotaAssumption DEF Days
<1>5. prev \in Nat
  <2>1. dayWindow[k] \in Window
    BY <1>1, <1>2 DEF TypeOK
  <2>2. dayWindow[k].used \in Nat
    BY <2>1 DEF Window, NoWindow
  <2>3. QED
    BY <2>2 DEF Spent
<1>6. /\ dayWindow' = [dayWindow EXCEPT ![k] =
                         [at |-> day, used |-> prev + req[r].n]]
      /\ crossed' = crossed \cup {<<k, fires[i], day>> : i \in DOMAIN fires}
      /\ told' = [t \in DOMAIN told |->
                    IF \E i \in DOMAIN fires : t = <<k, fires[i], day>>
                    THEN (IF told[t] < 2 THEN told[t] + 1 ELSE 2) ELSE told[t]]
      /\ UNCHANGED <<now, keyVars, rpmWindow, dispatchVars>>
  BY <1>2 DEF Book
<1>7. IF fires = <<>> THEN Ends(r)
      ELSE req' = [req EXCEPT ![r].stage = "fire", ![r].fires = fires]
  BY <1>2 DEF Book
<1>8. fires \in Seq(Kinds)
  BY FiresFacts
<1> HIDE DEF fires
<1>9. req' = [req EXCEPT ![r] = x]
  BY <1>1, <1>7 DEF Ends, TypeOK
<1>10. /\ x \in Active \cup {Idle}
       /\ \/ x = Idle /\ fires = <<>>
          \/ x.stage = "fire" /\ x.fires = fires /\ x.key = k /\ fires # <<>>
  <2>1. CASE fires = <<>>
    BY <2>1
  <2>2. CASE fires # <<>>
    BY <1>1, <1>2, <1>8, <2>2 DEF Active
  <2>3. QED
    BY <2>1, <2>2
<1> HIDE DEF x
<1>11. fires = Fires(k, req[r].tpd, day, prev, prev + req[r].n)
  BY DEF fires
<1> HIDE DEF prev
<1>12. prev = Spent(dayWindow[k], day)
  BY DEF prev
<1>13. Booked(r, k, day, prev, fires, x)
  BY <1>2, <1>3, <1>4, <1>5, <1>6, <1>9, <1>10, <1>11, <1>12 DEF Booked
<1>14. QED
  BY <1>2, <1>13

-----------------------------------------------------------------------------
(* A callback.                                                             *)

\* One call of the callback: the dispatcher is told if the key asks for it, and
\* the request is over or has the rest of the kinds before it.
Called(r, x, kind) ==
  /\ req[r] \in Active /\ req[r].stage = "fire" /\ req[r].key \in Keys
  /\ kind = Head(req[r].fires)
  /\ req' = [req EXCEPT ![r] = x] /\ x \in Active \cup {Idle}
  /\ \/ x = Idle
     \/ /\ x.stage = "fire" /\ x.key = req[r].key
        /\ x.fires = Tail(req[r].fires) /\ x.fires # <<>>
  /\ \/ UNCHANGED dispatchVars
     \/ /\ notify[req[r].key]
        /\ Dispatching(req[r].key, EventOf[kind], kind, FALSE)
  /\ UNCHANGED <<now, keyVars, quotaVars>>

\* What a callback does: the dispatcher hears of one level that was crossed.
LEMMA FireFacts ==
  ASSUME Base, NEW r \in Requests, Fire(r)
  PROVE  \E kind \in Kinds : \E x : Called(r, x, kind)
<1>1. TypeOK /\ At(r, "fire") /\ "fire" \in Stages
  BY DEF Base, Fire, Stages
<1>2. /\ req[r] \in Active /\ req[r].stage = "fire" /\ req[r].key \in Keys
      /\ Key(r) = req[r].key
  BY <1>1, AtStage DEF TypeOK
<1>3. req[r].fires \in Seq(Kinds) /\ req[r].fires # <<>>
  BY <1>2 DEF Active, Base, RequestsAreSound, Sound
<1> DEFINE kind == Head(req[r].fires)
           x == IF Len(req[r].fires) = 1 THEN Idle
                ELSE [req[r] EXCEPT !.fires = Tail(req[r].fires)]
<1>4. kind \in Kinds /\ Tail(req[r].fires) \in Seq(Kinds)
  BY <1>3, HeadTailProperties
<1>5. req' = [req EXCEPT ![r] = x]
  BY <1>1 DEF Fire, Ends, TypeOK
<1>6. /\ x \in Active \cup {Idle}
      /\ \/ x = Idle
         \/ /\ x.stage = "fire" /\ x.key = req[r].key
            /\ x.fires = Tail(req[r].fires) /\ x.fires # <<>>
  <2>1. Len(req[r].fires) # 1 => Tail(req[r].fires) # <<>>
    <3>1. Len(Tail(req[r].fires)) = Len(req[r].fires) - 1
      BY <1>3, HeadTailProperties
    <3>2. Len(req[r].fires) \in Nat
      BY <1>3, LenProperties
    <3>3. Len(<<>>) = 0
      BY EmptySeq
    <3>4. Tail(req[r].fires) = <<>> => Len(req[r].fires) - 1 = 0
      BY <3>1, <3>3, Zenon
    <3>5. QED
      BY <3>2, <3>4
  <2>2. QED
    BY <1>2, <1>4, <2>1 DEF Active
<1>7. /\ UNCHANGED <<now, keyVars, quotaVars>>
      /\ \/ UNCHANGED dispatchVars
         \/ /\ notify[req[r].key]
            /\ Dispatching(req[r].key, EventOf[kind], kind, FALSE)
  BY <1>2 DEF Fire, Dispatch
<1> HIDE DEF x
<1>8. Called(r, x, kind)
  BY <1>2, <1>5, <1>6, <1>7 DEF Called
<1>9. QED
  BY <1>4, <1>8

-----------------------------------------------------------------------------
(* The base holds in every state.                                          *)

\* The types and what is sound of requests and windows hold at the start,
LEMMA InitBase == Init => Base
<1> SUFFICES ASSUME Init PROVE Base
  OBVIOUS
<1>1. DispatchTypeOK(Kinds)
  BY DispatchInitType DEF Init
<1>2. now \in 0 .. MaxTime /\ Day(now) \in Nat
  BY QuotaAssumption, DayGrows DEF Init
<1>3. TypeOK
  BY <1>1, <1>2 DEF Init, TypeOK, Window
<1>4. RequestsAreSound
  BY DEF Init, RequestsAreSound, Sound, Idle
<1>5. WindowsArePast
  BY <1>2 DEF Init, WindowsArePast, NoWindow
<1>6. QED
  BY <1>3, <1>4, <1>5 DEF Base

\* One request moves to a sound record and the clock and the budgets stand.
LEMMA OthersSound ==
  ASSUME Base, NEW r \in Requests, NEW x, req' = [req EXCEPT ![r] = x],
         UNCHANGED <<now, store, limits>>, Sound(x), x \in Active \cup {Idle}
  PROVE  RequestsAreSound' /\ req' \in [Requests -> Active \cup {Idle}]
<1>1. req \in [Requests -> Active \cup {Idle}]
  BY DEF Base, TypeOK
<1>2. \A s \in Requests : Sound(req'[s])
  BY <1>1 DEF Base, RequestsAreSound
<1>3. Day(now') = Day(now)
  OBVIOUS
<1>4. QED
  BY <1>1, <1>2, <1>3 DEF RequestsAreSound, Sound

\* when a request goes on,
LEMMA AdvancesBase ==
  ASSUME Base, NEW r \in Requests, Advances(r) PROVE Base'
<1>1. PICK x : AdvancesTo(r, x)
  BY AdvancesFacts
<1>2. /\ UNCHANGED <<now, keyVars, dayWindow, crossed, told, dispatchVars>>
      /\ rpmWindow' \in [Keys -> Window]
  BY AdvancesFacts
<1>3. RequestsAreSound' /\ req' \in [Requests -> Active \cup {Idle}]
  BY <1>1, <1>2, OthersSound DEF AdvancesTo, keyVars
<1>4. TypeOK'
  BY <1>2, <1>3 DEF Base, TypeOK, DispatchTypeOK, keyVars, dispatchVars
<1>5. WindowsArePast'
  BY <1>2 DEF Base, WindowsArePast, Day
<1>6. QED
  BY <1>3, <1>4, <1>5 DEF Base

\* when an answer is booked,
LEMMA BookBase ==
  ASSUME Base, NEW r \in Requests, Book(r) PROVE Base'
<1>1. PICK k, day, prev, fires, x : Booked(r, k, day, prev, fires, x)
  BY BookFacts
<1>2. fires \in Seq(Kinds)
  BY <1>1, FiresFacts DEF Booked
<1>3. Sound(x)
  BY <1>1 DEF Booked, Sound, Idle
<1>4. RequestsAreSound' /\ req' \in [Requests -> Active \cup {Idle}]
  BY <1>1, <1>3, OthersSound DEF Booked, keyVars
<1>5. dayWindow' \in [Keys -> Window] /\ WindowsArePast'
  <2>1. day \in Nat /\ prev + req[r].n \in Nat /\ day <= Day(now)
    <3>1. day \in Nat /\ day <= Day(now) /\ prev \in Nat
      BY <1>1 DEF Booked
    <3>2. req[r].n \in Replies \cup {0}
      BY <1>1 DEF Booked
    <3>3. req[r].n \in Nat
      BY <3>2, TokensType
    <3>4. QED
      BY <3>1, <3>3
  <2>2. [at |-> day, used |-> prev + req[r].n] \in Window
    BY <2>1 DEF Window
  <2>3. /\ dayWindow \in [Keys -> Window] /\ UNCHANGED now
        /\ dayWindow' = [dayWindow EXCEPT ![k] =
                           [at |-> day, used |-> prev + req[r].n]]
    BY <1>1 DEF Booked, Base, TypeOK
  <2>4. Day(now') = Day(now)
    BY <2>3
  <2>5. QED
    BY <2>1, <2>2, <2>3, <2>4 DEF Base, WindowsArePast
<1>6. crossed' \subseteq Keys \X Kinds \X Days
  <2>1. \A i \in DOMAIN fires : fires[i] \in Kinds
    BY <1>2
  <2>2. QED
    BY <1>1, <2>1 DEF Booked, Base, TypeOK
<1>7. told' \in [Keys \X Kinds \X Days -> 0 .. 2]
  BY <1>1 DEF Booked, Base, TypeOK
<1>8. TypeOK'
  BY <1>1, <1>4, <1>5, <1>6, <1>7
  DEF Booked, Base, TypeOK, DispatchTypeOK, keyVars, dispatchVars
<1>9. QED
  BY <1>4, <1>5, <1>8 DEF Base

\* when a crossing is told,
LEMMA FireBase ==
  ASSUME Base, NEW r \in Requests, Fire(r) PROVE Base'
<1>1. PICK kind \in Kinds : \E x : Called(r, x, kind)
  BY FireFacts
<1>2. PICK x : Called(r, x, kind)
  BY <1>1
<1>3. Sound(x)
  BY <1>2 DEF Called, Sound, Idle
<1>4. RequestsAreSound' /\ req' \in [Requests -> Active \cup {Idle}]
  BY <1>2, <1>3, OthersSound DEF Called, keyVars
<1>5. DispatchTypeOK(Kinds)'
  <2>1. DispatchTypeOK(Kinds)
    BY DEF Base, TypeOK
  <2>2. CASE UNCHANGED dispatchVars
    BY <2>1, <2>2 DEF DispatchTypeOK, dispatchVars
  <2>3. CASE Dispatching(req[r].key, EventOf[kind], kind, FALSE)
    <3>1. EventOf[kind] \in Events
      BY QuotaAssumption DEF EventOf, Kinds
    <3>2. req[r].key \in Subjects
      BY <1>2, QuotaAssumption DEF Called
    <3>3. QED
      BY <2>1, <2>3, <3>1, <3>2, DispatchingType
  <2>4. QED
    BY <1>2, <2>2, <2>3 DEF Called
<1>6. TypeOK'
  BY <1>2, <1>4, <1>5 DEF Called, Base, TypeOK, keyVars, quotaVars
<1>7. WindowsArePast'
  BY <1>2 DEF Called, Base, WindowsArePast, Day, quotaVars
<1>8. QED
  BY <1>4, <1>6, <1>7 DEF Base

\* A minute leaves a request what it is, but for its freshness.
LEMMA TickRequests ==
  ASSUME TypeOK, Tick, NEW r \in Requests
  PROVE  /\ req'[r] \in Active \cup {Idle} /\ req'[r].stage = req[r].stage
         /\ req[r] \in Active =>
              /\ req'[r].clock = req[r].clock /\ req'[r].tpd = req[r].tpd
              /\ req'[r].key = req[r].key /\ req'[r].fires = req[r].fires
<1>1. req[r] \in Active \cup {Idle}
  BY DEF TypeOK
<1>2. CASE At(r, "idle")
  <2>1. req[r] = Idle
    BY <1>1, <1>2 DEF Active, Stages, At
  <2>2. req[r] \notin Active
    BY <1>2 DEF Active, Stages, At
  <2>3. req'[r] = Idle
    BY <1>2 DEF Tick
  <2>4. QED
    BY <2>1, <2>2, <2>3
<1>3. CASE ~At(r, "idle")
  <2>1. req[r] \in Active
    BY <1>1, <1>3 DEF Idle, At
  <2>2. req'[r] = [req[r] EXCEPT !.fresh = FALSE]
    BY <1>3 DEF Tick
  <2>3. QED
    BY <2>1, <2>2 DEF Active
<1>4. QED
  BY <1>2, <1>3

\* and when time passes.
LEMMA TickBase == ASSUME Base, Tick PROVE Base'
<1>1. /\ TypeOK /\ now \in 0 .. MaxTime /\ MaxTime \in Nat /\ now < MaxTime
      /\ now' = now + 1
  BY QuotaAssumption DEF Base, TypeOK, Tick
<1>2. Day(now) <= Day(now') /\ Day(now) \in Nat /\ Day(now') \in Nat
  BY <1>1, DayGrows
<1>3. \A r \in Requests :
        /\ req'[r] \in Active \cup {Idle} /\ req'[r].stage = req[r].stage
        /\ req[r] \in Active =>
             /\ req'[r].clock = req[r].clock /\ req'[r].tpd = req[r].tpd
             /\ req'[r].key = req[r].key /\ req'[r].fires = req[r].fires
  BY <1>1, TickRequests
<1>4. RequestsAreSound'
  <2>1. ASSUME NEW r \in Requests PROVE Sound(req[r])'
    <3>1. CASE req[r] \in Active
      <4>1. req[r].clock \in Nat
        BY <3>1 DEF Active
      <4>2. Sound(req[r])'
        <5>1. Sound(req[r])
          BY DEF Base, RequestsAreSound
        <5>2. UNCHANGED <<store, limits>>
          BY DEF Tick, keyVars
        <5>3. req'[r].stage \in {"check", "book"} => req'[r].clock <= Day(now')
          BY <1>2, <1>3, <3>1, <4>1, <5>1 DEF Sound
        <5>4. store' = "memory" /\ req'[r].stage \in {"bookday", "book"} =>
                req'[r].tpd = limits'[req'[r].key].tpd
          BY <1>3, <3>1, <5>1, <5>2 DEF Sound
        <5>5. req'[r].stage = "fire" => req'[r].fires # <<>>
          BY <1>3, <3>1, <5>1 DEF Sound
        <5>6. QED
          BY <5>3, <5>4, <5>5 DEF Sound
      <4>3. QED
        BY <4>2
    <3>2. CASE req[r] = Idle
      BY <1>3, <3>2 DEF Sound, Idle
    <3>3. QED
      BY <1>1, <3>1, <3>2 DEF TypeOK
  <2>2. QED
    BY <2>1 DEF RequestsAreSound
<1>5. WindowsArePast'
  <2>1. \A k \in Keys : dayWindow[k].at \in Int /\ dayWindow[k].at <= Day(now)
    BY <1>1 DEF TypeOK, Window, NoWindow, Base, WindowsArePast
  <2>2. UNCHANGED dayWindow
    BY DEF Tick, quotaVars
  <2>3. QED
    BY <1>2, <2>1, <2>2 DEF WindowsArePast
<1>6. DispatchTypeOK(Kinds)'
  BY <1>1, AgeType DEF Tick, TypeOK
<1>7. req' \in [Requests -> Active \cup {Idle}]
  BY <1>3 DEF Tick
<1>8. TypeOK'
  BY <1>1, <1>6, <1>7 DEF Tick, TypeOK, keyVars, quotaVars
<1>9. QED
  BY <1>4, <1>5, <1>8 DEF Base

\* The steps of the others: a revocation, and a POST.
LEMMA ElsewhereBase ==
  ASSUME Base, \/ \E k \in Keys : Revoke(k)
               \/ \E m \in sending, ok \in BOOLEAN : Post(m, ok)
               \/ UNCHANGED vars
  PROVE  /\ Base'
         /\ UNCHANGED <<now, req, store, limits, notify, dayWindow, crossed,
                        told, seenAge>>
<1>1. UNCHANGED <<now, req, store, limits, notify, dayWindow, crossed, told,
                  seenAge>>
  BY AttemptSends
  DEF Revoke, Post, vars, keyVars, quotaVars, dispatchVars
<1>2. RequestsAreSound'
  BY <1>1 DEF Base, RequestsAreSound, Sound, Day
<1>3. WindowsArePast'
  BY <1>1 DEF Base, WindowsArePast, Day
<1>4. DispatchTypeOK(Kinds)'
  <2>1. DispatchTypeOK(Kinds)
    BY DEF Base, TypeOK
  <2>2. CASE UNCHANGED dispatchVars
    BY <2>1, <2>2 DEF DispatchTypeOK, dispatchVars
  <2>3. CASE \E m \in sending, ok \in BOOLEAN : Attempt(m, ok)
    BY <2>1, <2>3, AttemptType
  <2>4. QED
    BY <2>2, <2>3 DEF Revoke, Post, vars
<1>5. rpmWindow' \in [Keys -> Window] /\ revoked' \in [Keys -> BOOLEAN]
  BY DEF Base, TypeOK, Revoke, Post, vars, keyVars, quotaVars
<1>6. TypeOK'
  BY <1>1, <1>4, <1>5 DEF Base, TypeOK
<1>7. QED
  BY <1>1, <1>2, <1>3, <1>6 DEF Base

\* Every step is one of these.
LEMMA NextSteps ==
  ASSUME [Next]_vars
  PROVE  \/ \E r \in Requests : Advances(r)
         \/ \E r \in Requests : Book(r)
         \/ \E r \in Requests : Fire(r)
         \/ Tick
         \/ \/ \E k \in Keys : Revoke(k)
            \/ \E m \in sending, ok \in BOOLEAN : Post(m, ok)
            \/ UNCHANGED vars
BY DEF Next, Advances

\* Every step keeps them.
LEMMA NextBase == Base /\ [Next]_vars => Base'
BY NextSteps, AdvancesBase, BookBase, FireBase, TickBase, ElsewhereBase

\* The types and the base, for any number of keys, requests and days.
THEOREM BaseHolds == Spec => []Base
<1>1. Init => Base
  BY InitBase
<1>2. Base /\ [Next]_vars => Base'
  BY NextBase
<1>3. QED
  BY <1>1, <1>2, PTL DEF Spec

\* The windows, the crossings, the requests and the dispatcher keep their types.
THEOREM TypeCorrect == Spec => []TypeOK
<1>1. Base => TypeOK
  BY DEF Base
<1>2. QED
  BY <1>1, BaseHolds, PTL

-----------------------------------------------------------------------------
(* A crossing is told once.                                                *)

\* What a booking calls out is new.
LEMMA FiredAreNew ==
  ASSUME NEW r, NEW k, NEW day, NEW prev, NEW fires, NEW x,
         Booked(r, k, day, prev, fires, x), NEW i \in DOMAIN fires
  PROVE  fires[i] \in Kinds /\ <<k, fires[i], day>> \notin crossed
BY FiresFacts DEF Booked, Due

\* The limiter remembers exactly the crossings it called out.
TollIsKept == \A t \in DOMAIN told : told[t] = IF t \in crossed THEN 1 ELSE 0

\* Every step keeps the count of what was told beside what was crossed.
LEMMA NextToll == Base /\ TollIsKept /\ [Next]_vars => TollIsKept'
<1> SUFFICES ASSUME Base, TollIsKept, [Next]_vars PROVE TollIsKept'
  OBVIOUS
<1>1. CASE UNCHANGED <<told, crossed>>
  BY <1>1 DEF TollIsKept
<1>2. ASSUME NEW r \in Requests, Book(r) PROVE TollIsKept'
  <2>1. PICK k, day, prev, fires, x : Booked(r, k, day, prev, fires, x)
    BY <1>2, BookFacts
  <2>2. /\ crossed' = crossed \cup {<<k, fires[i], day>> : i \in DOMAIN fires}
        /\ told' = [t \in DOMAIN told |->
                      IF \E i \in DOMAIN fires : t = <<k, fires[i], day>>
                      THEN (IF told[t] < 2 THEN told[t] + 1 ELSE 2)
                      ELSE told[t]]
    BY <2>1 DEF Booked
  <2>3. \A i \in DOMAIN fires : <<k, fires[i], day>> \notin crossed
    BY <2>1, FiredAreNew
  <2>4. ASSUME NEW t \in DOMAIN told
        PROVE  told'[t] = IF t \in crossed' THEN 1 ELSE 0
    <3>1. CASE \E i \in DOMAIN fires : t = <<k, fires[i], day>>
      <4>1. t \notin crossed /\ t \in crossed'
        BY <2>2, <2>3, <3>1
      <4>2. told[t] = 0
        BY <4>1 DEF TollIsKept
      <4>3. QED
        BY <2>2, <3>1, <4>1, <4>2
    <3>2. CASE ~\E i \in DOMAIN fires : t = <<k, fires[i], day>>
      <4>1. told'[t] = told[t] /\ (t \in crossed' <=> t \in crossed)
        BY <2>2, <3>2
      <4>2. QED
        BY <4>1 DEF TollIsKept
    <3>3. QED
      BY <3>1, <3>2
  <2>5. DOMAIN told' = DOMAIN told
    BY <2>2
  <2>6. QED
    BY <2>4, <2>5 DEF TollIsKept
<1>3. UNCHANGED <<told, crossed>> \/ \E r \in Requests : Book(r)
  <2>1. \A r \in Requests : Advances(r) => UNCHANGED <<told, crossed>>
    BY AdvancesFacts
  <2>2. \A r \in Requests : Fire(r) => UNCHANGED <<told, crossed>>
    BY DEF Fire, quotaVars
  <2>3. Tick => UNCHANGED <<told, crossed>>
    BY DEF Tick, quotaVars
  <2>4. QED
    BY <2>1, <2>2, <2>3, NextSteps, ElsewhereBase
<1>4. QED
  BY <1>1, <1>2, <1>3

\* AddTokensWithBudget calls a crossing out at most once per key, kind and day,
\* whatever happens to the window of the day in between.
THEOREM CrossingsAreToldOnce == Spec => []CrossingIsToldOnce
<1>1. Init => TollIsKept
  BY DEF Init, TollIsKept
<1>2. TollIsKept => CrossingIsToldOnce
  <2>1. ASSUME TollIsKept, NEW t \in DOMAIN told PROVE told[t] <= 1
    <3>1. told[t] = 0 \/ told[t] = 1
      BY <2>1 DEF TollIsKept
    <3>2. QED
      BY <3>1
  <2>2. QED
    BY <2>1 DEF CrossingIsToldOnce
<1>3. QED
  BY <1>1, <1>2, NextToll, BaseHolds, PTL DEF Spec

-----------------------------------------------------------------------------
(* A level is announced.                                                   *)

\* The level of a kind.
Level(k, kind) ==
  IF kind = "threshold" THEN thr(k, limits[k].tpd) ELSE limits[k].tpd

\* The window of the key has not reached the level, or that was called out.
Announced(k, kind) ==
  Level(k, kind) > 0 /\ dayWindow[k].used >= Level(k, kind)
    => <<k, kind, dayWindow[k].at>> \in crossed

\* The property is the same for either level.
LEMMA AnnouncedByKind ==
  LevelIsAnnounced <=>
    (store = "memory" =>
       \A k \in Keys : limits[k].tpd > 0 =>
         Announced(k, "threshold") /\ Announced(k, "budget"))
BY DEF LevelIsAnnounced, Announced, Level

\* A booking that reaches a level marks it as crossed, unless it is of another day.
LEMMA BookAnnounces ==
  ASSUME Base, NEW r \in Requests, Book(r), store = "memory",
         NEW key \in Keys, limits[key].tpd > 0, NEW kind \in Kinds,
         Announced(key, kind)
  PROVE  Announced(key, kind)'
<1>1. PICK k, day, prev, fires, x : Booked(r, k, day, prev, fires, x)
  BY BookFacts
<1>2. /\ dayWindow \in [Keys -> Window] /\ limits \in [Keys -> Limits]
      /\ dayWindow' = [dayWindow EXCEPT ![k] = [at |-> day, used |-> prev + req[r].n]]
      /\ crossed' = crossed \cup {<<k, fires[i], day>> : i \in DOMAIN fires}
      /\ UNCHANGED limits
  BY <1>1 DEF Booked, keyVars, Base, TypeOK
<1>3. Level(key, kind)' = Level(key, kind)
  BY <1>2 DEF Level, thr
<1>4. CASE key # k
  <2>1. dayWindow'[key] = dayWindow[key]
    BY <1>2, <1>4
  <2>2. QED
    BY <1>2, <1>3, <2>1 DEF Announced
<1>5. CASE key = k
  <2>1. /\ req[r].tpd = limits[k].tpd /\ req[r].stage = "book"
        /\ k \in Keys /\ prev = Spent(dayWindow[k], day) /\ prev \in Nat
        /\ req[r].n \in Replies \cup {0}
        /\ fires = Fires(k, req[r].tpd, day, prev, prev + req[r].n)
    <3>1. req[r].stage = "book"
      BY BookFacts
    <3>2. req[r].tpd = limits[req[r].key].tpd
      BY <3>1 DEF Base, RequestsAreSound, Sound
    <3>3. QED
      BY <1>1, <3>1, <3>2 DEF Booked
  <2>2. limits[k].tpd \in Nat /\ Level(k, kind) \in Nat
    <3>1. limits[k].tpd \in Nat
      BY <1>2, <2>1, QuotaAssumption
    <3>2. QED
      BY <1>2, <2>1, <3>1, LevelType DEF Level
  <2>3. req[r].n \in Nat
    BY <2>1, TokensType
  <2>4. dayWindow'[k].used = prev + req[r].n /\ dayWindow'[k].at = day
    BY <1>2, <2>1
  <2>5. SUFFICES ASSUME Level(k, kind) > 0,
                        prev + req[r].n >= Level(k, kind)
                 PROVE  <<k, kind, day>> \in crossed'
    BY <1>3, <1>5, <2>4 DEF Announced
  <2>6. CASE prev >= Level(k, kind)
    <3>1. prev > 0
      BY <2>1, <2>2, <2>5, <2>6
    <3>2. dayWindow[k].at = day /\ dayWindow[k].used = prev
      BY <2>1, <3>1 DEF Spent
    <3>3. <<k, kind, day>> \in crossed
      BY <1>5, <2>5, <2>6, <3>2 DEF Announced
    <3>4. QED
      BY <1>2, <3>3
  <2>7. CASE ~(prev >= Level(k, kind)) /\ <<k, kind, day>> \notin crossed
    <3>1. Crosses(prev, prev + req[r].n, Level(k, kind))
      BY <2>1, <2>2, <2>5, <2>7 DEF Crosses
    <3>2. Due(kind, k, req[r].tpd, day, prev, prev + req[r].n)
      BY <1>5, <2>1, <2>7, <3>1 DEF Due, Level
    <3>3. \E i \in DOMAIN fires : fires[i] = kind
      BY <2>1, <3>2, FiresFacts
    <3>4. QED
      BY <1>2, <3>3
  <2>8. CASE <<k, kind, day>> \in crossed
    BY <1>2, <2>8
  <2>9. QED
    BY <2>6, <2>7, <2>8
<1>6. QED
  BY <1>4, <1>5

\* Every step keeps the levels announced: only a booking adds tokens.
LEMMA NextAnnounced == Base /\ LevelIsAnnounced /\ [Next]_vars => LevelIsAnnounced'
<1> SUFFICES ASSUME Base, LevelIsAnnounced, [Next]_vars PROVE LevelIsAnnounced'
  OBVIOUS
<1>1. CASE UNCHANGED <<store, limits, dayWindow, crossed>>
  BY <1>1 DEF LevelIsAnnounced, thr
<1>2. ASSUME NEW r \in Requests, Book(r) PROVE LevelIsAnnounced'
  <2>1. UNCHANGED <<store, limits>>
    BY <1>2 DEF Book, keyVars
  <2>2. ASSUME store = "memory", NEW k \in Keys, limits[k].tpd > 0
        PROVE  Announced(k, "threshold")' /\ Announced(k, "budget")'
    <3>1. Announced(k, "threshold") /\ Announced(k, "budget")
      BY <2>2, AnnouncedByKind
    <3>2. "threshold" \in Kinds /\ "budget" \in Kinds
      BY DEF Kinds
    <3>3. QED
      BY <1>2, <2>2, <3>1, <3>2, BookAnnounces
  <2>3. (store = "memory" =>
           \A k \in Keys : limits[k].tpd > 0 =>
             Announced(k, "threshold") /\ Announced(k, "budget"))'
    BY <2>1, <2>2
  <2>4. QED
    BY <2>3 DEF LevelIsAnnounced, Announced, Level
<1>3. UNCHANGED <<store, limits, dayWindow, crossed>>
      \/ \E r \in Requests : Book(r)
  <2>1. \A r \in Requests :
          Advances(r) => UNCHANGED <<store, limits, dayWindow, crossed>>
    BY AdvancesFacts DEF keyVars
  <2>2. \A r \in Requests :
          Fire(r) => UNCHANGED <<store, limits, dayWindow, crossed>>
    BY DEF Fire, keyVars, quotaVars
  <2>3. Tick => UNCHANGED <<store, limits, dayWindow, crossed>>
    BY DEF Tick, keyVars, quotaVars
  <2>4. QED
    BY <2>1, <2>2, <2>3, NextSteps, ElsewhereBase
<1>4. QED
  BY <1>1, <1>2, <1>3

\* With a store that answers every quota read, a day whose counter stands at a
\* level above 0 has been called out, whatever order the bookings came in.
THEOREM LevelsAreAnnounced == Spec => []LevelIsAnnounced
<1>1. Init => LevelIsAnnounced
  <2>1. ASSUME Init, NEW k \in Keys, NEW kind \in Kinds PROVE Announced(k, kind)
    <3>1. dayWindow[k].used = 0
      BY <2>1 DEF Init, NoWindow
    <3>2. Level(k, kind) \in Nat
      BY <2>1, LevelType, QuotaAssumption DEF Init, Level
    <3>3. QED
      BY <3>1, <3>2 DEF Announced
  <2>2. QED
    BY <2>1, AnnouncedByKind DEF Kinds
<1>2. QED
  BY <1>1, NextAnnounced, BaseHolds, PTL DEF Spec

-----------------------------------------------------------------------------
(* A notice is owed.                                                       *)

\* A callback that has still to be made is of a crossing.
Owed(x) ==
  x.stage = "fire" =>
    \A i \in DOMAIN x.fires : \E d \in Days : <<x.key, x.fires[i], d>> \in crossed

FiresAreOwed == \A r \in Requests : Owed(req[r])

\* The dedup map remembers what is under way.
SentIsSeen ==
  \A m \in sending : m.subject \in Keys /\ seenAge[<<m.subject, m.event>>] < TTL

NoticeInv == FiresAreOwed /\ SentIsSeen /\ NoticesAreOwed

\* A request that changes leaves what the others still have to tell.
LEMMA OthersOwed ==
  ASSUME TypeOK, FiresAreOwed, NEW r \in Requests, NEW x,
         req' = [req EXCEPT ![r] = x], crossed \subseteq crossed',
         Owed(x)'
  PROVE  FiresAreOwed'
BY DEF TypeOK, FiresAreOwed, Owed

\* Nothing is sent, and no crossing is forgotten.
LEMMA NoticesStay ==
  ASSUME SentIsSeen, NoticesAreOwed, UNCHANGED <<sending, seenAge, notify>>,
         crossed \subseteq crossed'
  PROVE  SentIsSeen' /\ NoticesAreOwed'
BY DEF SentIsSeen, NoticesAreOwed

\* A booking owes a notice for just the levels it crossed,
LEMMA BookNotices ==
  ASSUME Base, NoticeInv, NEW r \in Requests, Book(r) PROVE NoticeInv'
<1>1. PICK k, day, prev, fires, x : Booked(r, k, day, prev, fires, x)
  BY BookFacts
<1>2. /\ crossed' = crossed \cup {<<k, fires[i], day>> : i \in DOMAIN fires}
      /\ req' = [req EXCEPT ![r] = x] /\ day \in Days
      /\ x = Idle \/ (x.fires = fires /\ x.key = k)
      /\ UNCHANGED <<sending, seenAge, notify>>
  BY <1>1 DEF Booked, keyVars, dispatchVars
<1>3. Owed(x)'
  <2>1. Idle.stage # "fire"
    BY DEF Idle
  <2>2. \A i \in DOMAIN fires : <<k, fires[i], day>> \in crossed'
    BY <1>2
  <2>3. CASE x = Idle
    BY <2>1, <2>3 DEF Owed
  <2>4. CASE x.fires = fires /\ x.key = k
    BY <1>2, <2>2, <2>4 DEF Owed
  <2>5. QED
    BY <1>2, <2>3, <2>4
<1>4. FiresAreOwed'
  BY <1>2, <1>3, OthersOwed DEF Base, NoticeInv
<1>5. QED
  BY <1>2, <1>4, NoticesStay DEF NoticeInv

\* a callback tells of one that is owed, with its key's switch and its window,
LEMMA FireNotices ==
  ASSUME Base, NoticeInv, NEW r \in Requests, Fire(r) PROVE NoticeInv'
<1>1. PICK kind \in Kinds : \E x : Called(r, x, kind)
  BY FireFacts
<1>2. PICK x : Called(r, x, kind)
  BY <1>1
<1> DEFINE k == req[r].key
<1>3. /\ req' = [req EXCEPT ![r] = x] /\ UNCHANGED <<crossed, notify>>
      /\ req[r] \in Active /\ req[r].stage = "fire" /\ k \in Keys
      /\ kind = Head(req[r].fires)
      /\ x = Idle
         \/ (x.key = k /\ x.fires = Tail(req[r].fires) /\ x.stage = "fire")
  BY <1>2 DEF Called, keyVars, quotaVars
<1>4. /\ req[r].fires \in Seq(Kinds) /\ req[r].fires # <<>>
      /\ \A i \in DOMAIN req[r].fires :
           \E d \in Days : <<k, req[r].fires[i], d>> \in crossed
  BY <1>3 DEF Active, Base, RequestsAreSound, Sound, NoticeInv, FiresAreOwed, Owed
<1>5. \E d \in Days : <<k, kind, d>> \in crossed
  <2>1. kind = req[r].fires[1] /\ 1 \in DOMAIN req[r].fires
    BY <1>3, <1>4, HeadTailProperties, LenProperties, EmptySeq
  <2>2. QED
    BY <1>4, <2>1
<1>6. FiresAreOwed'
  <2>1. \A i \in DOMAIN Tail(req[r].fires) :
          i + 1 \in DOMAIN req[r].fires
          /\ Tail(req[r].fires)[i] = req[r].fires[i + 1]
    BY <1>4, HeadTailProperties, LenProperties
  <2>2. Idle.stage # "fire"
    BY DEF Idle
  <2>3. Owed(x)'
    <3>1. CASE x = Idle
      BY <2>2, <3>1 DEF Owed
    <3>2. CASE x.key = k /\ x.fires = Tail(req[r].fires)
      BY <1>3, <1>4, <2>1, <3>2 DEF Owed
    <3>3. QED
      BY <1>3, <3>1, <3>2
  <2>4. QED
    BY <1>3, <2>3, OthersOwed DEF Base, NoticeInv
<1>7. CASE UNCHANGED dispatchVars
  BY <1>3, <1>6, <1>7, NoticesStay DEF NoticeInv, dispatchVars
<1>8. CASE notify[k] /\ Dispatching(k, EventOf[kind], kind, FALSE)
  <2> DEFINE event == EventOf[kind]
             new == [subject |-> k, event |-> event, text |-> kind,
                     channel |-> webhook, attempt |-> 1]
  <2>0. event \in Events /\ k \in Subjects
    BY <1>3, QuotaAssumption DEF EventOf, Kinds
  <2>1. /\ Passes(k, event, FALSE) =>
             seenAge' = [seenAge EXCEPT ![<<k, event>>] = 0]
        /\ ~Passes(k, event, FALSE) => seenAge' = seenAge
        /\ sending' = sending
           \/ (Passes(k, event, FALSE) /\ sending' = sending \cup {new})
    BY <1>8, DispatchingSeen, DispatchingSends
  <2>2. Passes(k, event, FALSE) => seenAge[<<k, event>>] = TTL
    BY DEF Passes, allow
  <2>3. /\ new.subject = k /\ new.event = event /\ new.text = kind
    OBVIOUS
  <2> HIDE DEF new, event
  <2>4. /\ seenAge \in [Subjects \X Events -> 0 .. TTL] /\ TTL \in Nat \ {0}
        /\ sending \subseteq Message(Kinds)
    BY DispatchAssumption DEF Base, TypeOK, DispatchTypeOK
  <2>5. \A m \in sending : m.subject \in Subjects /\ m.event \in Events
    BY <2>4 DEF Message
  <2>6. SentIsSeen'
    <3>1. \A m \in sending : seenAge'[<<m.subject, m.event>>] < TTL
      <4>1. ASSUME NEW key \in Subjects \X Events, seenAge[key] < TTL
            PROVE  seenAge'[key] < TTL
        <5>1. \/ seenAge' = seenAge
              \/ seenAge' = [seenAge EXCEPT ![<<k, event>>] = 0]
          BY <2>1
        <5>2. seenAge'[key] = seenAge[key] \/ seenAge'[key] = 0
          BY <2>4, <5>1
        <5>3. 0 < TTL
          BY <2>4
        <5>4. QED
          BY <4>1, <5>2, <5>3
      <4>2. ASSUME NEW m \in sending
            PROVE  seenAge'[<<m.subject, m.event>>] < TTL
        <5>1. <<m.subject, m.event>> \in Subjects \X Events
          BY <2>5
        <5>2. seenAge[<<m.subject, m.event>>] < TTL
          BY DEF NoticeInv, SentIsSeen
        <5>3. QED
          BY <4>1, <5>1, <5>2
      <4>3. QED
        BY <4>2
    <3>2. Passes(k, event, FALSE) => seenAge'[<<k, event>>] < TTL
      BY <2>0, <2>1, <2>4
    <3>3. QED
      BY <1>3, <2>1, <2>3, <3>1, <3>2 DEF NoticeInv, SentIsSeen
  <2>7. NoticesAreOwed'
    <3>1. CASE sending' = sending
      BY <1>3, <3>1 DEF NoticeInv, NoticesAreOwed
    <3>2. CASE Passes(k, event, FALSE) /\ sending' = sending \cup {new}
      <4>1. \A m \in sending : ~(m.subject = k /\ m.event = event)
        BY <2>2, <2>4, <3>2 DEF NoticeInv, SentIsSeen
      <4>2. event = EventOf[kind]
        BY DEF event
      <4>3. ASSUME NEW m \in sending'
            PROVE  /\ notify[m.subject] /\ m.event = EventOf[m.text]
                   /\ \E d \in Days : <<m.subject, m.text, d>> \in crossed
        BY <1>5, <1>8, <2>3, <3>2, <4>2, <4>3 DEF NoticeInv, NoticesAreOwed
      <4>4. ASSUME NEW m \in sending', NEW o \in sending',
                   o.subject = m.subject, o.event = m.event
            PROVE  o = m
        BY <2>3, <3>2, <4>1, <4>4 DEF NoticeInv, NoticesAreOwed
      <4>5. QED
        BY <1>3, <4>3, <4>4 DEF NoticesAreOwed
    <3>3. QED
      BY <2>1, <3>1, <3>2
  <2>8. QED
    BY <1>6, <2>6, <2>7 DEF NoticeInv
<1>9. QED
  BY <1>2, <1>7, <1>8 DEF Called

\* a minute or a day passes when every POST has ended, and what is owed stays,
LEMMA TickNotices ==
  ASSUME Base, NoticeInv, Tick PROVE NoticeInv'
<1>1. sending' = {} /\ UNCHANGED crossed
  BY DEF Tick, quotaVars
<1>2. SentIsSeen' /\ NoticesAreOwed'
  BY <1>1 DEF SentIsSeen, NoticesAreOwed
<1>3. FiresAreOwed'
  <2>1. ASSUME NEW r \in Requests, req'[r].stage = "fire",
               NEW i \in DOMAIN req'[r].fires
        PROVE  \E d \in Days : <<req'[r].key, req'[r].fires[i], d>> \in crossed
    <3>1. TypeOK /\ req[r].stage = "fire"
      BY <2>1, TickRequests DEF Base
    <3>2. req[r] \in Active
      BY <3>1 DEF TypeOK, Idle
    <3>3. req'[r].key = req[r].key /\ req'[r].fires = req[r].fires
      BY <3>1, <3>2, TickRequests
    <3>4. QED
      BY <2>1, <3>1, <3>3 DEF NoticeInv, FiresAreOwed, Owed
  <2>2. QED
    BY <1>1, <2>1 DEF FiresAreOwed, Owed
<1>4. QED
  BY <1>2, <1>3 DEF NoticeInv

\* and a POST ends.
LEMMA PostNotices ==
  ASSUME Base, NoticeInv, NEW m \in sending, NEW ok, Post(m, ok)
  PROVE  NoticeInv'
<1>1. UNCHANGED <<now, req, crossed, notify, seenAge>>
  BY AttemptSends DEF Post, keyVars, quotaVars
<1>2. FiresAreOwed'
  BY <1>1 DEF NoticeInv, FiresAreOwed, Owed
<1> DEFINE again == [m EXCEPT !.attempt = 2]
<1>3. m \in Message(Kinds)
  BY DEF Base, TypeOK, DispatchTypeOK
<1>4. /\ again.subject = m.subject /\ again.event = m.event
      /\ again.text = m.text
  BY <1>3 DEF Message
<1>5. sending' = sending \ {m} \/ sending' = (sending \ {m}) \cup {again}
  BY AttemptSends DEF Post
<1> HIDE DEF again
<1>6. SentIsSeen'
  BY <1>1, <1>4, <1>5 DEF NoticeInv, SentIsSeen
<1>7. NoticesAreOwed'
  <2>1. ASSUME NEW n \in sending'
        PROVE  \E o \in sending :
                 /\ n.subject = o.subject /\ n.event = o.event /\ n.text = o.text
                 /\ n = o \/ (o = m /\ n = again)
                 /\ o = m => n = again
    BY <1>4, <1>5, <2>1
  <2>2. ASSUME NEW n \in sending'
        PROVE  /\ notify[n.subject] /\ n.event = EventOf[n.text]
               /\ \E d \in Days : <<n.subject, n.text, d>> \in crossed
    BY <2>1 DEF NoticeInv, NoticesAreOwed
  <2>3. ASSUME NEW n \in sending', NEW o \in sending',
               o.subject = n.subject, o.event = n.event
        PROVE  o = n
    BY <2>1, <2>3 DEF NoticeInv, NoticesAreOwed
  <2>4. QED
    BY <1>1, <2>2, <2>3 DEF NoticesAreOwed
<1>8. QED
  BY <1>2, <1>6, <1>7 DEF NoticeInv

\* Every step keeps the notices owed.
LEMMA NextNotices == Base /\ NoticeInv /\ [Next]_vars => NoticeInv'
<1> SUFFICES ASSUME Base, NoticeInv, [Next]_vars PROVE NoticeInv'
  OBVIOUS
<1>1. ASSUME NEW r \in Requests, Advances(r) PROVE NoticeInv'
  <2>1. PICK x : AdvancesTo(r, x)
    BY <1>1, AdvancesFacts
  <2>2. UNCHANGED <<crossed, sending, seenAge, notify>>
    BY <1>1, AdvancesFacts DEF keyVars, dispatchVars
  <2>3. Owed(x)' /\ req' = [req EXCEPT ![r] = x]
    BY <2>1 DEF AdvancesTo, Owed
  <2>4. FiresAreOwed'
    BY <2>2, <2>3, OthersOwed DEF Base, NoticeInv
  <2>5. QED
    BY <2>2, <2>4, NoticesStay DEF NoticeInv
<1>2. ASSUME NEW k \in Keys, Revoke(k) PROVE NoticeInv'
  BY <1>2 DEF Revoke, quotaVars, dispatchVars, NoticeInv, FiresAreOwed, Owed,
              SentIsSeen, NoticesAreOwed
<1>3. CASE UNCHANGED vars
  BY <1>3 DEF vars, keyVars, quotaVars, dispatchVars, NoticeInv, FiresAreOwed,
              Owed, SentIsSeen, NoticesAreOwed
<1>4. QED
  BY <1>1, <1>2, <1>3, NextSteps, BookNotices, FireNotices, TickNotices,
     PostNotices

\* The callback of server.New: a notice goes out only for a key whose toggle is
\* on, after the crossing it speaks of, and never twice at a time.
THEOREM NoticesOwed == Spec => []NoticesAreOwed
<1>1. Init => NoticeInv
  BY DEF Init, DispatchInit, NoticeInv, FiresAreOwed, Owed, Idle, SentIsSeen,
         NoticesAreOwed
<1>2. NoticeInv => NoticesAreOwed
  BY DEF NoticeInv
<1>3. QED
  BY <1>1, <1>2, NextNotices, BaseHolds, PTL DEF Spec

-----------------------------------------------------------------------------
(* The budget is overshot by one answer for each request at most.          *)

\* The requests that may still book tokens against the budget of the key.
Charged(k) == {r \in Requests : MayBook(req[r], k)}

\* What is used and what they may use is within the budget and one answer for
\* each request there is.
Bounded(k) ==
  TokensToday(k) + MaxReply * Cardinality(Charged(k))
    <= limits[k].tpd - 1 + MaxReply * Cardinality(Requests)

ChargeIsBounded ==
  store = "memory" => \A k \in Keys : limits[k].tpd > 0 => Bounded(k)

\* Sets of requests are finite, and a part is no larger than the whole.
LEMMA Sizes ==
  ASSUME NEW S, NEW T, S \subseteq T, T \subseteq Requests
  PROVE  /\ IsFiniteSet(T) /\ Cardinality(S) \in Nat /\ Cardinality(T) \in Nat
         /\ Cardinality(S) <= Cardinality(T)
<1>1. IsFiniteSet(T)
  BY QuotaAssumption, FS_Subset
<1>2. IsFiniteSet(S) /\ Cardinality(S) <= Cardinality(T)
  BY <1>1, FS_Subset
<1>3. QED
  BY <1>1, <1>2, FS_CardinalityType

\* What the prover has to be told of products.
LEMMA Times ==
  \A m, a, b \in Nat :
    /\ m * a \in Nat
    /\ a <= b => m * a <= m * b
    /\ a < b => m * a + m <= m * b
<1>1. ASSUME NEW m \in Nat, NEW a \in Nat, NEW b \in Nat, a <= b
      PROVE  m * a <= m * b
  <2>1. m * (b - a) >= 0 /\ m * b = m * a + m * (b - a)
    BY <1>1
  <2>2. QED
    BY <2>1
<1>2. ASSUME NEW m \in Nat, NEW a \in Nat, NEW b \in Nat, a < b
      PROVE  m * a + m <= m * b
  <2>1. m * (a + 1) <= m * b
    BY <1>1, <1>2
  <2>2. m * (a + 1) = m * a + m
    OBVIOUS
  <2>3. QED
    BY <2>1, <2>2
<1>3. \A m, a \in Nat : m * a \in Nat
  OBVIOUS
<1>4. QED
  BY <1>1, <1>2, <1>3

\* The three ways in which the sum stays within its bound: nothing is added,
\* there is room, or one of the requests books its answer.
LEMMA StaysBounded ==
  ASSUME NEW t \in Nat, NEW u \in Nat, NEW b \in Nat,
         NEW S \in SUBSET Requests, NEW T \in SUBSET Requests,
         t + MaxReply * Cardinality(S)
           <= b - 1 + MaxReply * Cardinality(Requests),
         \/ u <= t /\ T \subseteq S
         \/ u < b
         \/ u <= t + MaxReply /\ \E r \in S : T \subseteq S \ {r}
  PROVE  u + MaxReply * Cardinality(T)
           <= b - 1 + MaxReply * Cardinality(Requests)
<1> DEFINE m == MaxReply
           s == Cardinality(S)
           c == Cardinality(T)
           all == Cardinality(Requests)
<1>1. m \in Nat /\ s \in Nat /\ c \in Nat /\ all \in Nat
  BY TokensType, Sizes
<1>2. c <= all
  BY Sizes
<1>3. m * s \in Nat /\ m * c \in Nat /\ m * all \in Nat /\ m * c <= m * all
  BY <1>1, <1>2, Times
<1>4. CASE u <= t /\ T \subseteq S
  <2>1. c <= s
    BY <1>4, Sizes
  <2>2. m * c <= m * s
    BY <1>1, <2>1, Times
  <2>3. QED
    BY <1>3, <1>4, <2>2
<1>5. CASE u < b
  BY <1>3, <1>5
<1>6. CASE u <= t + MaxReply /\ \E r \in S : T \subseteq S \ {r}
  <2>1. PICK r \in S : T \subseteq S \ {r}
    BY <1>6
  <2>2. c < s
    <3>1. IsFiniteSet(S)
      BY Sizes
    <3>2. Cardinality(S \ {r}) = s - 1
      BY <2>1, <3>1, FS_RemoveElement
    <3>3. c <= Cardinality(S \ {r})
      BY <2>1, Sizes
    <3>4. QED
      BY <1>1, <3>2, <3>3
  <2>3. m * c + m <= m * s
    BY <1>1, <2>2, Times
  <2>4. QED
    BY <1>1, <1>3, <1>6, <2>3
<1>7. QED
  BY <1>4, <1>5, <1>6

\* Tokens and budgets are naturals.
LEMMA TodayType ==
  ASSUME Base, NEW k \in Keys PROVE TokensToday(k) \in Nat /\ limits[k].tpd \in Nat
<1>1. dayWindow[k] \in Window
  BY DEF Base, TypeOK
<1>2. dayWindow[k].used \in Nat
  BY <1>1 DEF Window, NoWindow
<1>3. limits[k].tpd \in Nat
  BY QuotaAssumption DEF Base, TypeOK
<1>4. QED
  BY <1>2, <1>3 DEF TokensToday, Spent

\* The same, for a step.
LEMMA StepBounded ==
  ASSUME Base, Base', UNCHANGED limits, NEW k \in Keys, Bounded(k),
         \/ TokensToday(k)' <= TokensToday(k) /\ Charged(k)' \subseteq Charged(k)
         \/ TokensToday(k)' < limits[k].tpd
         \/ /\ TokensToday(k)' <= TokensToday(k) + MaxReply
            /\ \E r \in Charged(k) : Charged(k)' \subseteq Charged(k) \ {r}
  PROVE  Bounded(k)'
<1>1. TokensToday(k) \in Nat /\ limits[k].tpd \in Nat
  BY TodayType
<1>2. TokensToday(k)' \in Nat
  <2>1. dayWindow'[k] \in Window
    BY DEF Base, TypeOK
  <2>2. dayWindow'[k].used \in Nat
    BY <2>1 DEF Window, NoWindow
  <2>3. QED
    BY <2>2 DEF TokensToday, Spent
<1>3. Charged(k) \in SUBSET Requests /\ Charged(k)' \in SUBSET Requests
  BY DEF Charged
<1> DEFINE t == TokensToday(k)
           u == TokensToday(k)'
           b == limits[k].tpd
           S == Charged(k)
           T == Charged(k)'
<1>4. t + MaxReply * Cardinality(S) <= b - 1 + MaxReply * Cardinality(Requests)
  BY DEF Bounded
<1>5. \/ u <= t /\ T \subseteq S
      \/ u < b
      \/ u <= t + MaxReply /\ \E r \in S : T \subseteq S \ {r}
  OBVIOUS
<1>6. t \in Nat /\ u \in Nat /\ b \in Nat
      /\ S \in SUBSET Requests /\ T \in SUBSET Requests
  BY <1>1, <1>2, <1>3
<1> HIDE DEF t, u, b, S, T
<1>7. u + MaxReply * Cardinality(T) <= b - 1 + MaxReply * Cardinality(Requests)
  BY <1>4, <1>5, <1>6, StaysBounded
<1>8. QED
  BY <1>7 DEF t, u, b, S, T, Bounded

\* When one request moves and the clock stands, the others stay charged or not.
LEMMA OthersCharged ==
  ASSUME TypeOK, NEW r \in Requests, NEW x, req' = [req EXCEPT ![r] = x],
         UNCHANGED now, NEW k \in Keys
  PROVE  /\ ~MayBook(x, k) => Charged(k)' \subseteq Charged(k) \ {r}
         /\ MayBook(req[r], k) => Charged(k)' \subseteq Charged(k)
<1>1. req \in [Requests -> Active \cup {Idle}] /\ Day(now') = Day(now)
  BY DEF TypeOK
<1>2. \A s \in Requests : s # r => req'[s] = req[s]
  BY <1>1
<1>3. req'[r] = x
  BY <1>1
<1>4. \A y : MayBook(y, k)' <=> MayBook(y, k)
  BY <1>1 DEF MayBook
<1>5. \A s \in Requests :
        s \in Charged(k)' <=> MayBook(req'[s], k)
  BY <1>1 DEF Charged, MayBook
<1>6. QED
  BY <1>2, <1>3, <1>5 DEF Charged

\* A request that goes on joins the charged ones only while the day has room.
LEMMA AdvancesBounded ==
  ASSUME Base, Base', ChargeIsBounded, NEW r \in Requests, Advances(r)
  PROVE  ChargeIsBounded'
<1>1. PICK x : AdvancesTo(r, x)
  BY AdvancesFacts
<1>2. UNCHANGED <<now, store, limits, dayWindow>>
  BY AdvancesFacts DEF keyVars
<1>3. ASSUME store = "memory", NEW k \in Keys, limits[k].tpd > 0
      PROVE  Bounded(k)'
  <2>1. Bounded(k)
    BY <1>3 DEF ChargeIsBounded
  <2>2. TokensToday(k)' = TokensToday(k) /\ TokensToday(k) \in Nat
    BY <1>2, TodayType DEF TokensToday, Day
  <2>3. /\ ~MayBook(x, k) => Charged(k)' \subseteq Charged(k) \ {r}
        /\ MayBook(req[r], k) => Charged(k)' \subseteq Charged(k)
    BY <1>1, <1>2, OthersCharged DEF AdvancesTo, Base
  <2>4. MayBook(x, k) => MayBook(req[r], k) \/ HasRoom(k)
    BY <1>1, <1>3 DEF AdvancesTo
  <2>5. Charged(k)' \subseteq Charged(k) \/ HasRoom(k)
    BY <2>3, <2>4
  <2>6. \/ TokensToday(k)' <= TokensToday(k) /\ Charged(k)' \subseteq Charged(k)
        \/ TokensToday(k)' < limits[k].tpd
    BY <2>2, <2>5 DEF HasRoom
  <2>7. QED
    BY <1>2, <2>1, <2>6, StepBounded
<1>4. QED
  BY <1>2, <1>3 DEF ChargeIsBounded

\* A booking turns the charge of its request into as many tokens at most; one of
\* an earlier day replaces the window, and today reads as 0.
LEMMA BookBounded ==
  ASSUME Base, Base', ChargeIsBounded, NEW r \in Requests, Book(r)
  PROVE  ChargeIsBounded'
<1>1. PICK key, day, prev, fires, x : Booked(r, key, day, prev, fires, x)
  BY BookFacts
<1>2. /\ UNCHANGED <<now, store, limits>> /\ req' = [req EXCEPT ![r] = x]
      /\ key = req[r].key /\ key \in Keys /\ prev = Spent(dayWindow[key], day)
      /\ prev \in Nat /\ req[r].n \in Replies \cup {0}
      /\ dayWindow' = [dayWindow EXCEPT ![key] =
                         [at |-> day, used |-> prev + req[r].n]]
      /\ req[r].stage = "book"
      /\ x = Idle \/ x.stage = "fire"
  BY <1>1, BookFacts DEF Booked, keyVars
<1>3. ASSUME store = "memory", NEW k \in Keys, limits[k].tpd > 0
      PROVE  Bounded(k)'
  <2>1. Bounded(k)
    BY <1>3 DEF ChargeIsBounded
  <2>2. ~MayBook(x, k)
    BY <1>2 DEF MayBook, Idle
  <2>3. Charged(k)' \subseteq Charged(k) \ {r}
    BY <1>2, <2>2, OthersCharged DEF Base
  <2>4. TokensToday(k) \in Nat /\ limits[k].tpd \in Nat
    BY TodayType
  <2>5. dayWindow \in [Keys -> Window] /\ Day(now') = Day(now)
    BY <1>2 DEF Base, TypeOK
  <2>6. CASE k # key
    <3>1. dayWindow'[k] = dayWindow[k]
      BY <1>2, <2>5, <2>6
    <3>2. TokensToday(k)' = TokensToday(k)
      BY <2>5, <3>1 DEF TokensToday
    <3>3. QED
      BY <1>2, <2>1, <2>3, <2>4, <3>2, StepBounded
  <2>7. CASE k = key /\ day = Day(now)
    <3>1. TokensToday(k) = prev
      BY <1>2, <2>7 DEF TokensToday
    <3>2. TokensToday(k)' = prev + req[r].n
      BY <1>2, <2>5, <2>7 DEF TokensToday, Spent
    <3>3. req[r].n \in Nat /\ req[r].n <= MaxReply /\ MaxReply \in Nat
      BY <1>2, TokensType
    <3>4. TokensToday(k)' <= TokensToday(k) + MaxReply
      BY <1>2, <3>1, <3>2, <3>3
    <3>5. r \in Charged(k)
      BY <1>2, <2>7 DEF Charged, MayBook
    <3>6. QED
      BY <1>2, <2>1, <2>3, <3>4, <3>5, StepBounded
  <2>8. CASE k = key /\ day # Day(now)
    <3>1. TokensToday(k)' = 0
      BY <1>2, <2>5, <2>8 DEF TokensToday, Spent
    <3>2. TokensToday(k)' < limits[k].tpd
      BY <1>3, <3>1
    <3>3. QED
      BY <1>2, <2>1, <3>2, StepBounded
  <2>9. QED
    BY <2>6, <2>7, <2>8
<1>4. QED
  BY <1>2, <1>3 DEF ChargeIsBounded

\* A callback books nothing and charges nobody.
LEMMA FireBounded ==
  ASSUME Base, Base', ChargeIsBounded, NEW r \in Requests, Fire(r)
  PROVE  ChargeIsBounded'
<1>1. PICK kind \in Kinds : \E x : Called(r, x, kind)
  BY FireFacts
<1>2. PICK x : Called(r, x, kind)
  BY <1>1
<1>3. /\ UNCHANGED <<now, store, limits, dayWindow>>
      /\ req' = [req EXCEPT ![r] = x]
      /\ x = Idle \/ x.stage = "fire"
  BY <1>2 DEF Called, keyVars, quotaVars
<1>4. ASSUME store = "memory", NEW k \in Keys, limits[k].tpd > 0
      PROVE  Bounded(k)'
  <2>1. Bounded(k)
    BY <1>4 DEF ChargeIsBounded
  <2>2. ~MayBook(x, k)
    BY <1>3 DEF MayBook, Idle
  <2>3. Charged(k)' \subseteq Charged(k)
    <3>1. Charged(k)' \subseteq Charged(k) \ {r}
      BY <1>3, <2>2, OthersCharged DEF Base
    <3>2. QED
      BY <3>1
  <2>4. TokensToday(k)' = TokensToday(k) /\ TokensToday(k) \in Nat
    BY <1>3, TodayType DEF TokensToday, Day
  <2>5. QED
    BY <1>3, <2>1, <2>3, <2>4, StepBounded
<1>5. QED
  BY <1>3, <1>4 DEF ChargeIsBounded

\* A new day begins without tokens, so there is room for whoever is now charged.
LEMMA TickBounded ==
  ASSUME Base, Base', ChargeIsBounded, Tick PROVE ChargeIsBounded'
<1>1. UNCHANGED <<store, limits, dayWindow>>
  BY DEF Tick, keyVars, quotaVars
<1>2. Day(now) \in Nat /\ Day(now') \in Nat /\ Day(now) <= Day(now')
  <2>1. now \in Nat /\ now' = now + 1
    BY QuotaAssumption DEF Base, TypeOK, Tick
  <2>2. QED
    BY <2>1, DayGrows
<1>3. ASSUME store = "memory", NEW k \in Keys, limits[k].tpd > 0
      PROVE  Bounded(k)'
  <2>1. Bounded(k)
    BY <1>3 DEF ChargeIsBounded
  <2>2. TokensToday(k) \in Nat
    BY TodayType
  <2>3. CASE Day(now') = Day(now)
    <3>1. TokensToday(k)' = TokensToday(k)
      BY <1>1, <2>3 DEF TokensToday
    <3>2. ASSUME NEW r \in Requests, MayBook(req[r], k)' PROVE MayBook(req[r], k)
      <4>1. req'[r].stage = req[r].stage
        BY TickRequests DEF Base
      <4>2. req[r] # Idle
        BY <3>2, <4>1 DEF MayBook, Idle
      <4>3. req[r] \in Active
        BY <4>2 DEF Base, TypeOK
      <4>4. req'[r].key = req[r].key /\ req'[r].clock = req[r].clock
        BY <4>3, TickRequests DEF Base
      <4>5. QED
        BY <2>3, <3>2, <4>1, <4>4 DEF MayBook
    <3>3. Charged(k)' \subseteq Charged(k)
      BY <3>2 DEF Charged
    <3>4. QED
      BY <1>1, <2>1, <2>2, <3>1, <3>3, StepBounded
  <2>4. CASE Day(now') # Day(now)
    <3>1. dayWindow[k].at <= Day(now) /\ dayWindow[k].at \in Int
      BY DEF Base, WindowsArePast, TypeOK, Window, NoWindow
    <3>2. TokensToday(k)' = 0
      BY <1>1, <1>2, <2>4, <3>1 DEF TokensToday, Spent
    <3>3. TokensToday(k)' < limits[k].tpd
      BY <1>3, <3>2
    <3>4. QED
      BY <1>1, <2>1, <3>3, StepBounded
  <2>5. QED
    BY <2>3, <2>4
<1>4. QED
  BY <1>1, <1>3 DEF ChargeIsBounded

\* Every step keeps the charges bounded.
LEMMA NextBounded == Base /\ ChargeIsBounded /\ [Next]_vars => ChargeIsBounded'
<1> SUFFICES ASSUME Base, ChargeIsBounded, [Next]_vars PROVE ChargeIsBounded'
  OBVIOUS
<1>1. Base'
  BY NextBase
<1>2. CASE UNCHANGED <<now, req, store, limits, dayWindow>>
  BY <1>2 DEF ChargeIsBounded, Bounded, TokensToday, Charged, MayBook, Day
<1>3. QED
  BY <1>1, <1>2, NextSteps, ElsewhereBase, AdvancesBounded, BookBounded,
     FireBounded, TickBounded

\* The hard cap is checked before the answer and booked after it (OverTPD, then
\* AddTokensWithBudget): however many requests pass the check together, across
\* midnight too, the budget of the day is overshot by one answer each at most.
THEOREM OvershootBounded == Spec => []OvershootIsBounded
<1>1. Init => ChargeIsBounded
  <2> SUFFICES ASSUME Init, NEW k \in Keys, limits[k].tpd > 0 PROVE Bounded(k)
    BY DEF ChargeIsBounded
  <2>1. Base
    BY InitBase
  <2>2. Charged(k) = {}
    BY DEF Init, Charged, MayBook, Idle
  <2>3. TokensToday(k) = 0
    BY DEF Init, TokensToday, Spent, NoWindow
  <2>4. limits[k].tpd \in Nat
    BY <2>1, TodayType
  <2>5. 0 + MaxReply * Cardinality({}) <= 0 + MaxReply * Cardinality(Requests)
    <3>1. Cardinality({}) \in Nat /\ Cardinality(Requests) \in Nat
          /\ Cardinality({}) <= Cardinality(Requests)
      BY Sizes
    <3>2. QED
      BY <3>1, TokensType, Times
  <2>6. MaxReply * Cardinality({}) \in Nat
        /\ MaxReply * Cardinality(Requests) \in Nat
    BY TokensType, Sizes, Times
  <2>7. QED
    BY <2>2, <2>3, <2>4, <2>5, <2>6 DEF Bounded
<1>2. Base /\ ChargeIsBounded => OvershootIsBounded
  <2> SUFFICES ASSUME Base, ChargeIsBounded, store = "memory",
                      NEW k \in Keys, limits[k].tpd > 0
               PROVE  TokensToday(k) + MaxReply * Cardinality(Admitted(k))
                        <= limits[k].tpd - 1 + MaxReply * Cardinality(Requests)
    BY DEF OvershootIsBounded
  <2>1. Admitted(k) \subseteq Charged(k) /\ Charged(k) \in SUBSET Requests
        /\ Admitted(k) \in SUBSET Requests
    BY DEF Admitted, Charged, MayBook, Key
  <2>2. TokensToday(k) \in Nat /\ limits[k].tpd \in Nat
    BY TodayType
  <2>3. TokensToday(k) + MaxReply * Cardinality(Charged(k))
          <= limits[k].tpd - 1 + MaxReply * Cardinality(Requests)
    BY DEF ChargeIsBounded, Bounded
  <2> DEFINE t == TokensToday(k)
             b == limits[k].tpd
             S == Charged(k)
             T == Admitted(k)
  <2>4. t \in Nat /\ b \in Nat /\ t <= t /\ T \subseteq S
        /\ S \in SUBSET Requests /\ T \in SUBSET Requests
        /\ t + MaxReply * Cardinality(S)
             <= b - 1 + MaxReply * Cardinality(Requests)
    BY <2>1, <2>2, <2>3
  <2> HIDE DEF t, b, S, T
  <2>5. t + MaxReply * Cardinality(T) <= b - 1 + MaxReply * Cardinality(Requests)
    BY <2>4, StaysBounded
  <2>6. QED
    BY <2>5 DEF t, b, T
<1>3. QED
  BY <1>1, <1>2, NextBounded, BaseHolds, PTL DEF Spec
=============================================================================
