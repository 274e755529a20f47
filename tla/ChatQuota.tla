----------------------------- MODULE ChatQuota -----------------------------
(***************************************************************************)
(* The quota path of the chat proxy: handlePlaygroundChat                  *)
(* (backend/internal/server/catalog.go) over the in-memory limiter         *)
(* (backend/internal/quota/quota.go), the two key stores, and the callback *)
(* of server.New that hands crossings to the dispatcher.                   *)
(*                                                                         *)
(* Requests run concurrently.  A request reads the key's quota, spends one *)
(* of its rpm, looks at today's tokens, is answered, reads the quota again *)
(* and books the tokens.  The limiter reads the clock before it takes its  *)
(* lock, so each of these is two steps.                                    *)
(*                                                                         *)
(* One tick of the clock is a minute, and DayLen minutes are a day, which  *)
(* is also the dispatcher's TTL of 24 hours.                               *)
(***************************************************************************)
EXTENDS AlertDispatch, Integers, FiniteSets

CONSTANTS
  Keys,      \* API keys
  Requests,  \* handler goroutines
  Limits,    \* quotas a key can be issued with
  Replies,   \* tokens an answer can take
  DayLen,    \* minutes of a day
  MaxTime,   \* bound: the clock stops here
  MaxTokens  \* bound: the upstream answers no key that used more in its window

ASSUME QuotaAssumption ==
  /\ Keys \subseteq Subjects
  /\ Limits \subseteq [rpm : Nat, tpd : Nat, at : 1 .. 100]
  /\ Replies \subseteq Nat /\ \E n \in Replies : \A m \in Replies : m <= n
  /\ DayLen \in Nat \ {0} /\ MaxTime \in Nat /\ IsFiniteSet(Requests)
  /\ {"threshold_crossed", "budget_crossed"} \subseteq Events

VARIABLES
  now,
  store,     \* "memory": the mock store; "postgres": store.go
  limits,    \* what each key was issued with (rpm or tpd 0: unlimited)
  notify,    \* Server.alertNotify
  revoked,
  rpmWindow, \* Limiter.m
  dayWindow, \* Limiter.dt
  crossed,   \* Limiter.crossed
  req,       \* the requests in progress
  told       \* calls of the callback (history)

keyVars   == <<store, limits, notify, revoked>>
quotaVars == <<rpmWindow, dayWindow, crossed, told>>
vars == <<now, req, keyVars, quotaVars, dispatchVars>>

Kinds == {"threshold", "budget"}
Days  == 0 .. (MaxTime \div DayLen)
Day(t) == t \div DayLen

EventOf == [threshold |-> "threshold_crossed", budget |-> "budget_crossed"]

\* A request between two steps.  `clock' is the minute or the day it read last,
\* tpd the budget the second quota read returned, `fires' its pending callbacks.
Stages == {"minute", "allow", "day", "check", "chat", "requota",
           "bookday", "book", "fire"}
Active == [stage : Stages, key : Keys, clock : Nat, tpd : Nat, n : Replies \cup {0},
           fires : Seq(Kinds), fresh : BOOLEAN]
Idle == [stage |-> "idle"]

NoWindow == [at |-> -1, used |-> 0]
Window   == [at : Nat, used : Nat] \cup {NoWindow}

TypeOK ==
  /\ DispatchTypeOK(Kinds)
  /\ now \in 0 .. MaxTime /\ store \in {"memory", "postgres"}
  /\ limits \in [Keys -> Limits] /\ notify \in [Keys -> BOOLEAN]
  /\ revoked \in [Keys -> BOOLEAN]
  /\ rpmWindow \in [Keys -> Window] /\ dayWindow \in [Keys -> Window]
  /\ crossed \subseteq Keys \X Kinds \X Days
  /\ told \in [Keys \X Kinds \X Days -> 0 .. 2]
  /\ req \in [Requests -> Active \cup {Idle}]

Init ==
  /\ DispatchInit
  /\ now = 0 /\ store \in {"memory", "postgres"}
  /\ limits \in [Keys -> Limits] /\ notify \in [Keys -> BOOLEAN]
  /\ revoked = [k \in Keys |-> FALSE]
  /\ rpmWindow = [k \in Keys |-> NoWindow]
  /\ dayWindow = [k \in Keys |-> NoWindow]
  /\ crossed = {}
  /\ told = [t \in Keys \X Kinds \X Days |-> 0]
  /\ req = [r \in Requests |-> Idle]

-----------------------------------------------------------------------------
\* The limiter.
InWindow(w, at) == IF w.at = at THEN w ELSE [at |-> at, used |-> 0]
Spent(w, at)    == IF w.at = at THEN w.used ELSE 0

\* int64(float64(tpd) * at), but for the rounding of the float product.
thr(k, tpd) == (tpd * limits[k].at) \div 100

\* The level is crossed only by what goes beyond it.
Crosses_Beyond(prev, sum, level) == prev <= level /\ sum > level

Crosses(prev, sum, level) == prev < level /\ sum >= level

\* The callbacks without the map of what was announced before.
Fires_Unmarked(k, tpd, day, prev, sum) ==
  LET new(kind, level) ==
        IF tpd > 0 /\ Crosses(prev, sum, level) THEN <<kind>> ELSE <<>>
  IN new("threshold", thr(k, tpd)) \o new("budget", tpd)

\* The callbacks a booking of tokens on a day asks for, in order.
Fires(k, tpd, day, prev, sum) ==
  LET new(kind, level) ==
        IF tpd > 0 /\ Crosses(prev, sum, level)
           /\ <<k, kind, day>> \notin crossed
        THEN <<kind>> ELSE <<>>
  IN new("threshold", thr(k, tpd)) \o new("budget", tpd)

-----------------------------------------------------------------------------
\* The key store.  A revoked key is found but disabled in the mock store, and
\* not found by the query of store.go; a query that fails finds nothing either.
Answers(k) ==
  IF store = "memory"
  THEN {IF revoked[k] THEN "disabled" ELSE "enabled"}
  ELSE {"unknown"} \cup (IF revoked[k] THEN {} ELSE {"enabled"})

Goes(r, stage) == req' = [req EXCEPT ![r].stage = stage, ![r].clock = 0]
Ends(r)        == req' = [req EXCEPT ![r] = Idle]
At(r, stage)   == req[r].stage = stage
Key(r)         == req[r].key

\* What follows the rpm check.
Budgeted(k) == IF limits[k].tpd > 0 THEN "day" ELSE "chat"

Arrive(r, k) ==
  /\ At(r, "idle")
  /\ \E found \in Answers(k) :
       IF found = "disabled" THEN Ends(r)   \* a 403
       ELSE req' = [req EXCEPT ![r] =
              [stage |-> CASE found = "unknown" -> "chat"
                           [] found = "enabled" /\ limits[k].rpm > 0 -> "minute"
                           [] OTHER -> Budgeted(k),
               key |-> k, clock |-> 0, tpd |-> 0, n |-> 0, fires |-> <<>>,
               fresh |-> TRUE]]
  /\ UNCHANGED <<now, keyVars, quotaVars, dispatchVars>>

ReadClock(r, stage, reading, then) ==
  /\ At(r, stage)
  /\ req' = [req EXCEPT ![r].stage = then, ![r].clock = reading]
  /\ UNCHANGED <<now, keyVars, quotaVars, dispatchVars>>

ReadMinute(r)  == ReadClock(r, "minute", now, "allow")
ReadDay(r)     == ReadClock(r, "day", Day(now), "check")
ReadBookDay(r) == ReadClock(r, "bookday", Day(now), "book")

\* Limiter.Allow, under the lock: a refusal is a 429.
Allow(r) ==
  LET k == Key(r)
      w == InWindow(rpmWindow[k], req[r].clock)
      ok == w.used < limits[k].rpm
  IN /\ At(r, "allow")
     /\ rpmWindow' = [rpmWindow EXCEPT ![k] =
                        IF ok THEN [w EXCEPT !.used = @ + 1] ELSE w]
     /\ IF ok THEN Goes(r, Budgeted(k)) ELSE Ends(r)
     /\ UNCHANGED <<now, keyVars, dayWindow, crossed, told, dispatchVars>>

\* The hard cap compares with a budget of one token more.
OverTPD_Late(r) ==
  Spent(dayWindow[Key(r)], req[r].clock) > limits[Key(r)].tpd

OverTPD(r) == Spent(dayWindow[Key(r)], req[r].clock) >= limits[Key(r)].tpd

CheckBudget(r) ==
  /\ At(r, "check")
  /\ IF OverTPD(r) THEN Ends(r) ELSE Goes(r, "chat")
  /\ UNCHANGED <<now, keyVars, quotaVars, dispatchVars>>

\* The guard may block the request and the upstream may fail; neither books.
Chat(r) ==
  /\ At(r, "chat")
  /\ \/ Ends(r)
     \/ /\ dayWindow[Key(r)].used <= MaxTokens
        /\ \E n \in Replies :
             req' = [req EXCEPT ![r].stage = "requota", ![r].n = n]
  /\ UNCHANGED <<now, keyVars, quotaVars, dispatchVars>>

\* The second KeyQuota: the mock store returns the budget of a disabled key too.
Requota(r) ==
  /\ At(r, "requota")
  /\ \E found \in Answers(Key(r)) :
       IF req[r].n = 0 THEN Ends(r)
       ELSE req' = [req EXCEPT ![r].stage = "bookday",
              ![r].tpd = IF found = "unknown" THEN 0 ELSE limits[Key(r)].tpd]
  /\ UNCHANGED <<now, keyVars, quotaVars, dispatchVars>>

\* AddTokensWithBudget, under the lock.
Book(r) ==
  LET k == Key(r)
      day == req[r].clock
      prev == Spent(dayWindow[k], day)
      fires == Fires(k, req[r].tpd, day, prev, prev + req[r].n)
  IN /\ At(r, "book")
     /\ dayWindow' = [dayWindow EXCEPT ![k] =
                        [at |-> day, used |-> prev + req[r].n]]
     /\ crossed' = crossed \cup {<<k, fires[i], day>> : i \in DOMAIN fires}
     /\ told' = [t \in DOMAIN told |->
                   IF \E i \in DOMAIN fires : t = <<k, fires[i], day>>
                   THEN (IF told[t] < 2 THEN told[t] + 1 ELSE 2) ELSE told[t]]
     /\ IF fires = <<>> THEN Ends(r)
        ELSE req' = [req EXCEPT ![r].stage = "fire", ![r].fires = fires]
     /\ UNCHANGED <<now, keyVars, rpmWindow, dispatchVars>>

\* The callback without the toggle.
Fire_Untoggled(r) ==
  LET kind == Head(req[r].fires)
  IN /\ At(r, "fire")
     /\ Dispatch(Key(r), EventOf[kind], kind)
     /\ IF Len(req[r].fires) = 1 THEN Ends(r)
        ELSE req' = [req EXCEPT ![r].fires = Tail(@)]
     /\ UNCHANGED <<now, keyVars, quotaVars>>

\* One call of the callback, outside the lock: keys without the toggle are
\* passed over.
Fire(r) ==
  LET k == Key(r)
      kind == Head(req[r].fires)
  IN /\ At(r, "fire")
     /\ IF notify[k] THEN Dispatch(k, EventOf[kind], kind)
        ELSE UNCHANGED dispatchVars
     /\ IF Len(req[r].fires) = 1 THEN Ends(r)
        ELSE req' = [req EXCEPT ![r].fires = Tail(@)]
     /\ UNCHANGED <<now, keyVars, quotaVars>>

-----------------------------------------------------------------------------
Revoke(k) ==
  /\ ~revoked[k]
  /\ revoked' = [revoked EXCEPT ![k] = TRUE]
  /\ UNCHANGED <<now, store, limits, notify, quotaVars, req, dispatchVars>>

\* A request is answered within the 60 seconds of the upstream client: it sees
\* the minute change at most once.
Tick ==
  /\ now < MaxTime /\ sending = {}
  /\ \A r \in Requests : ~At(r, "idle") => req[r].fresh
  /\ now' = now + 1
  /\ AgeSeen
  /\ req' = [r \in Requests |-> IF At(r, "idle") THEN Idle
                                ELSE [req[r] EXCEPT !.fresh = FALSE]]
  /\ UNCHANGED <<keyVars, quotaVars, webhook, sending, audit>>

\* The webhook stays what it is at the start: MetricAlerting changes it.
Post(m, ok) ==
  /\ Attempt(m, ok)
  /\ UNCHANGED <<now, req, keyVars, quotaVars>>

Next ==
  \/ \E r \in Requests, k \in Keys : Arrive(r, k)
  \/ \E r \in Requests : ReadMinute(r)
  \/ \E r \in Requests : Allow(r)
  \/ \E r \in Requests : ReadDay(r)
  \/ \E r \in Requests : CheckBudget(r)
  \/ \E r \in Requests : Chat(r)
  \/ \E r \in Requests : Requota(r)
  \/ \E r \in Requests : ReadBookDay(r)
  \/ \E r \in Requests : Book(r)
  \/ \E r \in Requests : Fire(r)
  \/ \E k \in Keys : Revoke(k)
  \/ Tick
  \/ \E m \in sending, ok \in BOOLEAN : Post(m, ok)

Spec == Init /\ [][Next]_vars

\* TokensToday, as the key list shows it.
TokensToday(k) == Spent(dayWindow[k], Day(now))

-----------------------------------------------------------------------------
\* A crossing is called out once per key, kind and day, even when the window of
\* the day was thrown away in between and its level is crossed again.
CrossingIsToldOnce == \A t \in DOMAIN told : told[t] <= 1

\* With a store that answers every quota read, a day whose counter stands at the
\* budget has been announced as over budget, and one whose counter stands at the
\* warning level as over that; a level that rounds to 0 is never announced.
LevelIsAnnounced ==
  store = "memory" =>
    \A k \in Keys :
      LET w == dayWindow[k]
          tpd == limits[k].tpd
          over(kind, level) ==
            level > 0 /\ w.used >= level => <<k, kind, w.at>> \in crossed
      IN tpd > 0 => over("threshold", thr(k, tpd)) /\ over("budget", tpd)

\* The hard cap is checked before the answer and booked after it: concurrent
\* requests overshoot the budget, each by one answer at most.
Admitted(k) ==
  {r \in Requests : req[r].stage \in {"chat", "requota", "bookday", "book"}
                    /\ Key(r) = k}
MaxReply == CHOOSE n \in Replies : \A m \in Replies : m <= n

OvershootIsBounded ==
  store = "memory" =>
    \A k \in Keys : limits[k].tpd > 0 =>
      TokensToday(k) + MaxReply * Cardinality(Admitted(k))
        <= limits[k].tpd - 1 + MaxReply * Cardinality(Requests)

\* A notice goes out only for a key whose toggle is on, after the crossing it
\* speaks of, and at most one of an event is under way at a time.
NoticesAreOwed ==
  \A m \in sending :
    /\ notify[m.subject] /\ m.event = EventOf[m.text]
    /\ \E d \in Days : <<m.subject, m.text, d>> \in crossed
    /\ \A o \in sending :
         o.subject = m.subject /\ o.event = m.event => o = m

\* AddTokens "adds n to today's accumulated tokens": what a day has accumulated
\* does not shrink while the day lasts.
TodayOnlyGrows ==
  [][\A k \in Keys : Day(now') = Day(now) => TokensToday(k)' >= TokensToday(k)]_vars
=============================================================================
