-------------------------------- MODULE Toasts --------------------------------
(***************************************************************************)
(* The notices of the web client (web/src/toast.tsx): a stack of cards,    *)
(* the newest ones only.  An error and a notice of something under way     *)
(* stay, the others go after a while in which nobody pointed at them.  The *)
(* notice of a call is replaced by that of its outcome, under the same id. *)
(***************************************************************************)
EXTENDS Naturals, Sequences, SequencesExt

CONSTANTS MAX_STACK,           \* cards on the screen at most
          DEFAULT_DURATION,    \* of a notice that goes, in ticks
          MaxToasts            \* notices of one visit at most

VARIABLE toasts

Arrived == [items |-> <<>>, asked |-> 0, underWay |-> {}]

(* A notice and its card.  remaining is what the card's timer was or will  *)
(* be started with, elapsed the time it has run.  Three more are history:  *)
(* what the card showed first, whether it never showed anything else, and  *)
(* how long a timer of it has run in all.                                  *)
Region(type) == IF type = "error" THEN "alert" ELSE "status"
Stays(type) == type \in {"error", "pending"}
Card(id, type) ==
    [id |-> id, type |-> type, paused |-> FALSE, remaining |-> IF Stays(type) THEN 0 ELSE DEFAULT_DURATION, elapsed |-> 0,
     first |-> type, alone |-> TRUE, seen |-> 0]

Running(card) == ~Stays(card.type) /\ ~card.paused
Left(card) == IF card.elapsed >= card.remaining THEN 0 ELSE card.remaining - card.elapsed
\* The timer is cleared; what has passed of it is taken off.
Cleared_Whole(card) == [card EXCEPT !.elapsed = 0]
Cleared(card) == IF Running(card) THEN [card EXCEPT !.remaining = Left(card), !.elapsed = 0] ELSE card

(* Another notice of the same id takes the card over, with its timer, if   *)
(* it belongs to the same region, and begins a new one otherwise.          *)
Renewed(card, type) ==
    IF Region(card.type) # Region(type) THEN Card(card.id, type)
    ELSE [(IF Stays(card.type) = Stays(type) THEN card ELSE Cleared(card)) EXCEPT !.type = type, !.alone = FALSE]
Has(ts, id) == \E i \in DOMAIN ts.items : ts.items[i].id = id
Newest(items) == IF Len(items) > MAX_STACK THEN SubSeq(items, Len(items) - MAX_STACK + 1, Len(items)) ELSE items
upsert(ts, id, type) ==
    [ts EXCEPT !.items = Newest(IF Has(ts, id) THEN [i \in DOMAIN @ |-> IF @[i].id = id THEN Renewed(@[i], type) ELSE @[i]]
                                ELSE Append(@, Card(id, type)))]

-----------------------------------------------------------------------------
\* A notice of its own.
Notify(type) ==
    /\ toasts.asked < MaxToasts
    /\ toasts' = [upsert(toasts, toasts.asked + 1, type) EXCEPT !.asked = @ + 1]
\* A call begins, under a new id or again under that of an earlier one.
Begin(id) ==
    /\ toasts.asked < MaxToasts /\ id \notin toasts.underWay /\ (Has(toasts, id) \/ id = toasts.asked + 1)
    /\ toasts' = [upsert(toasts, id, "pending") EXCEPT !.asked = @ + 1, !.underWay = @ \cup {id}]
\* It ends; its notice is there again if it was closed or pushed out meanwhile.
Settle(id, type) ==
    /\ id \in toasts.underWay
    /\ toasts' = [upsert(toasts, id, type) EXCEPT !.underWay = @ \ {id}]

At(i, card) == toasts' = [toasts EXCEPT !.items[i] = card]
pause(i) ==
    /\ ~toasts.items[i].paused
    /\ At(i, [Cleared(toasts.items[i]) EXCEPT !.paused = TRUE])
resume(i) ==
    /\ toasts.items[i].paused
    /\ At(i, [toasts.items[i] EXCEPT !.paused = FALSE])
dismiss(i) == toasts' = [toasts EXCEPT !.items = RemoveAt(@, i)]

Due(card) == Running(card) /\ card.elapsed >= card.remaining
Expire(i) == Due(toasts.items[i]) /\ dismiss(i)
Later(card) == IF Running(card) THEN [card EXCEPT !.elapsed = @ + 1, !.seen = @ + 1] ELSE card
\* Time passes, and every timer fires in time.
Tick ==
    /\ \E i \in DOMAIN toasts.items : Running(toasts.items[i])
    /\ \A i \in DOMAIN toasts.items : ~Due(toasts.items[i])
    /\ toasts' = [toasts EXCEPT !.items = [i \in DOMAIN @ |-> Later(@[i])]]

ToastNext ==
    \/ Tick
    \/ \E type \in {"success", "error"} : Notify(type) \/ \E id \in toasts.underWay : Settle(id, type)
    \/ \E id \in 1 .. MaxToasts : Begin(id)
    \/ \E i \in DOMAIN toasts.items : pause(i) \/ resume(i) \/ dismiss(i) \/ Expire(i)

-----------------------------------------------------------------------------
(* A notice goes by itself when it was there for its time, not counting    *)
(* that in which somebody pointed at it, and no sooner when a call took    *)
(* its card over and ended well.  What is shown to be under way is, and    *)
(* nothing else.  (toast.tsx, ToastCard and the notices of calls.)         *)
ToastsKeepTheirTime ==
    \A i \in DOMAIN toasts.items :
        LET card == toasts.items[i]
        IN  /\ card.alone => card.seen <= DEFAULT_DURATION
            /\ Due(card) /\ ~Stays(card.first) => card.seen >= DEFAULT_DURATION
            /\ card.type = "pending" <=> card.id \in toasts.underWay

(* "success/info go by themselves, in ms" (toast.tsx:46): whatever goes    *)
(* had that time, the good outcome of a call as well.  The card of a call  *)
(* keeps the 0 that the timer of its first notice, which stays, would have *)
(* been started with (toast.tsx:145).                                      *)
NoticesHaveTheirTime ==
    \A i \in DOMAIN toasts.items : Due(toasts.items[i]) => toasts.items[i].seen >= DEFAULT_DURATION
=============================================================================
