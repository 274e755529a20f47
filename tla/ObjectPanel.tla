----------------------------- MODULE ObjectPanel -----------------------------
(***************************************************************************)
(* The panel of an object (web/src/components/ObjectView.tsx), the form on *)
(* it that acts on the object (ActionForm.tsx) and the side that applies   *)
(* an action (web/src/api/mock.ts, applyAction).  The panel keeps a trail  *)
(* of objects beside what its page knows of the URL and loads the last one *)
(* live; its form stays when the object changes.  The command palette      *)
(* writes the URL too (Layout.tsx), of which the page learns nothing.  A   *)
(* form states the revision it was shown with; the forms on the cards of   *)
(* alerts and of the agent state none.  All objects here are of the type   *)
(* that the verb is for.                                                   *)
(***************************************************************************)
EXTENDS Naturals, Sequences, SequencesExt

CONSTANTS Things,        \* the objects
          Healths,      \* what an object's status can be before an action
          MaxHops,       \* objects on a trail at most
          MaxActions     \* actions of this and other consoles at most

VARIABLES panel,         \* the console
          ontology       \* the other side

Registry == INSTANCE Actions

None == "none"
NotStated == 0

Url(obj, objstack) == [obj |-> obj, objstack |-> objstack]
Closed == Url(None, <<>>)
Trail(url) == IF url.obj = None THEN <<>> ELSE Append(url.objstack, url.obj)
HeadOf(stack) == IF stack = <<>> THEN None ELSE Last(stack)

(* address is the browser's URL and url what the page knows of it.         *)
(* astray: the palette wrote the address after the page and the browser    *)
(* did; popped: the browser went to an entry with the same object.  data,  *)
(* load and confirm hold at most one thing: the object shown, the one      *)
(* being loaded, the text in the dialog that asks for the object's id.     *)
Arrived(verb, caps, url) ==
    [verb |-> verb, caps |-> caps, url |-> url, address |-> url, astray |-> FALSE, stack |-> Trail(url), popped |-> FALSE,
     data |-> {}, load |-> {url.obj}, confirm |-> {}, pending |-> {}]
Founded(statuses) ==
    [objects |-> [id \in Things |-> [status |-> statuses[id], revision |-> 1, resolved |-> FALSE]], actions |-> 0, calls |-> {}, applied |-> {}]

-----------------------------------------------------------------------------
(* The trail.                                                              *)

\* Another object at the end of the trail is loaded; the one before is shown until then.
Reloaded(p) == [p EXCEPT !.load = {HeadOf(p.stack)}]
Settled(p, before) == IF HeadOf(p.stack) = HeadOf(before.stack) THEN p ELSE Reloaded(p)
\* The form goes with the panel or with the object; what it sent does not.
Unmounted(p) == [p EXCEPT !.confirm = {}, !.pending = {}]

\* The page and the browser are of one URL again, whoever of them moved.
Agreed(p, url) == [p EXCEPT !.url = url, !.address = url, !.astray = FALSE]
\* The effect that seeds the trail with the object alone.
Follow_NoTrail(p, url) ==
    Settled(IF url.obj = p.url.obj THEN Agreed(p, url)
            ELSE [Agreed(p, url) EXCEPT !.stack = Trail(Url(url.obj, <<>>)), !.popped = FALSE], p)
\* The trail is taken from the URL only when the object there is another one.
Follow(p, url) ==
    Settled(IF url.obj = p.url.obj THEN Agreed(p, url)
            ELSE [Agreed(p, url) EXCEPT !.stack = Trail(url), !.popped = FALSE], p)

Snapshot(id) == [id |-> id, status |-> ontology.objects[id].status, revision |-> ontology.objects[id].revision]
Shown == panel.url.obj # None /\ panel.data # {}

OpenObject(id) ==
    /\ panel.url.obj = None
    /\ panel' = Follow(panel, Url(id, <<>>))
CloseObject ==
    /\ panel.url.obj # None
    /\ panel' = Unmounted(Follow(panel, Closed))
\* A neighbour, or an object that the evidence cites, which can be this one.
traverse(id) ==
    /\ Shown /\ panel.confirm = {} /\ Len(panel.stack) < MaxHops
    /\ panel' = Settled(Follow([panel EXCEPT !.stack = Append(@, id), !.popped = FALSE], Url(id, panel.stack)), panel)
back ==
    /\ Len(panel.stack) > 1 /\ panel.confirm = {}
    /\ LET next == Front(panel.stack)
       IN  panel' = Settled(Follow([panel EXCEPT !.stack = next, !.popped = FALSE], Url(Last(next), Front(next))), panel)
\* The list of relations or their graph: the URL is written with all that the page knows of it.
onRelViewChange ==
    /\ Shown /\ panel.confirm = {}
    /\ panel' = Agreed(panel, panel.url)
\* The browser goes to another entry of its history.
PopState(url) ==
    LET p == Follow(panel, url)
    IN  panel' = IF url.obj = None THEN Unmounted(p)
                 ELSE [p EXCEPT !.popped = @ \/ (url.obj = panel.url.obj /\ url # panel.url)]
\* The palette opens an object, by a hook of its own, or goes to the page it is on, without a query.
PaletteWrites(url) ==
    /\ url # panel.address
    /\ panel' = [panel EXCEPT !.address = url, !.astray = TRUE]

\* The interval of an open panel.
Tick ==
    /\ panel.stack # <<>>
    /\ panel' = Reloaded(panel)
\* What is read is shown (that it is old by then is a change right after it is shown); a load that failed,
\* for whatever reason, shows no object.
Deliver(head, ok) ==
    /\ head \in panel.load
    /\ LET got == IF ok THEN {Snapshot(id) : id \in {head} \ {None}} ELSE {}
           p == [panel EXCEPT !.load = {}, !.data = got]
       IN  panel' = IF got = {} THEN Unmounted(p) ELSE p

-----------------------------------------------------------------------------
(* The form, and the console's calls.                                      *)

Send(target, revision, typed) ==
    /\ ontology.actions < MaxActions
    /\ ontology' = [ontology EXCEPT !.actions = @ + 1, !.calls = @ \cup
           {[n |-> ontology.actions + 1, target |-> target, revision |-> revision, typed |-> typed, phase |-> "sent", ok |-> FALSE]}]
\* runAction: the form is busy until its call is answered.
RunAction(p, shown) ==
    /\ Send(shown.id, shown.revision, p.confirm)
    /\ panel' = [p EXCEPT !.pending = @ \cup {ontology.actions + 1}, !.confirm = {}]

\* A destructive verb asks for the object's id first.
onSubmit(shown) ==
    /\ Shown /\ shown \in panel.data /\ panel.pending = {} /\ panel.confirm = {}
    /\ Registry!EvaluateSubmission(panel.verb, panel.caps, shown.status)
    /\ IF Registry!IsDestructive(panel.verb)
         THEN panel' = [panel EXCEPT !.confirm = {""}] /\ UNCHANGED ontology
         ELSE RunAction(panel, shown)
TypeId(text) ==
    /\ panel.confirm \notin {{}, {text}}
    /\ panel' = [panel EXCEPT !.confirm = {text}]
Cancel ==
    /\ panel.confirm # {} /\ panel.pending = {}
    /\ panel' = [panel EXCEPT !.confirm = {}]
\* The text is compared with the object that is shown by now, and so is the revision that is stated.
onConfirm(shown) ==
    /\ Shown /\ shown \in panel.data /\ panel.pending = {} /\ panel.confirm = {shown.id}
    /\ RunAction(panel, shown)
\* The form on a card, of an object that the card names: the same questions, but no revision.
RunFromCard(id, status) ==
    /\ ~Shown /\ Registry!EvaluateSubmission(panel.verb, panel.caps, status)
    /\ Send(id, NotStated, {id})
    /\ UNCHANGED panel

\* An answer; the object is loaded anew after an action that was applied.
AnswerAction(c) ==
    /\ c \in ontology.calls /\ c.phase = "served"
    /\ ontology' = [ontology EXCEPT !.calls = @ \ {c}]
    /\ LET p == [panel EXCEPT !.pending = @ \ {c.n}]
       IN  panel' = IF c.ok /\ c.revision # NotStated THEN Reloaded(p) ELSE p
\* The connection breaks, before or after the call was served.
LoseAction(c) ==
    /\ c \in ontology.calls
    /\ ontology' = [ontology EXCEPT !.calls = @ \ {c}]
    /\ panel' = [panel EXCEPT !.pending = @ \ {c.n}]

-----------------------------------------------------------------------------
(* The other side.                                                         *)

\* What it finds against a call, in this order; the server's capabilities are those the console was told, and no
\* call comes twice, since each has a key of its own.
ApplyAction_AnyRevision(c, now) ==
    IF ~Registry!EvaluateSubmission(panel.verb, panel.caps, now.status) THEN "denied"
    ELSE IF panel.verb = "resolve" /\ now.resolved THEN "error"
    ELSE "ok"
ApplyAction(c, now) ==
    IF ~Registry!EvaluateSubmission(panel.verb, panel.caps, now.status) THEN "denied"
    ELSE IF c.revision # NotStated /\ c.revision < now.revision THEN "conflict"
    ELSE IF panel.verb = "resolve" /\ now.resolved THEN "error"
    ELSE "ok"

\* An applied action leaves its status for good and another revision.
Overridden(now) ==
    [now EXCEPT !.status = Registry!StateTransition(panel.verb, @), !.revision = @ + 1, !.resolved = panel.verb = "resolve"]
\* An object that is not there, not any more or not just now, is an error before all else.
Serve(c, there) ==
    /\ c \in ontology.calls /\ c.phase = "sent"
    /\ LET now == ontology.objects[c.target]
           outcome == IF there THEN ApplyAction(c, now) ELSE "error"
           answered == [ontology EXCEPT !.calls = (@ \ {c}) \cup {[c EXCEPT !.phase = "served", !.ok = outcome = "ok"]}]
       IN  ontology' = IF outcome = "ok"
                         THEN [answered EXCEPT !.objects[c.target] = Overridden(now),
                                   !.applied = {[target |-> c.target, stated |-> c.revision, typed |-> c.typed, found |-> now]}]
                       ELSE answered
\* Somebody else acts on the object.
ServeElse(id) ==
    /\ ontology.actions < MaxActions
    /\ ontology' = [ontology EXCEPT !.actions = @ + 1, !.objects[id] = Overridden(ontology.objects[id])]
\* What the object is derived from changes, without another revision, until an action overrides it.
Drift(id, status) ==
    /\ ontology.objects[id].revision = 1 /\ ontology.objects[id].status # status
    /\ ontology' = [ontology EXCEPT !.objects[id].status = status]
\* A resolved incident is snoozed in the inbox, which leaves no other revision.
SnoozeElse(id) ==
    /\ panel.verb = "resolve" /\ ontology.objects[id].resolved
    /\ ontology' = [ontology EXCEPT !.objects[id].resolved = FALSE]

\* What a URL of the page can say.
Urls == {url \in {Url(obj, objstack) : obj \in Things, objstack \in {<<>>} \cup {<<id>> : id \in Things}} :
             Len(Trail(url)) <= MaxHops} \cup {Closed}

PanelNext ==
    \/ /\ \/ CloseObject \/ back \/ onRelViewChange \/ Tick \/ Cancel
          \/ \E id \in Things : OpenObject(id) \/ traverse(id) \/ TypeId(id)
          \/ \E url \in Urls : PopState(url)
          \/ \E url \in {Url(id, <<>>) : id \in Things} \cup {Closed} : PaletteWrites(url)
          \/ \E head \in panel.load, ok \in BOOLEAN : Deliver(head, ok)
       /\ UNCHANGED ontology
    \/ \E shown \in panel.data : onSubmit(shown) \/ onConfirm(shown)
    \/ \E id \in Things, status \in Healths : RunFromCard(id, status)
    \/ \E c \in ontology.calls : AnswerAction(c) \/ LoseAction(c)
    \/ /\ \/ \E c \in ontology.calls, there \in BOOLEAN : Serve(c, there)
          \/ \E id \in Things : ServeElse(id) \/ SnoozeElse(id) \/ \E status \in Healths : Drift(id, status)
       /\ UNCHANGED panel

-----------------------------------------------------------------------------
(* The action applied last met the object as its form showed it: at the *)
(* revision the form stated, in a status the verb is allowed in, and a     *)
(* destructive verb with the id of that object typed, whatever the panel   *)
(* did between the dialog and the answer.                                  *)
ActionsAreAsShown ==
    \A a \in ontology.applied :
        /\ a.stated \in {NotStated, a.found.revision}
        /\ a.found.status \in Registry!ActionRegistry[panel.verb].allowedStatus
        /\ Registry!IsDestructive(panel.verb) => a.typed = {a.target}

(* The trail on the panel is the one in the browser's URL, unless the      *)
(* palette wrote that after the page and the browser did, and unless the   *)
(* browser went to an entry with the same object and another trail; and    *)
(* the object shown is the last of the trail, unless that is being loaded. *)
PanelIsOfTheUrl ==
    /\ ~panel.astray => /\ HeadOf(panel.stack) = panel.address.obj
                        /\ ~panel.popped => panel.stack = Trail(panel.address)
    /\ panel.load = {} => \A shown \in panel.data : shown.id = HeadOf(panel.stack)
=============================================================================
