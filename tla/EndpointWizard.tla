---------------------------- MODULE EndpointWizard ----------------------------
(***************************************************************************)
(* The wizard that deploys an endpoint (web/src/pages/Endpoints.tsx): the  *)
(* draft is shown to the server in a dry run and then created.  A card     *)
(* with a preset, a model of Harbor or another access forgets the dry run; *)
(* the same fields changed by hand, the name and the others do not; and    *)
(* all of them stay open while a dry run is under way.                     *)
(*                                                                         *)
(* A draft is its preset (the pattern and the figures; the access is       *)
(* picked like one), its model and its name.                               *)
(***************************************************************************)
EXTENDS Naturals

CONSTANTS Picks,      \* what a preset and a model can be
          Fields,     \* what can be typed as a name, "" among it
          MaxRuns     \* dry runs and creations of one visit at most

VARIABLE wizard

None == "none"
Empty(pick) == [preset |-> pick, model |-> "", name |-> ""]

(* A dry run, and the fields (history) that were changed while it was      *)
(* under way or by hand since.                                             *)
NoPreview == [of |-> None, dry_run_ok |-> FALSE, loose |-> {}]
Sent(what, form, of, loose) == [what |-> what, form |-> form, of |-> of, loose |-> loose]

Closed(pick) == [open |-> FALSE, form |-> Empty(pick), preview |-> NoPreview, busy |-> FALSE, calls |-> {}, runs |-> 0]

\* A name and a model (and a replica and a slice at least).
Complete(form) == form.name # "" /\ form.model # ""

\* The dry runs under way when some fields change.
Loosened(calls, fields) == {IF c.what = "preview" THEN [c EXCEPT !.loose = @ \cup fields] ELSE c : c \in calls}

\* The draft of last time is still there, its dry run is not.
OpenWizard ==
    /\ ~wizard.open
    /\ wizard' = [wizard EXCEPT !.open = TRUE, !.preview = NoPreview]
CloseWizard ==
    /\ wizard.open
    /\ wizard' = [wizard EXCEPT !.open = FALSE]

pickPreset(pick) ==
    /\ wizard.open
    /\ wizard' = [wizard EXCEPT !.form.preset = pick, !.preview = NoPreview, !.calls = Loosened(@, {"preset"})]

\* A model also names what has no name yet; the empty choice does not.
Modelled(form, pick) == [form EXCEPT !.model = pick, !.name = IF pick # "" /\ @ = "" THEN pick ELSE @]
\* Another model, and the dry run of the one before.
pickHarborModel_KeepsPreview(pick) ==
    /\ wizard.open
    /\ wizard' = [wizard EXCEPT !.form = Modelled(@, pick), !.calls = Loosened(@, {"model", "name"})]
pickHarborModel(pick) ==
    /\ wizard.open
    /\ wizard' = [wizard EXCEPT !.form = Modelled(@, pick), !.preview = NoPreview, !.calls = Loosened(@, {"model", "name"})]

\* By hand: a pattern or a figure, the id of a model or the way back to Harbor, which leaves none, the name.
EditField(field, value) ==
    /\ wizard.open
    /\ wizard' = [wizard EXCEPT !.form[field] = value, !.preview.loose = @ \cup {field}, !.calls = Loosened(@, {field})]

runPreview ==
    /\ wizard.open /\ ~wizard.busy /\ Complete(wizard.form) /\ wizard.runs < MaxRuns
    /\ wizard' = [wizard EXCEPT !.busy = TRUE, !.runs = @ + 1, !.calls = @ \cup {Sent("preview", wizard.form, None, {})}]
\* The answer is kept for whatever draft is there by now.
AnswerPreview(c, ok) ==
    /\ c \in wizard.calls /\ c.what = "preview"
    /\ wizard' = [wizard EXCEPT !.busy = FALSE, !.calls = @ \ {c}, !.preview = [of |-> c.form, dry_run_ok |-> ok, loose |-> c.loose]]
\* A dry run that fails leaves the one before it.
LosePreview(c) ==
    /\ c \in wizard.calls /\ c.what = "preview"
    /\ wizard' = [wizard EXCEPT !.busy = FALSE, !.calls = @ \ {c}]

\* What was dry-run is not looked at again, nor whether the draft is complete.
doCreate ==
    /\ wizard.open /\ ~wizard.busy /\ wizard.preview.dry_run_ok /\ wizard.runs < MaxRuns
    /\ wizard' = [wizard EXCEPT !.busy = TRUE, !.runs = @ + 1,
                      !.calls = @ \cup {Sent("create", wizard.form, wizard.preview.of, wizard.preview.loose)}]
\* Done: the wizard closes, even one that was opened anew, and its draft is empty again.
AnswerCreate(c, ok, pick) ==
    /\ c \in wizard.calls /\ c.what = "create"
    /\ wizard' = IF ok THEN [wizard EXCEPT !.busy = FALSE, !.calls = @ \ {c}, !.open = FALSE, !.form = Empty(pick), !.preview = NoPreview]
                 ELSE [wizard EXCEPT !.busy = FALSE, !.calls = @ \ {c}]

WizardNext ==
    \/ OpenWizard \/ CloseWizard \/ runPreview \/ doCreate
    \/ \E pick \in Picks : pickPreset(pick) \/ EditField("preset", pick)
    \/ \E pick \in Picks \cup {""} : pickHarborModel(pick) \/ EditField("model", pick)
    \/ \E text \in Fields : EditField("name", text)
    \/ \E c \in wizard.calls, ok \in BOOLEAN : AnswerPreview(c, ok) \/ AnswerCreate(c, ok, CHOOSE pick \in Picks : TRUE)
    \/ \E c \in wizard.calls : LosePreview(c)

-----------------------------------------------------------------------------
(* What is sent to be created passed a dry run with the same preset, the   *)
(* same model and the same name, but for the fields that somebody changed  *)
(* while that dry run was under way, or by hand after it: no pick of a     *)
(* preset or a model leaves a dry run of another one (setPreview(null)).   *)
CreatedWasDryRun ==
    \A c \in wizard.calls : c.what = "create" =>
        \A field \in DOMAIN c.form : c.form[field] = c.of[field] \/ field \in c.loose
=============================================================================
