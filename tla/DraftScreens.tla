---------------------------- MODULE DraftScreens ----------------------------
(***************************************************************************)
(* The cards that edit one value and save it (web/src/components and the   *)
(* settings page): the guard policy, the masking policy, the configuration *)
(* of the server, which restarts with what is saved, and those that keep   *)
(* their value in the browser, the local model, the white label and the    *)
(* colour.  The fields stay open while a save is under way.                *)
(***************************************************************************)
EXTENDS Naturals, Overlay

CONSTANTS Texts,      \* what a field can hold, "" among it
          MaxAsked    \* calls of one visit at most

VARIABLES card, stored

None == "none"
Trim(text) == IF text = "a " THEN "a" ELSE text
Default == "b"

(* A card.  inBrowser: its value is kept there and known at once; dirty:   *)
(* what is to be saved is told by a flag of the edits, by comparing the    *)
(* fields, or by comparing them trimmed; told: where a failed save shows;  *)
(* restarts: the server restarts with what is saved, and is asked until it *)
(* has; becomes: the fields after a save, as saved or as typed; blank: the *)
(* default is saved for an empty text; undo: what its second button takes  *)
(* back, the fields or what is kept too; tests: it can be tried, and where *)
(* a failure of that shows; uploads: a file can be added to what is kept;  *)
(* atOnce: an edit is a save.                                              *)
Plain == [inBrowser |-> FALSE, dirty |-> "differs", told |-> "card", restarts |-> FALSE, becomes |-> "saved", blank |-> FALSE,
          undo |-> None, tests |-> None, uploads |-> FALSE, atOnce |-> FALSE, clears |-> TRUE]

PolicyLoad == [clears |-> TRUE]
PolicyUpdate == [dirty |-> "flag"]
PolicySave == [told |-> "toast"]
PolicyTest == [tests |-> "card"]
PolicyView == [undo |-> None]
GuardPolicyPanel == PolicyLoad ++ PolicyUpdate ++ PolicySave ++ PolicyTest ++ PolicyView ++ Plain

MaskingLoad == [clears |-> TRUE]
MaskingPatch == [dirty |-> "flag"]
MaskingSave == [told |-> "card"]
MaskingView == [undo |-> None]
MaskingPolicyPanel == MaskingLoad ++ MaskingPatch ++ MaskingSave ++ MaskingView ++ Plain

ReconfigureLoad == [clears |-> FALSE]
ReconfigureSave == [restarts |-> TRUE]
ReconfigureView == [undo |-> "fields"]
FieldRow == [dirty |-> "differs"]
ReconfigurePanel == ReconfigureLoad ++ ReconfigureSave ++ ReconfigureView ++ FieldRow ++ Plain

LocalModelSave == [inBrowser |-> TRUE, becomes |-> "saved"]
LocalModelTest == [tests |-> "report"]
LocalModelView == [undo |-> None]
LocalModelCard == LocalModelSave ++ LocalModelTest ++ LocalModelView ++ Plain

WhiteLabelSave == [inBrowser |-> TRUE, dirty |-> "trimmed", becomes |-> "typed", blank |-> TRUE]
WhiteLabelUpload == [uploads |-> TRUE]
WhiteLabelView == [undo |-> "kept"]
WhiteLabelCard == WhiteLabelSave ++ WhiteLabelUpload ++ WhiteLabelView ++ Plain

BrandColorCard == [inBrowser |-> TRUE, atOnce |-> TRUE] ++ Plain

Cards == {GuardPolicyPanel, MaskingPolicyPanel, ReconfigurePanel, LocalModelCard, WhiteLabelCard, BrandColorCard}

-----------------------------------------------------------------------------
Call(n, what, text) == [n |-> n, what |-> what, text |-> text, served |-> FALSE, ok |-> FALSE]

(* A visit: what is known to be stored, the fields, the flag of the edits, *)
(* whether a save or a test is under way, whether an error is on the card. *)
Visit(of) ==
    [of |-> of, view |-> IF of.inBrowser THEN Default ELSE None, draft |-> IF of.inBrowser THEN Default ELSE None,
     edited |-> FALSE, saving |-> FALSE, testing |-> FALSE, error |-> FALSE,
     calls |-> IF of.inBrowser THEN {} ELSE {Call(1, "load", None)}, asked |-> 1, newest |-> 0, overtaken |-> FALSE]
\* The server: what it runs with, what it restarts for and how that goes.
Stored == [value |-> Default, rolling |-> None, phase |-> "ready"]

Loaded == card.view # None
dirty ==
    CASE card.of.dirty = "flag" -> card.edited
      [] card.of.dirty = "trimmed" -> Trim(card.draft) # card.view
      [] OTHER -> card.draft # card.view

Asking(c, what, text) == [c EXCEPT !.asked = @ + 1, !.calls = @ \cup {Call(c.asked + 1, what, text)}]

update(text) ==
    /\ Loaded
    /\ card' = [card EXCEPT !.draft = text, !.edited = TRUE, !.view = IF card.of.atOnce THEN text ELSE @]
    /\ stored' = IF card.of.atOnce THEN [stored EXCEPT !.value = text] ELSE stored

Revert ==
    /\ Loaded
    /\ \/ /\ card.of.undo = "fields" /\ dirty /\ ~card.saving
          /\ card' = [card EXCEPT !.draft = card.view] /\ UNCHANGED stored
       \/ /\ card.of.undo = "kept"
          /\ card' = [card EXCEPT !.draft = Default, !.view = Default] /\ stored' = [stored EXCEPT !.value = Default]

\* A save in the browser.
SaveHere ==
    /\ card.of.inBrowser /\ dirty
    /\ LET kept == IF card.of.blank /\ Trim(card.draft) = "" THEN Default ELSE Trim(card.draft)
       IN  /\ card' = [card EXCEPT !.view = kept, !.draft = IF card.of.becomes = "saved" THEN kept ELSE @]
           /\ stored' = [stored EXCEPT !.value = kept]
\* A file is read and added to what was kept when it was picked.
Upload ==
    /\ card.of.uploads /\ card.asked < MaxAsked
    /\ card' = Asking(card, "upload", card.view)
    /\ UNCHANGED stored
AnswerUpload(c, ok) ==
    /\ c \in card.calls /\ c.what = "upload"
    /\ card' = [card EXCEPT !.calls = @ \ {c}, !.view = IF ok THEN c.text ELSE @]
    /\ stored' = [stored EXCEPT !.value = IF ok THEN c.text ELSE @]

save ==
    /\ ~card.of.inBrowser /\ Loaded /\ dirty /\ ~card.saving /\ card.asked < MaxAsked
    /\ card' = [Asking(card, "save", card.draft) EXCEPT !.saving = TRUE, !.error = FALSE]
    /\ UNCHANGED stored
runTest ==
    /\ card.of.tests # None /\ Loaded /\ ~card.testing /\ card.asked < MaxAsked
    /\ card' = [Asking(card, "test", None) EXCEPT !.testing = TRUE]
    /\ UNCHANGED stored

\* The server answers a load with what it runs with; a saved policy is in force, a saved configuration restarts it.
Serve(c, ok) ==
    /\ c \in card.calls /\ ~c.served /\ c.what # "upload"
    /\ card' = [card EXCEPT !.calls = (@ \ {c}) \cup
                   {[c EXCEPT !.served = TRUE, !.ok = ok,
                         !.text = IF c.what = "load" THEN stored.value ELSE IF c.what = "poll" THEN stored.phase ELSE c.text]}]
    /\ stored' = IF c.what # "save" \/ ~ok THEN stored
                 ELSE IF card.of.restarts THEN [stored EXCEPT !.rolling = c.text, !.phase = "reconfiguring"]
                 ELSE [stored EXCEPT !.value = c.text]
Rollout(ok) ==
    /\ stored.phase = "reconfiguring"
    /\ stored' = [value |-> IF ok THEN stored.rolling ELSE stored.value, rolling |-> None, phase |-> IF ok THEN "ready" ELSE "failed"]
    /\ UNCHANGED card

Answered(c) == [card EXCEPT !.calls = @ \ {c}]
Came(c) == c \in card.calls /\ c.served /\ c.ok

AnswerLoad(c) ==
    /\ Came(c) /\ c.what = "load"
    /\ card' = [Answered(c) EXCEPT !.view = c.text, !.draft = c.text, !.overtaken = c.n < card.newest,
                    !.newest = IF c.n > @ THEN c.n ELSE @,
                    !.error = @ /\ ~card.of.clears]
    /\ UNCHANGED stored

\* The answer keeps what was typed since the save, and calls it saved.
AnswerPolicy_KeepsFields(c) ==
    /\ Came(c) /\ c.what = "save" /\ ~card.of.restarts
    /\ card' = [Answered(c) EXCEPT !.view = c.text, !.edited = FALSE, !.saving = FALSE]
    /\ UNCHANGED stored
\* The policy the server answers takes the place of the fields, and of what was edited since.
AnswerPolicy(c) ==
    /\ Came(c) /\ c.what = "save" /\ ~card.of.restarts
    /\ card' = [Answered(c) EXCEPT !.draft = c.text, !.view = c.text, !.edited = FALSE, !.saving = FALSE]
    /\ UNCHANGED stored

\* A saved configuration is asked after until its restart is over, then loaded.
AnswerConfig(c) ==
    /\ Came(c) /\ c.what = "save" /\ card.of.restarts
    /\ card' = Asking(Answered(c), "poll", None)
    /\ UNCHANGED stored
poll(c) ==
    /\ Came(c) /\ c.what = "poll"
    /\ card' = IF c.text = "reconfiguring" THEN [Answered(c) EXCEPT !.calls = @ \cup {Call(c.n, "poll", None)}]
               ELSE [Asking(Answered(c), "load", None) EXCEPT !.saving = FALSE, !.error = @ \/ c.text = "failed"]
    /\ UNCHANGED stored

AnswerTest(c) ==
    /\ Came(c) /\ c.what = "test"
    /\ card' = [Answered(c) EXCEPT !.testing = FALSE]
    /\ UNCHANGED stored

\* A call fails, or its answer is lost.
Fail(c) ==
    /\ c \in card.calls /\ c.what # "upload"
    /\ card' = [Answered(c) EXCEPT !.saving = @ /\ c.what \in {"load", "test"}, !.testing = @ /\ c.what # "test",
                    !.error = @ \/ (IF c.what = "test" THEN card.of.tests = "card" ELSE c.what # "save" \/ card.of.told = "card")]
    /\ UNCHANGED stored

DraftNext ==
    \/ \E text \in Texts : update(text)
    \/ Revert \/ SaveHere \/ Upload \/ save \/ runTest
    \/ \E ok \in BOOLEAN : Rollout(ok) \/ \E c \in card.calls : Serve(c, ok) \/ AnswerUpload(c, ok)
    \/ \E c \in card.calls : AnswerLoad(c) \/ AnswerPolicy(c) \/ AnswerConfig(c) \/ poll(c) \/ AnswerTest(c) \/ Fail(c)

-----------------------------------------------------------------------------
(* A card that offers nothing to save shows what is stored: once nothing   *)
(* is under way and no error is on it, unless loads came out of order.     *)
CleanMeansSaved ==
    Loaded /\ card.calls = {} /\ ~card.saving /\ ~card.error /\ ~card.overtaken /\ ~dirty
        => Trim(card.draft) = Trim(stored.value)
=============================================================================
