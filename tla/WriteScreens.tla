----------------------------- MODULE WriteScreens -----------------------------
(***************************************************************************)
(* The screens that change something (web/src/pages, and the inbox drawer):*)
(* a list loaded from the server, controls on its rows, a form or a        *)
(* question before a call is sent, and the list loaded again after it.     *)
(* A dialog lies over the page, and Escape closes it at any time, also     *)
(* while its call is under way.  A call is served when it reaches the      *)
(* server and answered later; either way the connection may break.  And    *)
(* somebody else changes the same things from another screen.  What a      *)
(* thing is to the server is its level: absent, low (an enabled key, a     *)
(* user, an untreated incident) or high (a role that grants more, an       *)
(* acknowledged incident).                                                 *)
(***************************************************************************)
EXTENDS Naturals, FiniteSets, Overlay

CONSTANTS Things,     \* what the list can hold
          MaxSent,    \* calls of one visit at most
          MaxOthers   \* changes by somebody else during it at most

VARIABLES screen, server

None == "none"
NotLoaded == <<>>
ASSUME NothingIsNoThing == None \notin Things
Levels == {"absent", "low", "high"}

(* A control: the capability it needs, what stands before its call ("form" *)
(* and "question": a dialog; "inline": a form on the page; "click":        *)
(* nothing), whose call it waits for, the level it leaves the thing at     *)
(* (None: as it was), the dialog an answer closes and whether the list is  *)
(* loaded again.                                                           *)
Verb(cap, before, waits, leaves, closes, reloads) ==
    [cap |-> cap, before |-> before, waits |-> waits, leaves |-> leaves, closes |-> closes, reloads |-> reloads]

KeysVerbs == [issue |-> Verb("keys.write", "form", "all", "low", "issue", TRUE),
              revoke |-> Verb("keys.write", "question", "all", "absent", "revoke", TRUE)]
EndpointVerbs == [create |-> Verb("endpoints.write", "form", "all", "low", "create", TRUE),
                  delete |-> Verb("endpoints.write", "question", "all", "absent", "delete", TRUE)]
EndpointKeyVerbs == [issueOfRow |-> Verb("keys.write", "form", "all", None, None, FALSE),
                     issueOfPanel |-> Verb(None, "form", "all", None, None, FALSE)]
\* A role that grants more is asked about; one that grants less is sent at once and waits for nothing.
UserVerbs == [add |-> Verb("users.write", "form", "all", "low", "add", TRUE),
              promote |-> Verb("users.write", "question", "all", "high", "promote", TRUE),
              demote |-> Verb("users.write", "click", None, "low", "promote", TRUE),
              remove |-> Verb("users.write", "question", "all", "absent", "remove", TRUE)]
RuleVerbs == [create |-> Verb("credentials", "inline", "all", "low", "create", TRUE),
              remove |-> Verb("credentials", "click", "all", "absent", None, TRUE)]
CredentialVerbs == [save |-> Verb("credentials", "inline", "all", "low", "save", TRUE)]
\* The buttons of an incident wait for that incident's call only.
InboxVerbs == [ack |-> Verb(None, "click", "row", "high", None, TRUE),
               snooze |-> Verb("incident.write", "click", "row", "low", None, TRUE),
               resolve |-> Verb("incident.write", "click", "row", "absent", None, TRUE)]

(* On what a control stands: the levels of the rows that have it; the      *)
(* button of the page that adds is offered for what is not there, and also *)
(* before anything is loaded.                                              *)
KeysOffers == [issue |-> {"absent"}, revoke |-> {"low"}]
EndpointOffers == [create |-> {"absent"}, delete |-> {"low"}, issueOfRow |-> {"low", "high"}]
EndpointPanelOffers == [issueOfPanel |-> {"low", "high"}]
UserOffers == [add |-> {"absent"}, promote |-> {"low"}, demote |-> {"high"}, remove |-> {"low", "high"}]
RuleOffers == [create |-> {"absent"}, remove |-> {"low"}]
CredentialOffers == [save |-> {"absent", "low"}]
InboxOffers == [ack |-> {"low"}, snooze |-> {"low", "high"}, resolve |-> {"low", "high"}]

-----------------------------------------------------------------------------
(* The drafts of the forms, and what each form finds wrong with one.  A    *)
(* number field holds nothing, a number, or something below its range.     *)
KeysForms == [mode : {"select", "custom"}, app_id : {"", "app"}, app_name : {"", "app"},
              quota : {"", "5", "-1"}, alert_threshold : {"", "80", "200"}]
AppErrors(form) ==
    {f \in {"app_name"} : form.mode = "custom" /\ form.app_name = ""}
    \cup {f \in {"app_id"} : form.mode = "select" /\ form.app_id = ""}
    \cup {f \in {"quota"} : form.quota = "-1"}
KeysErrors(form) == AppErrors(form) \cup {f \in {"alert_threshold"} : form.alert_threshold = "200"}
\* The draft a form opens with: the first application, or a new one when there is none.
FirstApp(apps) == IF apps = {} THEN "" ELSE "app"
KeysDraft(apps) == [mode |-> IF apps = {} THEN "custom" ELSE "select", app_id |-> FirstApp(apps),
                    app_name |-> FirstApp(apps), quota |-> "", alert_threshold |-> "80"]
EndpointKeyDraft(apps) == [KeysDraft(apps) EXCEPT !.alert_threshold = ""]

UserForms == [email : {"", "nobody", "a@b.c"}, name : {"", "n"}]
UserErrors(form) == {f \in {"email"} : form.email # "a@b.c"} \cup {f \in {"name"} : form.name = ""}
\* An empty threshold is the number 0.
RuleForms == [name : {"", "n"}, alert_threshold : {"", "0.05", "five"}]
RuleErrors(form) == {f \in {"name"} : form.name = ""} \cup {f \in {"alert_threshold"} : form.alert_threshold = "five"}
CredentialForms == [name : {"", "n"}, value : {"", "v"}]
CredentialErrors(form) == {f \in DOMAIN form : \A g \in DOMAIN form : form[g] = ""}
\* The wizard creates what has a dry run that passed, of whichever draft.
WizardForms == [dry_run_ok : BOOLEAN]
WizardErrors(form) == {f \in {"preview"} : ~form.dry_run_ok}

\* What may be wrong with the draft of a control that has one.
Drafts == [issue |-> {KeysErrors(form) : form \in KeysForms},
           issueOfRow |-> {AppErrors(form) : form \in KeysForms}, issueOfPanel |-> {AppErrors(form) : form \in KeysForms},
           add |-> {UserErrors(form) : form \in UserForms},
           create |-> {RuleErrors(form) : form \in RuleForms} \cup {WizardErrors(form) : form \in WizardForms},
           save |-> {CredentialErrors(form) : form \in CredentialForms}]
Opening(v, apps) ==
    CASE v = "issue" -> KeysErrors(KeysDraft(apps))
      [] v \in {"issueOfRow", "issueOfPanel"} -> AppErrors(EndpointKeyDraft(apps))
      [] v = "add" -> UserErrors([email |-> "", name |-> ""])
      [] v = "save" -> CredentialErrors([name |-> "", value |-> ""])
      [] v = "create" -> WizardErrors([dry_run_ok |-> FALSE])
      [] OTHER -> {}

-----------------------------------------------------------------------------
Page(name, verbs, offers) == [name |-> name, verbs |-> verbs, offers |-> offers]
Keys == Page("keys", KeysVerbs, KeysOffers)
Endpoints == Page("endpoints", EndpointVerbs ++ EndpointKeyVerbs, EndpointOffers ++ EndpointPanelOffers)
Users == Page("settings", UserVerbs, UserOffers)
AlertRulesCard == Page("settings", RuleVerbs, RuleOffers)
Credentials == Page("credentials", CredentialVerbs, CredentialOffers)
Notifications == Page("inbox", InboxVerbs, InboxOffers)
Pages == {Keys, Endpoints, Users, AlertRulesCard, Credentials, Notifications}

Call(n, verb, thing) == [n |-> n, verb |-> verb, thing |-> thing, served |-> FALSE, ok |-> FALSE, list |-> NotLoaded]
IsLoad(c) == c.verb = "load"
Writes == {c \in screen.calls : ~IsLoad(c)}

(* A visit: what the list shows (nothing before it is loaded), the dialog or  *)
(* form that is open and for what, whether its draft has errors, what the  *)
(* buttons wait for, the calls under way; and what explains a list that is *)
(* not the server's: the last load failed, answers came out of order, or   *)
(* (of each thing, the calls sent by then) a write was served and its      *)
(* answer lost, or somebody else changed it (how often: others).           *)
Visit(page, caps) ==
    [page |-> page, caps |-> caps, list |-> NotLoaded, dialog |-> None, target |-> None, errors |-> FALSE, busy |-> None,
     calls |-> {Call(1, "load", None)}, sent |-> 1, newest |-> 0, failed |-> FALSE, overtaken |-> FALSE,
     lost |-> [t \in Things |-> 0], others |-> 0]

\* Everything is offered when the capabilities could not be loaded.
can(cap) == cap = None \/ screen.caps # "observe"
Usable == screen.dialog \in {None} \cup {v \in DOMAIN screen.page.verbs : screen.page.verbs[v].before = "inline"}
Shown(t) == IF screen.list = NotLoaded THEN "absent" ELSE screen.list[t]
Offered(v, t) == can(screen.page.verbs[v].cap) /\ Usable /\ Shown(t) \in screen.page.offers[v]
Waits(v, t) ==
    CASE screen.page.verbs[v].waits = "all" -> screen.busy # None
      [] screen.page.verbs[v].waits = "row" -> screen.busy = t
      [] OTHER -> FALSE

Sending(s, v, t) == [s EXCEPT !.sent = @ + 1, !.calls = @ \cup {Call(s.sent + 1, v, t)}]

\* A form or a question opens.
Open(v, t) ==
    /\ screen.page.verbs[v].before # "click" /\ Offered(v, t)
    /\ screen' = [screen EXCEPT !.dialog = v, !.target = t, !.errors = Opening(v, {x \in Things : Shown(x) # "absent"}) # {}]
    /\ UNCHANGED server

\* The draft is edited.
Fill(errors) ==
    /\ screen.dialog \in DOMAIN Drafts /\ \E found \in Drafts[screen.dialog] : errors = (found # {})
    /\ screen' = [screen EXCEPT !.errors = errors]
    /\ UNCHANGED server

\* A dialog that is left sets its buttons free.
Cancel_FreesButtons ==
    /\ screen.dialog # None
    /\ screen' = [screen EXCEPT !.dialog = None, !.target = None, !.errors = FALSE, !.busy = None]
    /\ UNCHANGED server
\* Cancel, Escape and a click beside the dialog.
Cancel ==
    /\ screen.dialog # None
    /\ screen' = [screen EXCEPT !.dialog = None, !.target = None, !.errors = FALSE]
    /\ UNCHANGED server

\* A button that sends: of the open dialog, or of a row.
Send(v, t) ==
    /\ screen.sent + 1 < MaxSent /\ ~Waits(v, t)
    /\ IF screen.page.verbs[v].before = "click" THEN Offered(v, t)
       ELSE screen.dialog = v /\ screen.target = t /\ ~screen.errors
    /\ screen' = [Sending(screen, v, t) EXCEPT !.busy = t]
    /\ UNCHANGED server

\* The capability of the route; all routes of writes are there under "manage" only, but that of an acknowledgement.
Routed(c) == IsLoad(c) \/ screen.caps = "manage" \/ c.verb = "ack"

(* Nothing is changed on what is gone, and what is there is not added once *)
(* more: another one of its name is another thing.                         *)
Adds(v) == "absent" \in screen.page.offers[v]
Takes(c) == IF Adds(c.verb) THEN server[c.thing] \in screen.page.offers[c.verb] ELSE server[c.thing] # "absent"

Serve(c, ok) ==
    /\ c \in screen.calls /\ ~c.served
    /\ LET left == IF IsLoad(c) THEN None ELSE screen.page.verbs[c.verb].leaves
           done == ok /\ Routed(c) /\ (left = None \/ Adds(c.verb) \/ Takes(c))
       IN  /\ server' = IF done /\ left # None /\ Takes(c) THEN [server EXCEPT ![c.thing] = left] ELSE server
           /\ screen' = [screen EXCEPT !.calls = (@ \ {c}) \cup {[c EXCEPT !.served = TRUE, !.ok = done, !.list = server]}]

\* Another operator changes something, as any of the controls does.
Elsewhere(t, level) ==
    /\ screen.others < MaxOthers /\ level # server[t]
    /\ server' = [server EXCEPT ![t] = level]
    /\ screen' = [screen EXCEPT !.others = @ + 1, !.lost[t] = screen.sent]

\* The answer of a load. The inbox shows nothing of a failure; the card of the rules shows an empty list.
AnswerLoad(c, ok) ==
    /\ c \in screen.calls /\ IsLoad(c) /\ (ok => c.served /\ c.ok)
    /\ screen' = [screen EXCEPT !.calls = @ \ {c}, !.failed = ~ok,
                      !.list = IF ok THEN c.list ELSE IF screen.page = AlertRulesCard THEN [t \in Things |-> "absent"] ELSE @,
                      !.busy = IF screen.page = Notifications /\ c.n > 1 THEN None ELSE @,
                      !.overtaken = c.n < screen.newest,
                      !.newest = IF c.n > @ THEN c.n ELSE @]
    /\ UNCHANGED server

\* A write that is done, and a list that is not loaded again.
Done_NoReload(c) ==
    /\ c \in Writes /\ c.served /\ c.ok
    /\ screen' = [screen EXCEPT !.calls = @ \ {c}, !.dialog = None, !.target = None, !.errors = FALSE, !.busy = None]
    /\ UNCHANGED server
\* The answer of a write: its dialog is closed, whatever it is open for, and the list loaded again; the inbox waits for that.
Done(c) ==
    /\ c \in Writes /\ c.served /\ c.ok
    /\ LET verb == screen.page.verbs[c.verb]
           shut == screen.dialog # None /\ screen.dialog = verb.closes
           closed == [screen EXCEPT !.calls = @ \ {c}, !.dialog = IF shut THEN None ELSE @, !.target = IF shut THEN None ELSE @,
                          !.errors = IF shut THEN FALSE ELSE @,
                          !.busy = IF screen.page = Notifications THEN @ ELSE None]
       IN  screen' = IF verb.reloads THEN Sending(closed, "load", None) ELSE closed
    /\ UNCHANGED server

\* A refusal, a failure, or an answer that never comes: it is told, the dialog stays and the list is not loaded.
Failed(c) ==
    /\ c \in Writes
    /\ screen' = [screen EXCEPT !.calls = @ \ {c}, !.busy = None,
                      !.lost[c.thing] = IF c.served /\ c.ok THEN screen.sent ELSE @]
    /\ UNCHANGED server

WriteNext ==
    \/ \E v \in DOMAIN screen.page.verbs, t \in Things : Open(v, t) \/ Send(v, t)
    \/ \E errors \in BOOLEAN : Fill(errors)
    \/ Cancel
    \/ \E c \in screen.calls, ok \in BOOLEAN : Serve(c, ok) \/ AnswerLoad(c, ok)
    \/ \E c \in Writes : Done(c) \/ Failed(c)
    \/ \E t \in Things, level \in Levels : Elsewhere(t, level)

-----------------------------------------------------------------------------
(* Where every button waits for the page's call, a second write is never   *)
(* sent before the first is answered: not after Escape, not from another   *)
(* row, not from another dialog (busy).                                    *)
WritesDoNotOverlap ==
    (\A v \in DOMAIN screen.page.verbs : screen.page.verbs[v].waits = "all") => Cardinality(Writes) <= 1

(* Once nothing is under way and the last load came through, and came last *)
(* (the load after every write), the list is right about every thing, but  *)
(* for those that nothing was loaded of since a write whose answer was     *)
(* lost, or since somebody else changed them.                              *)
ListCatchesUp ==
    screen.calls = {} /\ screen.list # NotLoaded /\ ~screen.failed /\ ~screen.overtaken =>
        \A t \in Things : screen.newest > screen.lost[t] => screen.list[t] = server[t]
=============================================================================
