--------------------------- MODULE WebScreensProofs ---------------------------
(***************************************************************************)
(* Proofs about the screens of the web client.  Each screen has an         *)
(* inductive invariant of its own; one lemma carries them from the screen  *)
(* to the client, where one screen is live at a time.                      *)
(***************************************************************************)
EXTENDS MCWebClient, FiniteSetTheorems, TLAPS

-----------------------------------------------------------------------------
(* A read.                                                                 *)

Phases == {"next", "fetching", "reading", "backoff"}
AnyStatus == Reads!Statuses \cup {Reads!NoStatus}
ReadType ==
    http \in [attempt : Nat, phase : Phases, status : AnyStatus, sent : Nat, result : SUBSET {"data", "error", "AbortError"},
              abortedIn : SUBSET [phase : Phases, status : AnyStatus], sentByAbort : Nat]

\* A request was sent for every attempt before this one, and for this one unless it is still to be sent.
SentForEachAttempt == http.sent = IF http.phase = "next" THEN http.attempt ELSE http.attempt + 1

\* Whoever was aborted sends nothing more, and stays in the phase of the abort until the failure is caught.
CutOffWhereItWas ==
    \A a \in http.abortedIn :
        /\ http.sent = http.sentByAbort
        /\ http.result \subseteq {"AbortError"} \/ (a.phase = "reading" /\ a.status # 200)
        /\ http.phase \in {"fetching", "reading"} => a = [phase |-> http.phase, status |-> http.status]

\* An error that is told to a caller who stayed comes from the last attempt, after its request; nobody waits for one more.
ErrorIsTheLast ==
    /\ http.result = {"error"} /\ http.abortedIn = {} => http.attempt = MAX_RETRY /\ http.phase # "next"
    /\ http.attempt <= MAX_RETRY
    /\ http.phase = "backoff" => http.attempt < MAX_RETRY

ReadInv == ReadType /\ SentForEachAttempt /\ CutOffWhereItWas /\ ErrorIsTheLast

\* A call begins without a request and without an end.
LEMMA ReadInit == Init => ReadInv
BY RetriesAreANumber
   DEF Init, ReadInv, ReadType, SentForEachAttempt, CutOffWhereItWas, ErrorIsTheLast, Phases, AnyStatus,
       Reads!getJSON, Reads!NoStatus, Reads!Statuses

\* What a failure does to a read keeps the invariant, when the failure is an abort for those who were cut off.
LEMMA CaughtKeepsReads ==
    ASSUME ReadInv, NEW error \in {"error", "AbortError"}, http' = Reads!Caught(http, error),
           error = "error" => http.phase # "next",
           http.result = {},
           \A a \in http.abortedIn : error = "AbortError" \/ (a.phase = "reading" /\ a.status # 200),
           http.phase # "next" \/ http.abortedIn # {}
    PROVE  ReadInv'
BY RetriesAreANumber
   DEF ReadInv, ReadType, SentForEachAttempt, CutOffWhereItWas, ErrorIsTheLast, Phases, AnyStatus, Reads!Caught

\* Every step of a read keeps its invariant.
LEMMA ReadStep == ReadInv /\ [Reads!TransportNext]_http => ReadInv'
<1> SUFFICES ASSUME ReadInv, [Reads!TransportNext]_http PROVE ReadInv'
  OBVIOUS
<1> USE RetriesAreANumber DEF Reads!Ended, Reads!aborted
<1>1. CASE Reads!fetch
  <2>1. CASE http.abortedIn # {}
    <3>1. http.result = {} /\ http' = Reads!Caught(http, "AbortError")
      BY <1>1, <2>1 DEF Reads!fetch
    <3> QED BY <2>1, <3>1, CaughtKeepsReads
  <2>2. CASE http.abortedIn = {}
    <3>1. http.phase = "next" /\ http.result = {} /\ http' = [http EXCEPT !.phase = "fetching", !.sent = http.sent + 1]
      BY <1>1, <2>2 DEF Reads!fetch
    <3>2. ReadType'
      <4>1. "fetching" \in Phases
        BY DEF Phases
      <4>2. http.sent + 1 \in Nat
        BY DEF ReadInv, ReadType
      <4> QED BY <3>1, <4>1, <4>2 DEF ReadInv, ReadType
    <3>4. SentForEachAttempt'
      BY <3>1 DEF ReadInv, ReadType, SentForEachAttempt
    <3>3. http'.abortedIn = {} /\ http'.result = {} /\ http'.attempt = http.attempt /\ http'.phase = "fetching"
      BY <2>2, <3>1 DEF ReadInv, ReadType
    <3> QED BY <3>2, <3>3, <3>4 DEF ReadInv, CutOffWhereItWas, ErrorIsTheLast
  <2> QED BY <2>1, <2>2
<1>2. CASE Reads!Reject
  <2>1. http.phase # "next" /\ http.result = {} /\ \E error \in {"error", "AbortError"} :
            /\ http' = Reads!Caught(http, error)
            /\ http.abortedIn # {} => error = "AbortError"
    BY <1>2 DEF Reads!Reject
  <2> QED BY <2>1, CaughtKeepsReads
<1>3. CASE Reads!Read
  BY <1>3
     DEF Reads!Read, ReadInv, ReadType, SentForEachAttempt, CutOffWhereItWas, ErrorIsTheLast, Phases, AnyStatus
<1>4. CASE Reads!Refused
  <2>1. CASE Reads!isRetriableStatus(http.status) /\ http.attempt < MAX_RETRY
    BY <1>4, <2>1
       DEF Reads!Refused, ReadInv, ReadType, SentForEachAttempt, CutOffWhereItWas, ErrorIsTheLast, Phases, AnyStatus
  <2>2. CASE ~(Reads!isRetriableStatus(http.status) /\ http.attempt < MAX_RETRY)
    <3>1. http.phase = "reading" /\ http.status # 200 /\ http.result = {} /\ http' = Reads!Caught(http, "error")
      BY <1>4, <2>2 DEF Reads!Refused
    <3>2. \A a \in http.abortedIn : a.phase = "reading" /\ a.status # 200
      BY <3>1 DEF ReadInv, CutOffWhereItWas
    <3> QED BY <3>1, <3>2, CaughtKeepsReads
  <2> QED BY <2>1, <2>2
<1>5. CASE Reads!Wake
  <2>1. http.phase = "backoff" /\ http.result = {}
        /\ http' = [http EXCEPT !.phase = "next", !.attempt = http.attempt + 1, !.status = Reads!NoStatus]
    BY <1>5 DEF Reads!Wake
  <2>2. ReadType' /\ http'.attempt = http.attempt + 1 /\ http'.phase = "next" /\ http'.result = {}
    <3>1. http.attempt + 1 \in Nat /\ "next" \in Phases /\ Reads!NoStatus \in AnyStatus
      BY DEF ReadInv, ReadType, Phases, AnyStatus
    <3> QED BY <2>1, <3>1 DEF ReadInv, ReadType
  <2>3. ErrorIsTheLast'
    BY <2>1, <2>2 DEF ReadInv, ReadType, ErrorIsTheLast
  <2>4. SentForEachAttempt' /\ CutOffWhereItWas'
    BY <2>1 DEF ReadInv, ReadType, SentForEachAttempt, CutOffWhereItWas
  <2> QED BY <2>2, <2>3, <2>4 DEF ReadInv
<1>6. CASE Reads!Abort
  <2> DEFINE here == [phase |-> http.phase, status |-> http.status]
  <2>1. here \in [phase : Phases, status : AnyStatus] /\ here.phase = http.phase /\ here.status = http.status
    BY DEF ReadInv, ReadType
  <2>2. http.result = {} /\ http' = [http EXCEPT !.abortedIn = {here}, !.sentByAbort = http.sent]
    BY <1>6 DEF Reads!Abort
  <2> HIDE DEF here
  <2>3. ReadType'
    BY <2>1, <2>2 DEF ReadInv, ReadType
  <2>4. CutOffWhereItWas'
    BY <2>1, <2>2 DEF ReadInv, ReadType, CutOffWhereItWas, here
  <2> QED BY <2>2, <2>3, <2>4 DEF ReadInv, ReadType, SentForEachAttempt, ErrorIsTheLast
<1>7. ASSUME NEW status \in Reads!Statuses, Reads!Respond(status) PROVE ReadInv'
  BY <1>7
     DEF Reads!Respond, ReadInv, ReadType, SentForEachAttempt, CutOffWhereItWas, ErrorIsTheLast, Phases, AnyStatus
<1>8. CASE UNCHANGED http
  BY <1>8 DEF ReadInv, ReadType, SentForEachAttempt, CutOffWhereItWas, ErrorIsTheLast
<1> QED BY <1>1, <1>2, <1>3, <1>4, <1>5, <1>6, <1>7, <1>8 DEF Reads!TransportNext

(* A caller that leaves is not told anything more, and no request is sent  *)
(* for it; nobody sends more than the attempts allow, and one that stays   *)
(* is told of a passing failure after the last of them only                *)
(* (web/src/api/client.ts, getJSON).                                       *)
THEOREM ReadsAreQuiet == Spec => []AbortIsQuiet
<1>1. ReadInv => AbortIsQuiet
  BY RetriesAreANumber
     DEF ReadInv, ReadType, SentForEachAttempt, CutOffWhereItWas, ErrorIsTheLast, AbortIsQuiet, Reads!AbortIsQuiet, Reads!aborted
<1>2. ReadInv /\ [Next]_vars => ReadInv'
  <2>1. [Next]_vars => [Reads!TransportNext]_http
    BY DEF Next, vars
  <2> QED BY <2>1, ReadStep
<1> QED BY <1>1, <1>2, ReadInit, PTL DEF Spec

-----------------------------------------------------------------------------
(* The wizard.                                                             *)

Names == {"preset", "model", "name"}
Forms == [preset : Picks, model : Picks \cup {""}, name : Fields \cup Picks \cup {""}]
Previews == [of : Forms \cup {Wizard!None}, dry_run_ok : BOOLEAN, loose : SUBSET Names]
WizardCalls == [what : {"preview", "create"}, form : Forms, of : Forms \cup {Wizard!None}, loose : SUBSET Names]
WizardType ==
    wizard \in [open : BOOLEAN, form : Forms, preview : Previews, busy : BOOLEAN, calls : SUBSET WizardCalls, runs : Nat]

\* The wizard is busy as long as a call is under way, closed and opened anew or not, and there is only one.
OneCallAtATime ==
    /\ wizard.calls # {} => wizard.busy
    /\ \A c, d \in wizard.calls : c = d

\* One draft is the other but for some fields.
AgreesBut(form, of, loose) ==
    /\ form.preset = of.preset \/ "preset" \in loose
    /\ form.model = of.model \/ "model" \in loose
    /\ form.name = of.name \/ "name" \in loose

\* A dry run that is under way, and one that passed, is of the draft but for what was changed.
DryRunsAreOfTheDraft ==
    /\ \A c \in wizard.calls : c.what = "preview" => AgreesBut(wizard.form, c.form, c.loose)
    /\ wizard.preview.dry_run_ok => AgreesBut(wizard.form, wizard.preview.of, wizard.preview.loose)

\* And so is one whose draft is being created.
CreationsAgree == \A c \in wizard.calls : c.what = "create" => AgreesBut(c.form, c.of, c.loose)

WizardInv == WizardType /\ OneCallAtATime /\ DryRunsAreOfTheDraft /\ CreationsAgree

\* The wizard is closed, and nothing was sent.
LEMMA WizardInit == Init => WizardInv
<1> SUFFICES ASSUME Init PROVE WizardInv
  OBVIOUS
<1>1. FirstPick \in Picks /\ wizard = Wizard!Closed(FirstPick)
  BY ThereIsAPick DEF Init, FirstPick
<1>2. Wizard!Empty(FirstPick) \in Forms /\ Wizard!NoPreview \in Previews
  BY <1>1 DEF Wizard!Empty, Forms, Wizard!NoPreview, Previews
<1>3. WizardType
  BY <1>1, <1>2 DEF Wizard!Closed, WizardType
<1> QED BY <1>1, <1>3 DEF Wizard!Closed, Wizard!NoPreview, WizardInv, OneCallAtATime, DryRunsAreOfTheDraft, CreationsAgree

\* The dry runs under way when some fields change are the same calls, and theirs are the fields that changed.
LEMMA LoosenedCalls ==
    ASSUME NEW calls \in SUBSET WizardCalls, NEW fields \in SUBSET Names
    PROVE  /\ Wizard!Loosened(calls, fields) \in SUBSET WizardCalls
           /\ \A d \in Wizard!Loosened(calls, fields) : \E c \in calls :
                  /\ d.what = c.what /\ d.form = c.form /\ d.of = c.of
                  /\ d.loose = IF c.what = "preview" THEN c.loose \cup fields ELSE c.loose
           /\ (\A c, d \in calls : c = d) => \A c, d \in Wizard!Loosened(calls, fields) : c = d
<1> DEFINE Loose(c) == IF c.what = "preview" THEN [c EXCEPT !.loose = c.loose \cup fields] ELSE c
<1>1. Wizard!Loosened(calls, fields) = {Loose(c) : c \in calls}
  BY DEF Wizard!Loosened
<1>2. ASSUME NEW c \in WizardCalls
      PROVE  /\ Loose(c) \in WizardCalls
             /\ Loose(c).what = c.what /\ Loose(c).form = c.form /\ Loose(c).of = c.of
             /\ Loose(c).loose = IF c.what = "preview" THEN c.loose \cup fields ELSE c.loose
  <2>1. c.loose \cup fields \in SUBSET Names
    BY DEF WizardCalls
  <2> QED BY <2>1 DEF WizardCalls
<1> HIDE DEF Loose
<1> QED BY <1>1, <1>2

(* The draft changes, by a pick that forgets the dry run or by hand: the   *)
(* fields that changed are those of the dry runs that are kept.            *)
LEMMA ChangeKeepsWizard ==
    ASSUME WizardInv, NEW form \in Forms, NEW fields \in SUBSET Names, NEW preview \in Previews,
           preview.dry_run_ok =>
               /\ wizard.preview.dry_run_ok /\ preview.of = wizard.preview.of
               /\ preview.loose = wizard.preview.loose \cup fields,
           AgreesBut(form, wizard.form, fields),
           wizard' = [wizard EXCEPT !.form = form, !.preview = preview, !.calls = Wizard!Loosened(wizard.calls, fields)]
    PROVE  WizardInv'
<1> DEFINE calls == Wizard!Loosened(wizard.calls, fields)
<1>1. /\ calls \in SUBSET WizardCalls
      /\ \A d \in calls : \E c \in wizard.calls :
             /\ d.what = c.what /\ d.form = c.form /\ d.of = c.of
             /\ d.loose = IF c.what = "preview" THEN c.loose \cup fields ELSE c.loose
      /\ \A c, d \in calls : c = d
  BY LoosenedCalls DEF WizardInv, WizardType, OneCallAtATime
<1> HIDE DEF calls
<1>2. WizardType'
  BY <1>1 DEF WizardInv, WizardType, calls
<1>3. wizard'.calls = calls /\ wizard'.preview = preview /\ wizard'.busy = wizard.busy /\ wizard'.form = form
  BY DEF WizardInv, WizardType, calls
<1>4. OneCallAtATime'
  BY <1>1, <1>3 DEF WizardInv, OneCallAtATime
<1>5. \A of, loose : AgreesBut(wizard.form, of, loose) => AgreesBut(form, of, loose \cup fields)
  BY DEF AgreesBut
<1>6. ASSUME NEW d \in calls, d.what = "preview" PROVE AgreesBut(form, d.form, d.loose)
  <2>1. PICK c \in wizard.calls : d.what = c.what /\ d.form = c.form /\ d.loose = IF c.what = "preview" THEN c.loose \cup fields ELSE c.loose
    BY <1>1
  <2>2. AgreesBut(wizard.form, c.form, c.loose)
    BY <1>6, <2>1 DEF WizardInv, DryRunsAreOfTheDraft
  <2> QED BY <1>5, <1>6, <2>1, <2>2
<1>7. preview.dry_run_ok => AgreesBut(form, preview.of, preview.loose)
  BY <1>5 DEF WizardInv, DryRunsAreOfTheDraft
<1>8. ASSUME NEW d \in calls, d.what = "create" PROVE AgreesBut(d.form, d.of, d.loose)
  <2>1. PICK c \in wizard.calls : d.what = c.what /\ d.form = c.form /\ d.of = c.of /\ d.loose = IF c.what = "preview" THEN c.loose \cup fields ELSE c.loose
    BY <1>1
  <2> QED BY <1>8, <2>1 DEF WizardInv, CreationsAgree
<1> QED BY <1>2, <1>3, <1>4, <1>6, <1>7, <1>8 DEF WizardInv, DryRunsAreOfTheDraft, CreationsAgree

\* A dry run or a creation is sent.
LEMMA SendKeepsWizard ==
    ASSUME WizardInv, ~wizard.busy, NEW what \in {"preview", "create"}, NEW of \in Forms \cup {Wizard!None}, NEW loose \in SUBSET Names,
           what = "create" => AgreesBut(wizard.form, of, loose),
           wizard' = [wizard EXCEPT !.busy = TRUE, !.runs = wizard.runs + 1,
                         !.calls = wizard.calls \cup {Wizard!Sent(what, wizard.form, of, loose)}]
    PROVE  WizardInv'
<1> DEFINE call == Wizard!Sent(what, wizard.form, of, loose)
<1>1. wizard.calls \cup {call} = {call}
  BY DEF WizardInv, OneCallAtATime
<1>2. call \in WizardCalls /\ call.what = what /\ call.form = wizard.form /\ call.of = of /\ call.loose = loose
  BY DEF WizardInv, WizardType, Wizard!Sent, WizardCalls
<1>3. wizard.runs + 1 \in Nat
  BY DEF WizardInv, WizardType
<1> HIDE DEF call
<1>4. wizard' = [wizard EXCEPT !.busy = TRUE, !.runs = wizard.runs + 1, !.calls = {call}]
  BY <1>1 DEF call
<1>5. WizardType'
  <2>1. {call} \in SUBSET WizardCalls /\ wizard \in [open : BOOLEAN, form : Forms, preview : Previews, busy : BOOLEAN, calls : SUBSET WizardCalls, runs : Nat]
    BY <1>2 DEF WizardInv, WizardType
  <2> QED BY <1>3, <1>4, <2>1 DEF WizardType
<1>6. wizard'.calls = {call} /\ wizard'.busy = TRUE /\ wizard'.form = wizard.form /\ wizard'.preview = wizard.preview
  BY <1>4 DEF WizardInv, WizardType
<1>7. AgreesBut(wizard.form, wizard.form, loose)
  BY DEF AgreesBut
<1> QED BY <1>2, <1>5, <1>6, <1>7 DEF WizardInv, OneCallAtATime, DryRunsAreOfTheDraft, CreationsAgree

\* A call ends: none is under way, and the dry run there is by then is of the draft.
LEMMA EndKeepsWizard ==
    ASSUME WizardInv, NEW c \in wizard.calls, NEW open \in BOOLEAN, NEW form \in Forms, NEW preview \in Previews,
           preview.dry_run_ok => AgreesBut(form, preview.of, preview.loose),
           wizard' = [wizard EXCEPT !.busy = FALSE, !.calls = wizard.calls \ {c}, !.open = open, !.form = form, !.preview = preview]
    PROVE  WizardInv'
<1>1. wizard.calls \ {c} = {}
  BY DEF WizardInv, OneCallAtATime
<1>2. WizardType'
  BY <1>1 DEF WizardInv, WizardType
<1>3. wizard'.calls = {} /\ wizard'.form = form /\ wizard'.preview = preview
  BY <1>1 DEF WizardInv, WizardType
<1> QED BY <1>2, <1>3 DEF WizardInv, OneCallAtATime, DryRunsAreOfTheDraft, CreationsAgree

\* A field changed by hand.
LEMMA EditKeepsWizard ==
    ASSUME WizardInv, NEW field \in Names, NEW value, [wizard.form EXCEPT ![field] = value] \in Forms, Wizard!EditField(field, value)
    PROVE  WizardInv'
<1> DEFINE form == [wizard.form EXCEPT ![field] = value]
           preview == [wizard.preview EXCEPT !.loose = wizard.preview.loose \cup {field}]
<1>1. wizard' = [wizard EXCEPT !.form = form, !.preview = preview, !.calls = Wizard!Loosened(wizard.calls, {field})]
  BY DEF Wizard!EditField, WizardInv, WizardType, Previews
<1>2. preview \in Previews /\ preview.of = wizard.preview.of /\ preview.dry_run_ok = wizard.preview.dry_run_ok
      /\ preview.loose = wizard.preview.loose \cup {field}
  <2>1. wizard.preview \in Previews /\ wizard.preview.loose \cup {field} \in SUBSET Names
    BY DEF WizardInv, WizardType, Previews
  <2> QED BY <2>1 DEF Previews
<1>3. AgreesBut(form, wizard.form, {field})
  BY DEF WizardInv, WizardType, Forms, Names, AgreesBut
<1>4. {field} \in SUBSET Names /\ form \in Forms
  OBVIOUS
<1> HIDE DEF form, preview
<1> QED BY <1>1, <1>2, <1>3, <1>4, ChangeKeepsWizard

\* Every step of the wizard keeps its invariant.
LEMMA WizardStep == WizardInv /\ [Wizard!WizardNext]_wizard => WizardInv'
<1> SUFFICES ASSUME WizardInv, [Wizard!WizardNext]_wizard PROVE WizardInv'
  OBVIOUS
<1>0. /\ Wizard!NoPreview \in Previews /\ ~Wizard!NoPreview.dry_run_ok
      /\ wizard.form \in Forms /\ wizard.preview \in Previews /\ wizard.calls \in SUBSET WizardCalls /\ wizard.open \in BOOLEAN
  BY DEF Wizard!NoPreview, Previews, WizardInv, WizardType
<1>1. CASE Wizard!OpenWizard
  <2>1. wizard' = [wizard EXCEPT !.open = TRUE, !.preview = Wizard!NoPreview]
    BY <1>1 DEF Wizard!OpenWizard
  <2>2. WizardType'
    BY <1>0, <2>1 DEF WizardInv, WizardType
  <2> QED BY <1>0, <2>1, <2>2 DEF WizardInv, WizardType, OneCallAtATime, DryRunsAreOfTheDraft, CreationsAgree
<1>2. CASE Wizard!CloseWizard
  <2>1. wizard' = [wizard EXCEPT !.open = FALSE]
    BY <1>2 DEF Wizard!CloseWizard
  <2>2. WizardType'
    BY <2>1 DEF WizardInv, WizardType
  <2> QED BY <2>1, <2>2 DEF WizardInv, WizardType, OneCallAtATime, DryRunsAreOfTheDraft, CreationsAgree
<1>3. CASE Wizard!runPreview
  <2>1. {} \in SUBSET Names /\ Wizard!None \in Forms \cup {Wizard!None}
    OBVIOUS
  <2> QED BY <1>3, <2>1, SendKeepsWizard DEF Wizard!runPreview
<1>4. CASE Wizard!doCreate
  <2>1. wizard.preview.of \in Forms \cup {Wizard!None} /\ wizard.preview.loose \in SUBSET Names
    BY <1>0 DEF Previews
  <2>2. AgreesBut(wizard.form, wizard.preview.of, wizard.preview.loose)
    BY <1>4 DEF Wizard!doCreate, WizardInv, DryRunsAreOfTheDraft
  <2> QED BY <1>4, <2>1, <2>2, SendKeepsWizard DEF Wizard!doCreate
<1>5. ASSUME NEW pick \in Picks, Wizard!pickPreset(pick) PROVE WizardInv'
  <2> DEFINE form == [wizard.form EXCEPT !.preset = pick]
  <2>1. form \in Forms /\ AgreesBut(form, wizard.form, {"preset"}) /\ {"preset"} \in SUBSET Names
    BY <1>0 DEF Forms, Names, AgreesBut
  <2>2. wizard' = [wizard EXCEPT !.form = form, !.preview = Wizard!NoPreview, !.calls = Wizard!Loosened(wizard.calls, {"preset"})]
    BY <1>5 DEF Wizard!pickPreset, WizardInv, WizardType
  <2> HIDE DEF form
  <2> QED BY <1>0, <2>1, <2>2, ChangeKeepsWizard
<1>6. ASSUME NEW pick \in Picks \cup {""}, Wizard!pickHarborModel(pick) PROVE WizardInv'
  <2> DEFINE form == Wizard!Modelled(wizard.form, pick)
  <2>1. (IF pick # "" /\ wizard.form.name = "" THEN pick ELSE wizard.form.name) \in Fields \cup Picks \cup {""}
    BY <1>0 DEF Forms
  <2>2. form \in Forms /\ AgreesBut(form, wizard.form, {"model", "name"}) /\ {"model", "name"} \in SUBSET Names
    BY <1>0, <2>1 DEF Wizard!Modelled, Forms, Names, AgreesBut
  <2>3. wizard' = [wizard EXCEPT !.form = form, !.preview = Wizard!NoPreview, !.calls = Wizard!Loosened(wizard.calls, {"model", "name"})]
    BY <1>6 DEF Wizard!pickHarborModel, WizardInv, WizardType
  <2> HIDE DEF form
  <2> QED BY <1>0, <2>2, <2>3, ChangeKeepsWizard
<1>7. ASSUME NEW pick \in Picks, Wizard!EditField("preset", pick) PROVE WizardInv'
  <2>1. [wizard.form EXCEPT !["preset"] = pick] \in Forms /\ "preset" \in Names
    BY <1>0 DEF Forms, Names
  <2> QED BY <1>7, <2>1, EditKeepsWizard
<1>8. ASSUME NEW pick \in Picks \cup {""}, Wizard!EditField("model", pick) PROVE WizardInv'
  <2>1. [wizard.form EXCEPT !["model"] = pick] \in Forms /\ "model" \in Names
    BY <1>0 DEF Forms, Names
  <2> QED BY <1>8, <2>1, EditKeepsWizard
<1>9. ASSUME NEW text \in Fields, Wizard!EditField("name", text) PROVE WizardInv'
  <2>1. [wizard.form EXCEPT !["name"] = text] \in Forms /\ "name" \in Names
    BY <1>0 DEF Forms, Names
  <2> QED BY <1>9, <2>1, EditKeepsWizard
<1>10. ASSUME NEW c \in wizard.calls, NEW ok \in BOOLEAN, Wizard!AnswerPreview(c, ok) PROVE WizardInv'
  <2> DEFINE preview == [of |-> c.form, dry_run_ok |-> ok, loose |-> c.loose]
  <2>1. wizard' = [wizard EXCEPT !.busy = FALSE, !.calls = wizard.calls \ {c}, !.open = wizard.open, !.form = wizard.form, !.preview = preview]
    BY <1>10 DEF Wizard!AnswerPreview, WizardInv, WizardType
  <2>2. preview \in Previews /\ AgreesBut(wizard.form, preview.of, preview.loose)
    BY <1>0, <1>10 DEF Wizard!AnswerPreview, WizardInv, DryRunsAreOfTheDraft, WizardCalls, Previews
  <2> HIDE DEF preview
  <2> QED BY <1>0, <2>1, <2>2, EndKeepsWizard
<1>11. ASSUME NEW c \in wizard.calls, Wizard!LosePreview(c) \/ Wizard!AnswerCreate(c, FALSE, CHOOSE pick \in Picks : TRUE) PROVE WizardInv'
  <2>1. wizard' = [wizard EXCEPT !.busy = FALSE, !.calls = wizard.calls \ {c}, !.open = wizard.open, !.form = wizard.form, !.preview = wizard.preview]
    BY <1>11 DEF Wizard!LosePreview, Wizard!AnswerCreate, WizardInv, WizardType
  <2>2. wizard.preview.dry_run_ok => AgreesBut(wizard.form, wizard.preview.of, wizard.preview.loose)
    BY DEF WizardInv, DryRunsAreOfTheDraft
  <2> QED BY <1>0, <2>1, <2>2, EndKeepsWizard
<1>12. ASSUME NEW c \in wizard.calls, Wizard!AnswerCreate(c, TRUE, CHOOSE pick \in Picks : TRUE) PROVE WizardInv'
  <2> DEFINE form == Wizard!Empty(CHOOSE pick \in Picks : TRUE)
  <2>1. form \in Forms
    BY ThereIsAPick DEF Wizard!Empty, Forms
  <2> HIDE DEF form
  <2>2. wizard' = [wizard EXCEPT !.busy = FALSE, !.calls = wizard.calls \ {c}, !.open = FALSE, !.form = form, !.preview = Wizard!NoPreview]
    BY <1>12 DEF Wizard!AnswerCreate, form
  <2> QED BY <1>0, <2>1, <2>2, EndKeepsWizard
<1>13. CASE UNCHANGED wizard
  BY <1>13 DEF WizardInv, WizardType, OneCallAtATime, DryRunsAreOfTheDraft, CreationsAgree
<1>14. ASSUME NEW c \in wizard.calls, NEW ok \in BOOLEAN, Wizard!AnswerCreate(c, ok, CHOOSE pick \in Picks : TRUE) PROVE WizardInv'
  BY <1>11, <1>12, <1>14
<1> QED BY <1>1, <1>2, <1>3, <1>4, <1>5, <1>6, <1>7, <1>8, <1>9, <1>10, <1>11, <1>13, <1>14 DEF Wizard!WizardNext

(* What is sent to be created passed a dry run with the same preset, model *)
(* and name, but for the fields that were changed while that dry run was   *)
(* under way or by hand after it (web/src/pages/Endpoints.tsx).            *)
THEOREM CreationsWereDryRun == Spec => []CreatedWasDryRun
<1>1. WizardInv => CreatedWasDryRun
  <2> SUFFICES ASSUME WizardInv, NEW c \in wizard.calls, c.what = "create", NEW field \in DOMAIN c.form
               PROVE  c.form[field] = c.of[field] \/ field \in c.loose
    BY DEF CreatedWasDryRun, Wizard!CreatedWasDryRun
  <2>1. c.form \in Forms /\ AgreesBut(c.form, c.of, c.loose)
    BY DEF WizardInv, WizardType, WizardCalls, CreationsAgree
  <2>2. field \in Names
    BY <2>1 DEF Forms, Names
  <2> QED BY <2>1, <2>2 DEF AgreesBut, Names
<1>2. WizardInv /\ [Next]_vars => WizardInv'
  <2>1. [Next]_vars => [Wizard!WizardNext]_wizard
    BY DEF Next, vars
  <2> QED BY <2>1, WizardStep
<1> QED BY <1>1, <1>2, WizardInit, PTL DEF Spec

-----------------------------------------------------------------------------
(* A screen that polls.                                                    *)

SomeDeps == Deps \cup {"1h"}
RowOrNone == Rows \cup {Polls!None}
Loads == [n : Nat, deps : SomeDeps, aborted : BOOLEAN]
PollStates ==
    [screen : Polls!Screens, deps : SomeDeps, enabled : BOOLEAN, paused : BOOLEAN, wasPaused : BOOLEAN,
     data : SUBSET [deps : SomeDeps, rows : SUBSET Rows], error : BOOLEAN, loading : BOOLEAN, loads : Nat,
     running : SUBSET Loads, sel : RowOrNone, only : RowOrNone]

\* A load that was not cut off is for what the screen depends on now; a screen that loads has such a load;
\* and the data of one that neither loads nor failed is for that, too.
LoadsAreOfTheDeps(p) == \A c \in p.running : c.aborted \/ c.deps = p.deps
LoadIsComing(p) == p.loading => \E c \in p.running : ~c.aborted
DataIsOfTheDeps(p) == p.loading \/ p.error \/ \E d \in p.data : d.deps = p.deps

PollInvOf(p) == p \in PollStates /\ LoadsAreOfTheDeps(p) /\ LoadIsComing(p) /\ DataIsOfTheDeps(p)
PollInv == PollInvOf(poll)

\* A load cuts off all others, so that nothing has to be known of them.
LEMMA LoadKeepsPoll ==
    ASSUME NEW p \in PollStates, DataIsOfTheDeps(p)
    PROVE  PollInvOf(Polls!load(p))
<1> DEFINE new == Polls!Load(p.loads + 1, p.deps)
           cut == {[c EXCEPT !.aborted = TRUE] : c \in p.running}
<1>1. Polls!load(p) = [p EXCEPT !.loads = p.loads + 1, !.running = cut \cup {new}]
  BY DEF Polls!load
<1>2. new \in Loads /\ ~new.aborted /\ new.deps = p.deps
  BY DEF PollStates, Loads, Polls!Load
<1>3. cut \in SUBSET Loads /\ \A c \in cut : c.aborted
  <2>1. \A c \in p.running : c \in Loads
    BY DEF PollStates
  <2>2. \A c \in Loads : [c EXCEPT !.aborted = TRUE] \in Loads /\ [c EXCEPT !.aborted = TRUE].aborted
    BY DEF Loads
  <2> QED BY <2>1, <2>2
<1>4. p.loads + 1 \in Nat
  BY DEF PollStates
<1> HIDE DEF new, cut
<1>5. Polls!load(p) \in PollStates
  <2>1. cut \cup {new} \in SUBSET Loads
    BY <1>2, <1>3
  <2> QED BY <1>1, <1>4, <2>1 DEF PollStates
<1>6. /\ Polls!load(p).running = cut \cup {new} /\ Polls!load(p).deps = p.deps /\ Polls!load(p).data = p.data
      /\ Polls!load(p).loading = p.loading /\ Polls!load(p).error = p.error
  BY <1>1 DEF PollStates
<1> QED BY <1>2, <1>3, <1>5, <1>6 DEF PollInvOf, LoadsAreOfTheDeps, LoadIsComing, DataIsOfTheDeps

\* The effect of the interval loads, or only notes that it is paused.
LEMMA IntervalKeepsPoll == ASSUME NEW p, PollInvOf(p) PROVE PollInvOf(Polls!interval(p))
<1>0. p \in PollStates /\ p.paused \in BOOLEAN
  BY DEF PollInvOf, PollStates
<1>1. \A w \in BOOLEAN : PollInvOf([p EXCEPT !.wasPaused = w])
  BY DEF PollInvOf, PollStates, LoadsAreOfTheDeps, LoadIsComing, DataIsOfTheDeps
<1>2. PollInvOf(Polls!load([p EXCEPT !.wasPaused = FALSE]))
  BY <1>1, LoadKeepsPoll DEF PollInvOf
<1> QED BY <1>0, <1>1, <1>2 DEF Polls!interval

\* A screen mounts with its first load under way.
LEMMA PollInit == Init => PollInv
<1> SUFFICES ASSUME Init PROVE PollInv
  OBVIOUS
<1>1. PICK on \in Polls!Screens, deps \in SomeDeps, sel \in RowOrNone : poll = Polls!Mounted(on, deps, sel)
  BY DEF Init, Polls!Screens, SomeDeps, RowOrNone, Polls!None
<1>2. Polls!Load(1, deps) \in Loads /\ Polls!Load(1, deps).deps = deps /\ ~Polls!Load(1, deps).aborted
  BY DEF Polls!Load, Loads
<1>3. (on.off # "static") \in BOOLEAN /\ Polls!None \in RowOrNone
  BY DEF RowOrNone
<1>4. poll \in PollStates
  BY <1>1, <1>2, <1>3 DEF Polls!Mounted, PollStates
<1>5. poll.running = {Polls!Load(1, deps)} /\ poll.deps = deps /\ poll.loading = TRUE
  BY <1>1 DEF Polls!Mounted
<1> QED BY <1>2, <1>4, <1>5 DEF PollInv, PollInvOf, LoadsAreOfTheDeps, LoadIsComing, DataIsOfTheDeps

\* An answer of the load that counts, or the end of one that was cut off.
LEMMA AnswerKeepsPoll ==
    ASSUME PollInv, NEW c \in poll.running, NEW ok \in BOOLEAN, NEW rows \in SUBSET Rows, Polls!Answer(c, ok, rows)
    PROVE  PollInv'
<1> DEFINE came == ok /\ ~(poll.screen.partly /\ rows = {})
           data == IF came THEN {[deps |-> c.deps, rows |-> rows]} ELSE poll.data
<1>1. CASE c.aborted
  <2>1. poll' = [poll EXCEPT !.running = poll.running \ {c}]
    BY <1>1 DEF Polls!Answer
  <2>2. poll' \in PollStates
    BY <2>1 DEF PollInv, PollInvOf, PollStates
  <2> QED BY <1>1, <2>1, <2>2 DEF PollInv, PollInvOf, PollStates, LoadsAreOfTheDeps, LoadIsComing, DataIsOfTheDeps
<1>2. CASE ~c.aborted
  <2>1. poll' = [poll EXCEPT !.running = poll.running \ {c}, !.loading = FALSE, !.error = ~came, !.data = data]
    BY <1>2 DEF Polls!Answer
  <2>2. data \in SUBSET [deps : SomeDeps, rows : SUBSET Rows] /\ (~came) \in BOOLEAN
    BY DEF PollInv, PollInvOf, PollStates, Loads
  <2>3. came => \E d \in data : d.deps = poll.deps
    BY <1>2 DEF PollInv, PollInvOf, LoadsAreOfTheDeps
  <2> HIDE DEF came, data
  <2>4. poll' \in PollStates
    BY <2>1, <2>2 DEF PollInv, PollInvOf, PollStates
  <2>5. poll'.running = poll.running \ {c} /\ poll'.loading = FALSE /\ poll'.error = ~came /\ poll'.data = data /\ poll'.deps = poll.deps
    BY <2>1 DEF PollInv, PollInvOf, PollStates
  <2> QED BY <2>3, <2>4, <2>5 DEF PollInv, PollInvOf, LoadsAreOfTheDeps, LoadIsComing, DataIsOfTheDeps
<1> QED BY <1>1, <1>2

\* Every step of a screen that polls keeps its invariant.
LEMMA PollStep == PollInv /\ [Polls!PollNext]_poll => PollInv'
<1> SUFFICES ASSUME PollInv, [Polls!PollNext]_poll PROVE PollInv'
  OBVIOUS
<1>0. poll \in PollStates /\ PollInvOf(poll)
  BY DEF PollInv, PollInvOf
<1>a. ASSUME NEW p, PollInvOf(p), poll' = p PROVE PollInv'
  BY <1>a DEF PollInv, PollInvOf, LoadsAreOfTheDeps, LoadIsComing, DataIsOfTheDeps
<1>1. ASSUME NEW deps \in Deps, Polls!ChangeDeps(deps) PROVE PollInv'
  <2> DEFINE p == [poll EXCEPT !.deps = deps, !.loading = TRUE]
  <2>1. p \in PollStates /\ p.loading
    BY <1>0 DEF PollStates, SomeDeps
  <2>2. PollInvOf(Polls!load(p))
    BY <2>1, LoadKeepsPoll DEF DataIsOfTheDeps
  <2>3. PollInvOf(Polls!interval(Polls!load(p)))
    BY <2>2, IntervalKeepsPoll
  <2>4. poll' = Polls!interval(Polls!load(p))
    BY <1>1 DEF Polls!ChangeDeps
  <2> QED BY <1>a, <2>3, <2>4
<1>2. CASE Polls!Tick \/ Polls!Reload
  <2>1. poll' = Polls!load(poll)
    BY <1>2 DEF Polls!Tick, Polls!Reload
  <2>2. PollInvOf(Polls!load(poll))
    BY <1>0, LoadKeepsPoll DEF PollInvOf
  <2> QED BY <1>a, <2>1, <2>2
<1>3. ASSUME NEW paused \in BOOLEAN, Polls!setPaused(paused) PROVE PollInv'
  <2>1. poll' = Polls!interval([poll EXCEPT !.paused = paused])
    BY <1>3 DEF Polls!setPaused
  <2>2. PollInvOf([poll EXCEPT !.paused = paused])
    BY <1>0 DEF PollInvOf, PollStates, LoadsAreOfTheDeps, LoadIsComing, DataIsOfTheDeps
  <2> QED BY <1>a, <2>1, <2>2, IntervalKeepsPoll
<1>4. CASE Polls!toggleDemo
  <2>1. poll' = Polls!interval([poll EXCEPT !.enabled = ~poll.enabled])
    BY <1>4 DEF Polls!toggleDemo
  <2>2. \A on \in BOOLEAN : PollInvOf([poll EXCEPT !.enabled = on])
    BY <1>0 DEF PollInvOf, PollStates, LoadsAreOfTheDeps, LoadIsComing, DataIsOfTheDeps
  <2>3. PollInvOf([poll EXCEPT !.enabled = ~poll.enabled])
    BY <2>2
  <2> QED BY <1>a, <2>1, <2>3, IntervalKeepsPoll
<1>5. ASSUME NEW c \in poll.running, NEW ok \in BOOLEAN, NEW rows \in SUBSET Rows, Polls!Answer(c, ok, rows) PROVE PollInv'
  BY <1>5, AnswerKeepsPoll
<1>6. ASSUME NEW row \in Rows \cup {Polls!None}, Polls!Select(row) PROVE PollInv'
  <2>1. poll' = [poll EXCEPT !.sel = row]
    BY <1>6 DEF Polls!Select
  <2> QED BY <1>0, <2>1 DEF PollInv, PollInvOf, PollStates, LoadsAreOfTheDeps, LoadIsComing, DataIsOfTheDeps, RowOrNone
<1>7. ASSUME NEW row \in Rows \cup {Polls!None}, Polls!Narrow(row) PROVE PollInv'
  <2>1. poll' = [poll EXCEPT !.only = row]
    BY <1>7 DEF Polls!Narrow
  <2> QED BY <1>0, <2>1 DEF PollInv, PollInvOf, PollStates, LoadsAreOfTheDeps, LoadIsComing, DataIsOfTheDeps, RowOrNone
<1>8. CASE Polls!Close
  <2>1. poll' = [poll EXCEPT !.sel = Polls!None]
    BY <1>8 DEF Polls!Close
  <2> QED BY <1>0, <2>1 DEF PollInv, PollInvOf, PollStates, LoadsAreOfTheDeps, LoadIsComing, DataIsOfTheDeps, RowOrNone
<1>9. CASE UNCHANGED poll
  BY <1>0, <1>9, <1>a
<1> QED BY <1>1, <1>2, <1>3, <1>4, <1>5, <1>6, <1>7, <1>8, <1>9 DEF Polls!PollNext

(* Data that is neither stale nor being loaded is of what the screen is    *)
(* about now, and a screen that is blank or says it loads has a load that  *)
(* was not cut off under way (web/src/utils/usePolling.ts).                *)
THEOREM PolledDataIsCurrent == Spec => []DataIsCurrent
<1>1. PollInv => DataIsCurrent
  <2> SUFFICES ASSUME PollInv PROVE Polls!DataIsCurrent
    BY DEF DataIsCurrent
  <2> DEFINE coming == \E c \in poll.running : ~c.aborted
  <2>1. poll.loading => coming
    BY DEF PollInv, PollInvOf, LoadIsComing
  <2>2. ~poll.loading /\ ~poll.error => \E d \in poll.data : d.deps = poll.deps
    BY DEF PollInv, PollInvOf, DataIsOfTheDeps
  <2>3. Polls!OnScreen \subseteq {Polls!None} => coming \/ Polls!OnScreen = {Polls!None}
    <3> SUFFICES ASSUME Polls!OnScreen \subseteq {Polls!None}, ~coming PROVE Polls!OnScreen = {Polls!None}
      OBVIOUS
    <3>1. ~poll.loading
      BY <2>1
    <3>2. "scenario" \in Polls!OnScreen \/ "error" \in Polls!OnScreen \/ (~Polls!Demo /\ ~poll.error)
      BY DEF Polls!OnScreen
    <3>3. ~Polls!Demo /\ ~poll.error
      BY <3>2 DEF Polls!None
    <3>4. poll.data # {} /\ ~Polls!isStale
      BY <2>2, <3>1, <3>3 DEF Polls!isStale
    <3>5. \E shown : shown \in Polls!OnScreen
      BY <3>3, <3>4 DEF Polls!OnScreen
    <3> QED BY <3>5
  <2> QED BY <2>1, <2>2, <2>3 DEF Polls!DataIsCurrent
<1>2. PollInv /\ [Next]_vars => PollInv'
  <2>1. [Next]_vars => [Polls!PollNext]_poll
    BY DEF Next, vars
  <2> QED BY <2>1, PollStep
<1> QED BY <1>1, <1>2, PollInit, PTL DEF Spec

-----------------------------------------------------------------------------
(* The notices.                                                            *)

Types == {"success", "error", "pending"}
NoticeCards == [id : Nat, type : Types, paused : BOOLEAN, remaining : Nat, elapsed : Nat, first : Types, alone : BOOLEAN, seen : Nat]

\* What a card has been there for and what its timer still has to run make up its time.
Time(first) == IF Notices!Stays(first) THEN 0 ELSE DEFAULT_DURATION
InTime(notice) ==
    /\ notice \in NoticeCards
    /\ notice.elapsed <= notice.remaining
    /\ notice.seen + notice.remaining = Time(notice.first) + notice.elapsed

\* A card that shows something under way is that of a call under way; ids are given one after the other.
ToastInv ==
    /\ toasts \in [items : Seq(NoticeCards), asked : Nat, underWay : SUBSET Nat]
    /\ \A i \in DOMAIN toasts.items :
           LET notice == toasts.items[i]
           IN  InTime(notice) /\ notice.id <= toasts.asked /\ (notice.type = "pending" <=> notice.id \in toasts.underWay)
    /\ \A id \in toasts.underWay : id <= toasts.asked

\* A new card has all of its time before it.
LEMMA NewCard == ASSUME NEW id \in Nat, NEW type \in Types PROVE InTime(Notices!Card(id, type)) /\ Notices!Card(id, type).id = id /\ Notices!Card(id, type).type = type
<1>1. (IF Notices!Stays(type) THEN 0 ELSE DEFAULT_DURATION) \in Nat
  BY NoticesAreNumbers
<1>2. Notices!Card(id, type) \in NoticeCards
  BY <1>1 DEF Notices!Card, NoticeCards
<1> QED BY <1>1, <1>2 DEF Notices!Card, InTime, Time

\* Clearing a timer takes what has passed off what remains.
LEMMA ClearedCard ==
    ASSUME NEW notice, InTime(notice)
    PROVE  InTime(Notices!Cleared(notice)) /\ Notices!Cleared(notice).id = notice.id /\ Notices!Cleared(notice).type = notice.type
<1>1. CASE Notices!Running(notice)
  <2>1. Notices!Left(notice) \in Nat /\ Notices!Left(notice) = notice.remaining - notice.elapsed
    BY DEF InTime, NoticeCards, Notices!Left
  <2>2. Notices!Cleared(notice) = [notice EXCEPT !.remaining = Notices!Left(notice), !.elapsed = 0]
    BY <1>1 DEF Notices!Cleared
  <2>3. Notices!Cleared(notice) \in NoticeCards
    <3>1. notice \in NoticeCards
      BY DEF InTime
    <3>2. Notices!Left(notice) \in Nat
      BY <2>1
    <3>3. \A left \in Nat : [notice EXCEPT !.remaining = left, !.elapsed = 0] \in NoticeCards
      BY <3>1 DEF NoticeCards
    <3> QED BY <2>2, <3>2, <3>3
  <2>4. Time(notice.first) \in Nat
    BY NoticesAreNumbers DEF Time
  <2> QED BY <2>1, <2>2, <2>3, <2>4 DEF InTime, NoticeCards
<1>2. CASE ~Notices!Running(notice)
  BY <1>2 DEF Notices!Cleared
<1> QED BY <1>1, <1>2

\* A card whose paused flag or type changes keeps its time.
LEMMA RelabelledCard ==
    ASSUME NEW notice, InTime(notice)
    PROVE  /\ \A paused \in BOOLEAN : /\ InTime([notice EXCEPT !.paused = paused])
                                      /\ [notice EXCEPT !.paused = paused].id = notice.id
                                      /\ [notice EXCEPT !.paused = paused].type = notice.type
           /\ \A type \in Types : /\ InTime([notice EXCEPT !.type = type, !.alone = FALSE])
                                  /\ [notice EXCEPT !.type = type, !.alone = FALSE].id = notice.id
                                  /\ [notice EXCEPT !.type = type, !.alone = FALSE].type = type
BY DEF InTime, NoticeCards

\* A notice that takes a card over keeps its id.
LEMMA RenewedCard ==
    ASSUME NEW notice, InTime(notice), NEW type \in Types
    PROVE  InTime(Notices!Renewed(notice, type)) /\ Notices!Renewed(notice, type).id = notice.id /\ Notices!Renewed(notice, type).type = type
<1>1. notice.id \in Nat
  BY DEF InTime, NoticeCards
<1>2. InTime(Notices!Card(notice.id, type)) /\ Notices!Card(notice.id, type).id = notice.id /\ Notices!Card(notice.id, type).type = type
  BY <1>1, NewCard
<1>3. \A kept \in {notice, Notices!Cleared(notice)} :
          /\ InTime([kept EXCEPT !.type = type, !.alone = FALSE])
          /\ [kept EXCEPT !.type = type, !.alone = FALSE].id = notice.id
          /\ [kept EXCEPT !.type = type, !.alone = FALSE].type = type
  <2> SUFFICES ASSUME NEW kept \in {notice, Notices!Cleared(notice)}
               PROVE  /\ InTime([kept EXCEPT !.type = type, !.alone = FALSE])
                      /\ [kept EXCEPT !.type = type, !.alone = FALSE].id = notice.id
                      /\ [kept EXCEPT !.type = type, !.alone = FALSE].type = type
    OBVIOUS
  <2>1. InTime(kept) /\ kept.id = notice.id
    BY ClearedCard
  <2> QED BY <2>1, RelabelledCard
<1> QED BY <1>2, <1>3 DEF Notices!Renewed

\* The newest cards are some of the cards.
LEMMA NewestCards ==
    ASSUME NEW S, NEW items \in Seq(S)
    PROVE  Notices!Newest(items) \in Seq(S) /\ \A i \in DOMAIN Notices!Newest(items) : \E j \in DOMAIN items : Notices!Newest(items)[i] = items[j]
<1>1. CASE Len(items) > MAX_STACK
  <2> DEFINE from == Len(items) - MAX_STACK + 1
  <2>1. from \in 1 .. Len(items) + 1
    BY <1>1, NoticesAreNumbers
  <2>2. Notices!Newest(items) = SubSeq(items, from, Len(items))
    BY <1>1 DEF Notices!Newest
  <2> HIDE DEF from
  <2>3. Notices!Newest(items) \in Seq(S)
    BY <2>1, <2>2
  <2>4. \A i \in DOMAIN Notices!Newest(items) : (from + i - 1) \in DOMAIN items /\ Notices!Newest(items)[i] = items[from + i - 1]
    BY <2>1, <2>2
  <2> QED BY <2>3, <2>4
<1>2. CASE ~(Len(items) > MAX_STACK)
  BY <1>2 DEF Notices!Newest
<1> QED BY <1>1, <1>2

Upserted(ts, id, type) ==
    Notices!Newest(IF Notices!Has(ts, id)
                   THEN [i \in DOMAIN ts.items |-> IF ts.items[i].id = id THEN Notices!Renewed(ts.items[i], type) ELSE ts.items[i]]
                   ELSE Append(ts.items, Notices!Card(id, type)))

(* After a notice every card is either one of the others as it was, or of  *)
(* this id and shows this notice.                                          *)
LEMMA UpsertedCards ==
    ASSUME NEW ts, ts.items \in Seq(NoticeCards), \A i \in DOMAIN ts.items : InTime(ts.items[i]),
           NEW id \in Nat, NEW type \in Types
    PROVE  /\ Notices!upsert(ts, id, type) = [ts EXCEPT !.items = Upserted(ts, id, type)]
           /\ Upserted(ts, id, type) \in Seq(NoticeCards)
           /\ \A i \in DOMAIN Upserted(ts, id, type) :
                  LET notice == Upserted(ts, id, type)[i]
                  IN  /\ InTime(notice)
                      /\ \/ notice.id # id /\ \E j \in DOMAIN ts.items : notice = ts.items[j]
                         \/ notice.id = id /\ notice.type = type
<1> DEFINE renewed == [i \in DOMAIN ts.items |-> IF ts.items[i].id = id THEN Notices!Renewed(ts.items[i], type) ELSE ts.items[i]]
           all == IF Notices!Has(ts, id) THEN renewed ELSE Append(ts.items, Notices!Card(id, type))
           Fits(notice) == /\ InTime(notice)
                           /\ \/ notice.id # id /\ \E j \in DOMAIN ts.items : notice = ts.items[j]
                              \/ notice.id = id /\ notice.type = type
<1>1. Notices!upsert(ts, id, type) = [ts EXCEPT !.items = Upserted(ts, id, type)] /\ Upserted(ts, id, type) = Notices!Newest(all)
  BY DEF Notices!upsert, Upserted
<1>2. all \in Seq(NoticeCards) /\ \A i \in DOMAIN all : Fits(all[i])
  <2>1. CASE Notices!Has(ts, id)
    <3>1. \A i \in DOMAIN ts.items : Fits(renewed[i])
      BY RenewedCard
    <3>2. \A i \in DOMAIN ts.items : renewed[i] \in NoticeCards
      BY <3>1 DEF InTime
    <3>3. renewed \in Seq(NoticeCards) /\ DOMAIN renewed = DOMAIN ts.items
      <4>1. Len(ts.items) \in Nat /\ DOMAIN ts.items = 1 .. Len(ts.items)
        OBVIOUS
      <4>2. DOMAIN renewed = DOMAIN ts.items /\ renewed \in [1 .. Len(ts.items) -> NoticeCards]
        BY <3>2, <4>1
      <4> HIDE DEF renewed
      <4> QED BY <4>1, <4>2
    <3> QED BY <2>1, <3>1, <3>3
  <2>2. CASE ~Notices!Has(ts, id)
    <3> DEFINE new == Notices!Card(id, type)
    <3>1. new \in NoticeCards /\ Fits(new)
      BY NewCard DEF InTime
    <3>2. \A i \in DOMAIN ts.items : Fits(ts.items[i])
      BY <2>2 DEF Notices!Has
    <3> HIDE DEF new, Fits
    <3>3. Append(ts.items, new) \in Seq(NoticeCards) /\ \A i \in DOMAIN Append(ts.items, new) : Fits(Append(ts.items, new)[i])
      BY <3>1, <3>2
    <3> QED BY <2>2, <3>3 DEF new
  <2> QED BY <2>1, <2>2
<1> HIDE DEF all, Fits
<1>3. Notices!Newest(all) \in Seq(NoticeCards) /\ \A i \in DOMAIN Notices!Newest(all) : Fits(Notices!Newest(all)[i])
  BY <1>2, NewestCards
<1> QED BY <1>1, <1>3 DEF Fits

\* One card is changed and stays of its id, with its notice.
LEMMA CardKeepsToasts ==
    ASSUME ToastInv, NEW i \in DOMAIN toasts.items, NEW notice, InTime(notice),
           notice.id = toasts.items[i].id, notice.type = toasts.items[i].type, Notices!At(i, notice)
    PROVE  ToastInv'
<1> DEFINE items == [toasts.items EXCEPT ![i] = notice]
<1>1. toasts' = [toasts EXCEPT !.items = items]
  BY DEF Notices!At
<1>2. items \in Seq(NoticeCards) /\ DOMAIN items = DOMAIN toasts.items
      /\ \A j \in DOMAIN items : items[j] = IF j = i THEN notice ELSE toasts.items[j]
  BY DEF InTime, ToastInv
<1> HIDE DEF items
<1>3. toasts' \in [items : Seq(NoticeCards), asked : Nat, underWay : SUBSET Nat]
  BY <1>1, <1>2 DEF ToastInv
<1>4. toasts'.items = items /\ toasts'.asked = toasts.asked /\ toasts'.underWay = toasts.underWay
  BY <1>1 DEF ToastInv
<1> QED BY <1>2, <1>3, <1>4 DEF ToastInv

\* Cards go: those that are left are some of those that were there.
LEMMA FewerCardsKeepToasts ==
    ASSUME ToastInv, NEW i \in DOMAIN toasts.items, Notices!dismiss(i)
    PROVE  ToastInv'
<1> DEFINE items == Notices!RemoveAt(toasts.items, i)
<1>1. toasts' = [toasts EXCEPT !.items = items]
  BY DEF Notices!dismiss
<1>2. items \in Seq(NoticeCards) /\ \A j \in DOMAIN items : \E k \in DOMAIN toasts.items : items[j] = toasts.items[k]
  <2> DEFINE s == toasts.items
             front == SubSeq(s, 1, i - 1)
             back == SubSeq(s, i + 1, Len(s))
  <2>1. s \in Seq(NoticeCards) /\ i \in 1 .. Len(s)
    BY DEF ToastInv
  <2>2. front \in Seq(NoticeCards) /\ Len(front) = i - 1 /\ \A j \in 1 .. i - 1 : front[j] = s[j]
    BY <2>1
  <2>3. back \in Seq(NoticeCards) /\ Len(back) = Len(s) - i /\ \A j \in 1 .. Len(s) - i : back[j] = s[i + j]
    BY <2>1
  <2>4. items = front \o back
    BY DEF Notices!RemoveAt
  <2> HIDE DEF s, front, back, items
  <2>5. front \o back \in Seq(NoticeCards) /\ Len(front \o back) = Len(s) - 1
    BY <2>1, <2>2, <2>3
  <2>6. \A j \in 1 .. Len(s) - 1 : (front \o back)[j] = IF j <= i - 1 THEN s[j] ELSE s[j + 1]
    BY <2>1, <2>2, <2>3
  <2>7. \A j \in DOMAIN items : \E k \in DOMAIN s : items[j] = s[k]
    <3> SUFFICES ASSUME NEW j \in DOMAIN items PROVE \E k \in DOMAIN s : items[j] = s[k]
      OBVIOUS
    <3>1. j \in 1 .. Len(s) - 1
      BY <2>4, <2>5
    <3>2. DOMAIN s = 1 .. Len(s) /\ Len(s) \in Nat
      BY <2>1
    <3>3. j \in DOMAIN s /\ j + 1 \in DOMAIN s
      BY <3>1, <3>2
    <3>4. items[j] = s[j] \/ items[j] = s[j + 1]
      BY <2>4, <2>6, <3>1
    <3> QED BY <3>3, <3>4
  <2> QED BY <2>4, <2>5, <2>7 DEF s
<1> HIDE DEF items
<1>3. toasts' \in [items : Seq(NoticeCards), asked : Nat, underWay : SUBSET Nat]
  BY <1>1, <1>2 DEF ToastInv
<1>4. toasts'.items = items /\ toasts'.asked = toasts.asked /\ toasts'.underWay = toasts.underWay
  BY <1>1 DEF ToastInv
<1> QED BY <1>2, <1>3, <1>4 DEF ToastInv

\* A notice with what is asked and under way by then.
LEMMA NoticeKeepsToasts ==
    ASSUME ToastInv, NEW id \in Nat, NEW type \in Types, NEW asked \in Nat, NEW underWay \in SUBSET Nat,
           toasts' = [Notices!upsert(toasts, id, type) EXCEPT !.asked = asked, !.underWay = underWay],
           asked >= toasts.asked, id <= asked,
           \A other \in Nat : other # id => (other \in underWay <=> other \in toasts.underWay),
           type = "pending" <=> id \in underWay
    PROVE  ToastInv'
<1>1. toasts.items \in Seq(NoticeCards) /\ \A i \in DOMAIN toasts.items : InTime(toasts.items[i])
  BY DEF ToastInv
<1> DEFINE items == Upserted(toasts, id, type)
<1>2. /\ Notices!upsert(toasts, id, type) = [toasts EXCEPT !.items = items]
      /\ items \in Seq(NoticeCards)
      /\ \A i \in DOMAIN items :
             /\ InTime(items[i])
             /\ \/ items[i].id # id /\ \E j \in DOMAIN toasts.items : items[i] = toasts.items[j]
                \/ items[i].id = id /\ items[i].type = type
  BY <1>1, UpsertedCards
<1> HIDE DEF items
<1>3. toasts' = [toasts EXCEPT !.items = items, !.asked = asked, !.underWay = underWay]
  BY <1>2
<1>4. toasts' \in [items : Seq(NoticeCards), asked : Nat, underWay : SUBSET Nat]
  BY <1>2, <1>3 DEF ToastInv
<1>5. toasts'.items = items /\ toasts'.asked = asked /\ toasts'.underWay = underWay
  BY <1>3 DEF ToastInv
<1>6. \A i \in DOMAIN items : InTime(items[i]) /\ items[i].id <= asked /\ (items[i].type = "pending" <=> items[i].id \in underWay)
  <2> SUFFICES ASSUME NEW i \in DOMAIN items
               PROVE  items[i].id <= asked /\ (items[i].type = "pending" <=> items[i].id \in underWay)
    BY <1>2
  <2>1. CASE items[i].id = id /\ items[i].type = type
    BY <2>1
  <2>2. CASE items[i].id # id
    <3>1. PICK j \in DOMAIN toasts.items : items[i] = toasts.items[j]
      BY <1>2, <2>2
    <3>2. items[i].id \in Nat /\ items[i].id <= toasts.asked /\ (items[i].type = "pending" <=> items[i].id \in toasts.underWay)
      BY <3>1 DEF ToastInv, InTime, NoticeCards
    <3>3. toasts.asked \in Nat
      BY DEF ToastInv
    <3> QED BY <2>2, <3>2, <3>3
  <2> QED BY <1>2, <2>1, <2>2
<1>7. \A other \in underWay : other <= asked
  BY DEF ToastInv
<1> QED BY <1>4, <1>5, <1>6, <1>7 DEF ToastInv

\* Nothing is shown when the client starts.
LEMMA ToastInit == Init => ToastInv
<1>1. <<>> \in Seq(NoticeCards) /\ DOMAIN <<>> = {} /\ {} \in SUBSET Nat
  OBVIOUS
<1> QED BY <1>1 DEF Init, Notices!Arrived, ToastInv

\* Time passes: every timer that runs has time left, so that none of them runs over.
LEMMA TickKeepsToasts == ASSUME ToastInv, Notices!Tick PROVE ToastInv'
<1> DEFINE items == [i \in DOMAIN toasts.items |-> Notices!Later(toasts.items[i])]
<1>1. toasts' = [toasts EXCEPT !.items = items]
  BY DEF Notices!Tick
<1>2. ASSUME NEW notice, InTime(notice), ~Notices!Due(notice)
      PROVE  InTime(Notices!Later(notice)) /\ Notices!Later(notice).id = notice.id /\ Notices!Later(notice).type = notice.type
  <2>1. CASE Notices!Running(notice)
    <3>1. notice.elapsed < notice.remaining /\ notice \in NoticeCards
      BY <1>2, <2>1 DEF Notices!Due, InTime, NoticeCards
    <3>2. notice.elapsed + 1 \in Nat /\ notice.seen + 1 \in Nat
      BY <3>1 DEF NoticeCards
    <3> DEFINE later == [notice EXCEPT !.elapsed = notice.elapsed + 1, !.seen = notice.seen + 1]
    <3>3. later \in NoticeCards
      BY <3>1, <3>2 DEF NoticeCards
    <3>4. /\ later.elapsed = notice.elapsed + 1 /\ later.seen = notice.seen + 1 /\ later.remaining = notice.remaining
          /\ later.first = notice.first /\ later.id = notice.id /\ later.type = notice.type
      BY <3>1 DEF NoticeCards
    <3>5. Notices!Later(notice) = later
      BY <2>1 DEF Notices!Later
    <3>6. Time(notice.first) \in Nat /\ notice.elapsed \in Nat /\ notice.remaining \in Nat /\ notice.seen \in Nat
      BY <3>1, NoticesAreNumbers DEF Time, NoticeCards
    <3> HIDE DEF later
    <3>7. later.elapsed <= later.remaining /\ later.seen + later.remaining = Time(later.first) + later.elapsed
      BY <1>2, <3>1, <3>4, <3>6 DEF InTime
    <3> QED BY <3>3, <3>4, <3>5, <3>7 DEF InTime
  <2>2. CASE ~Notices!Running(notice)
    BY <1>2, <2>2 DEF Notices!Later
  <2> QED BY <2>1, <2>2
<1>3. DOMAIN items = DOMAIN toasts.items /\ \A i \in DOMAIN items : items[i] = Notices!Later(toasts.items[i])
  OBVIOUS
<1> HIDE DEF items
<1>4. \A i \in DOMAIN items : /\ InTime(items[i]) /\ items[i].id = toasts.items[i].id /\ items[i].type = toasts.items[i].type
                              /\ items[i] \in NoticeCards
  BY <1>2, <1>3 DEF ToastInv, Notices!Tick, InTime
<1>5. items \in Seq(NoticeCards)
  <2>1. Len(toasts.items) \in Nat /\ DOMAIN toasts.items = 1 .. Len(toasts.items)
    BY DEF ToastInv
  <2>2. items \in [1 .. Len(toasts.items) -> NoticeCards]
    BY <1>3, <1>4, <2>1 DEF items
  <2> QED BY <2>1, <2>2
<1>6. toasts' \in [items : Seq(NoticeCards), asked : Nat, underWay : SUBSET Nat]
  BY <1>1, <1>5 DEF ToastInv
<1>7. toasts'.items = items /\ toasts'.asked = toasts.asked /\ toasts'.underWay = toasts.underWay
  BY <1>1 DEF ToastInv
<1> QED BY <1>3, <1>4, <1>6, <1>7 DEF ToastInv

\* Every step of the notices keeps their invariant.
LEMMA ToastStep == ToastInv /\ [Notices!ToastNext]_toasts => ToastInv'
<1> SUFFICES ASSUME ToastInv, [Notices!ToastNext]_toasts PROVE ToastInv'
  OBVIOUS
<1>0. /\ toasts.asked \in Nat /\ toasts.asked + 1 \in Nat /\ toasts.underWay \in SUBSET Nat
      /\ \A i \in DOMAIN toasts.items : InTime(toasts.items[i])
  BY DEF ToastInv
<1>a. ASSUME NEW id, NEW type PROVE Notices!upsert(toasts, id, type).asked = toasts.asked /\ Notices!upsert(toasts, id, type).underWay = toasts.underWay
                                    /\ DOMAIN Notices!upsert(toasts, id, type) = {"items", "asked", "underWay"}
  BY DEF Notices!upsert, ToastInv
<1>1. ASSUME NEW type \in {"success", "error"}, Notices!Notify(type) PROVE ToastInv'
  <2> DEFINE up == Notices!upsert(toasts, toasts.asked + 1, type)
  <2>1. toasts' = [up EXCEPT !.asked = toasts.asked + 1]
    BY <1>1, <1>a DEF Notices!Notify
  <2>2. up.underWay = toasts.underWay /\ DOMAIN up = {"items", "asked", "underWay"}
    BY <1>a
  <2>3. up \in [{"items", "asked", "underWay"} -> {up.items, up.asked, up.underWay}]
    BY <2>2 DEF Notices!upsert
  <2>4. toasts' = [up EXCEPT !.asked = toasts.asked + 1, !.underWay = toasts.underWay]
    BY <2>1, <2>2, <2>3
  <2>5. toasts.asked + 1 \notin toasts.underWay
    BY <1>0 DEF ToastInv
  <2>6. type \in Types /\ type # "pending" /\ toasts.asked + 1 >= toasts.asked /\ toasts.asked + 1 <= toasts.asked + 1
    BY <1>0 DEF Types
  <2> HIDE DEF up
  <2>7. type = "pending" <=> toasts.asked + 1 \in toasts.underWay
    BY <2>5, <2>6
  <2> QED BY <1>0, <2>4, <2>6, <2>7, NoticeKeepsToasts DEF up
<1>2. ASSUME NEW type \in {"success", "error"}, NEW id \in toasts.underWay, Notices!Settle(id, type) PROVE ToastInv'
  <2> DEFINE up == Notices!upsert(toasts, id, type)
             underWay == toasts.underWay \ {id}
  <2>1. toasts' = [up EXCEPT !.underWay = underWay]
    BY <1>2, <1>a DEF Notices!Settle
  <2>2. up.asked = toasts.asked /\ DOMAIN up = {"items", "asked", "underWay"}
    BY <1>a
  <2>3. up \in [{"items", "asked", "underWay"} -> {up.items, up.asked, up.underWay}]
    BY <2>2 DEF Notices!upsert
  <2>4. toasts' = [up EXCEPT !.asked = toasts.asked, !.underWay = underWay]
    BY <2>1, <2>2, <2>3
  <2>5. underWay \in SUBSET Nat /\ id \in Nat /\ id <= toasts.asked /\ type \in Types /\ type # "pending" /\ id \notin underWay
    BY <1>0 DEF ToastInv, Types
  <2>6. \A other \in Nat : other # id => (other \in underWay <=> other \in toasts.underWay)
    OBVIOUS
  <2> HIDE DEF underWay
  <2>7. toasts.asked >= toasts.asked
    BY <1>0
  <2> QED BY <1>0, <2>4, <2>5, <2>6, <2>7, NoticeKeepsToasts
<1>3. ASSUME NEW id \in 1 .. MaxToasts, Notices!Begin(id) PROVE ToastInv'
  <2> DEFINE underWay == toasts.underWay \cup {id}
  <2>1. toasts' = [Notices!upsert(toasts, id, "pending") EXCEPT !.asked = toasts.asked + 1, !.underWay = underWay]
    BY <1>3, <1>a DEF Notices!Begin
  <2>2. id \in Nat /\ id <= toasts.asked + 1
    BY <1>0, <1>3 DEF Notices!Begin, Notices!Has, ToastInv
  <2>3. underWay \in SUBSET Nat /\ id \in underWay /\ "pending" \in Types /\ toasts.asked + 1 >= toasts.asked
    BY <1>0, <2>2 DEF Types
  <2>4. \A other \in Nat : other # id => (other \in underWay <=> other \in toasts.underWay)
    OBVIOUS
  <2> HIDE DEF underWay
  <2> QED BY <1>0, <2>1, <2>2, <2>3, <2>4, NoticeKeepsToasts
<1>4. ASSUME NEW i \in DOMAIN toasts.items, Notices!pause(i) PROVE ToastInv'
  <2> DEFINE notice == Notices!Cleared(toasts.items[i])
  <2>1. InTime(notice) /\ notice.id = toasts.items[i].id /\ notice.type = toasts.items[i].type
    BY <1>0, ClearedCard
  <2>2. Notices!At(i, [notice EXCEPT !.paused = TRUE])
    BY <1>4 DEF Notices!pause
  <2> HIDE DEF notice
  <2> QED BY <2>1, <2>2, RelabelledCard, CardKeepsToasts
<1>5. ASSUME NEW i \in DOMAIN toasts.items, Notices!resume(i) PROVE ToastInv'
  BY <1>0, <1>5, RelabelledCard, CardKeepsToasts DEF Notices!resume
<1>6. ASSUME NEW i \in DOMAIN toasts.items, Notices!dismiss(i) \/ Notices!Expire(i) PROVE ToastInv'
  BY <1>6, FewerCardsKeepToasts DEF Notices!Expire
<1>7. CASE Notices!Tick
  BY <1>7, TickKeepsToasts
<1>8. CASE UNCHANGED toasts
  BY <1>8 DEF ToastInv
<1> QED BY <1>1, <1>2, <1>3, <1>4, <1>5, <1>6, <1>7, <1>8 DEF Notices!ToastNext

(* A notice that took no other's card goes when it has been on the screen  *)
(* for its time, not counting that in which somebody pointed at it; one    *)
(* whose card began with a notice that goes, goes no sooner; and what is   *)
(* shown as under way is (web/src/toast.tsx).                              *)
THEOREM NoticesKeepTheirTime == Spec => []ToastsKeepTheirTime
<1>1. ToastInv => ToastsKeepTheirTime
  <2> SUFFICES ASSUME ToastInv, NEW i \in DOMAIN toasts.items
               PROVE  LET notice == toasts.items[i]
                      IN  /\ notice.alone => notice.seen <= DEFAULT_DURATION
                          /\ Notices!Due(notice) /\ ~Notices!Stays(notice.first) => notice.seen >= DEFAULT_DURATION
                          /\ notice.type = "pending" <=> notice.id \in toasts.underWay
    BY DEF ToastsKeepTheirTime, Notices!ToastsKeepTheirTime
  <2> DEFINE notice == toasts.items[i]
  <2>1. InTime(notice) /\ (notice.type = "pending" <=> notice.id \in toasts.underWay)
    BY DEF ToastInv
  <2>2. /\ notice.elapsed \in Nat /\ notice.remaining \in Nat /\ notice.seen \in Nat
        /\ Time(notice.first) \in Nat /\ Time(notice.first) <= DEFAULT_DURATION
        /\ ~Notices!Stays(notice.first) => Time(notice.first) = DEFAULT_DURATION
    BY <2>1, NoticesAreNumbers DEF InTime, NoticeCards, Time
  <2> HIDE DEF notice
  <2>3. notice.seen <= DEFAULT_DURATION
    BY <2>1, <2>2, NoticesAreNumbers DEF InTime
  <2>4. Notices!Due(notice) /\ ~Notices!Stays(notice.first) => notice.seen >= DEFAULT_DURATION
    BY <2>1, <2>2 DEF InTime, Notices!Due
  <2> QED BY <2>1, <2>3, <2>4 DEF notice
<1>2. ToastInv /\ [Next]_vars => ToastInv'
  <2>1. [Next]_vars => [Notices!ToastNext]_toasts
    BY DEF Next, vars
  <2> QED BY <2>1, ToastStep
<1> QED BY <1>1, <1>2, ToastInit, PTL DEF Spec

-----------------------------------------------------------------------------
(* The screens that write.                                                 *)

ScreenFields == {"page", "caps", "list", "dialog", "target", "errors", "busy", "calls", "sent", "newest", "failed", "overtaken", "lost", "others"}
CallFields == {"n", "verb", "thing", "served", "ok", "list"}

\* The calls are numbered as they are sent; a write is one of the page's verbs.
WriteType ==
    /\ DOMAIN screen = ScreenFields /\ screen.page \in Pages
    /\ screen.sent \in Nat /\ screen.newest \in Nat /\ screen.lost \in [Things -> Nat] /\ screen.newest <= screen.sent
    /\ DOMAIN server = Things
    /\ \A c \in screen.calls : DOMAIN c = CallFields /\ c.n \in Nat /\ c.n <= screen.sent
    /\ \A c \in Writes : c.verb \in DOMAIN screen.page.verbs /\ c.thing \in Things

\* Where every button waits for the page's call, the page waits as long as its one write is under way.
WaitsForAll == \A v \in DOMAIN screen.page.verbs : screen.page.verbs[v].waits = "all"
OneWrite == (\A c, d \in Writes : c = d) /\ (Writes # {} => screen.busy # None)

(* What explains that the load n, served, is not right about a thing: a    *)
(* write to it that was served and not answered, a load that was sent      *)
(* later and is under way or was answered, or, since, a lost answer of a   *)
(* write to it or somebody else's change.                                  *)
Effective(c) == c.served /\ c.ok /\ screen.page.verbs[c.verb].leaves # None
LaterLoad(n) == \E c \in screen.calls : IsLoad(c) /\ c.n > n
Explained(n, t) == (\E c \in Writes : Effective(c) /\ c.thing = t) \/ LaterLoad(n) \/ screen.lost[t] >= n
LoadsCatchUp ==
    \A c \in screen.calls : IsLoad(c) /\ c.served /\ c.ok =>
        \A t \in Things : c.list[t] = server[t] \/ screen.newest > c.n \/ Explained(c.n, t)
ShownListCatchesUp ==
    screen.list # NotLoaded /\ ~screen.failed /\ ~screen.overtaken =>
        \A t \in Things : screen.list[t] = server[t] \/ Explained(screen.newest, t)

WriteInv == WriteType /\ (WaitsForAll => OneWrite) /\ LoadsCatchUp /\ ShownListCatchesUp

\* On every page a write that leaves something else on the server is followed by a load; the inbox does not wait for all.
LEMMA WritesReload ==
    /\ \A on \in Pages : \A v \in DOMAIN on.verbs : on.verbs[v].leaves = None \/ on.verbs[v].reloads
    /\ ~\A v \in DOMAIN Notifications.verbs : Notifications.verbs[v].waits = "all"
<1> USE DEF Page, Verb, None
<1>1. \A v \in DOMAIN Keys.verbs : Keys.verbs[v].leaves = None \/ Keys.verbs[v].reloads
  BY DEF Keys, KeysVerbs
<1>2. \A v \in DOMAIN Endpoints.verbs : Endpoints.verbs[v].leaves = None \/ Endpoints.verbs[v].reloads
  <2>1. Endpoints.verbs = EndpointVerbs ++ EndpointKeyVerbs
    BY DEF Endpoints
  <2>2. \A v \in DOMAIN EndpointVerbs : EndpointVerbs[v].leaves = None \/ EndpointVerbs[v].reloads
    BY DEF EndpointVerbs
  <2>3. \A v \in DOMAIN EndpointKeyVerbs : EndpointKeyVerbs[v].leaves = None \/ EndpointKeyVerbs[v].reloads
    BY DEF EndpointKeyVerbs
  <2> HIDE DEF None
  <2>4. \A v \in DOMAIN (EndpointVerbs ++ EndpointKeyVerbs) :
            \/ v \in DOMAIN EndpointVerbs /\ (EndpointVerbs ++ EndpointKeyVerbs)[v] = EndpointVerbs[v]
            \/ v \in DOMAIN EndpointKeyVerbs /\ (EndpointVerbs ++ EndpointKeyVerbs)[v] = EndpointKeyVerbs[v]
    BY DEF ++
  <2> QED BY <2>1, <2>2, <2>3, <2>4
<1>3. \A v \in DOMAIN Users.verbs : Users.verbs[v].leaves = None \/ Users.verbs[v].reloads
  BY DEF Users, UserVerbs
<1>4. \A v \in DOMAIN AlertRulesCard.verbs : AlertRulesCard.verbs[v].leaves = None \/ AlertRulesCard.verbs[v].reloads
  BY DEF AlertRulesCard, RuleVerbs
<1>5. \A v \in DOMAIN Credentials.verbs : Credentials.verbs[v].leaves = None \/ Credentials.verbs[v].reloads
  BY DEF Credentials, CredentialVerbs
<1>6. \A v \in DOMAIN Notifications.verbs : Notifications.verbs[v].leaves = None \/ Notifications.verbs[v].reloads
  BY DEF Notifications, InboxVerbs
<1>7. "ack" \in DOMAIN Notifications.verbs /\ Notifications.verbs["ack"].waits # "all"
  BY DEF Notifications, InboxVerbs
<1> QED BY <1>1, <1>2, <1>3, <1>4, <1>5, <1>6, <1>7 DEF Pages

\* A page is opened with its first load under way.
LEMMA WriteInit == Init => WriteInv
<1> SUFFICES ASSUME Init PROVE WriteInv
  OBVIOUS
<1>1. PICK on \in Pages, caps \in {"manage", "observe"} : screen = Visit(on, caps)
  BY DEF Init, Pages
<1>2. screen.calls = {Call(1, "load", None)} /\ IsLoad(Call(1, "load", None))
  BY <1>1 DEF Visit, Call, IsLoad
<1>3. Writes = {}
  BY <1>2 DEF Writes
<1>4. /\ screen.page = on /\ screen.sent = 1 /\ screen.newest = 0 /\ screen.list = NotLoaded /\ DOMAIN screen = ScreenFields
      /\ screen.lost \in [Things -> Nat]
  BY <1>1 DEF Visit, ScreenFields
<1>6. DOMAIN server = Things
  BY DEF Init
<1>5. \A c \in screen.calls : DOMAIN c = CallFields /\ c.n = 1 /\ ~c.served
  BY <1>2 DEF Call, CallFields
<1> QED BY <1>3, <1>4, <1>5, <1>6 DEF WriteInv, WriteType, OneWrite, LoadsCatchUp, ShownListCatchesUp

\* A step that leaves the calls, the server and what is known of both alone.
LEMMA DialogKeepsWrites ==
    ASSUME WriteInv, DOMAIN screen' = DOMAIN screen, UNCHANGED server,
           \A f \in ScreenFields \ {"dialog", "target", "errors"} : screen'[f] = screen[f]
    PROVE  WriteInv'
<1>1. /\ screen'.page = screen.page /\ screen'.calls = screen.calls /\ screen'.sent = screen.sent /\ screen'.newest = screen.newest
      /\ screen'.lost = screen.lost /\ screen'.busy = screen.busy /\ screen'.list = screen.list
      /\ screen'.failed = screen.failed /\ screen'.overtaken = screen.overtaken
  BY DEF ScreenFields
<1>2. Writes' = Writes
  BY <1>1 DEF Writes
<1> QED BY <1>1, <1>2
        DEF WriteInv, WriteType, WaitsForAll, OneWrite, LoadsCatchUp, ShownListCatchesUp, Explained, LaterLoad, Effective

\* A write is sent: no button waits for a call, so none of the page's is under way where all wait.
LEMMA SendKeepsWrites ==
    ASSUME WriteInv, NEW v \in DOMAIN screen.page.verbs, NEW t \in Things, Send(v, t)
    PROVE  WriteInv'
<1> DEFINE new == Call(screen.sent + 1, v, t)
<1>1. /\ screen' = [screen EXCEPT !.sent = screen.sent + 1, !.calls = screen.calls \cup {new}, !.busy = t]
      /\ ~Waits(v, t) /\ server' = server
  BY DEF Send, Sending
<1>2. new.n = screen.sent + 1 /\ new.verb = v /\ new.thing = t /\ ~new.served /\ DOMAIN new = CallFields
  BY DEF Call, CallFields
<1> HIDE DEF new
<1>3. /\ screen'.sent = screen.sent + 1 /\ screen'.calls = screen.calls \cup {new} /\ screen'.busy = t /\ DOMAIN screen' = DOMAIN screen
      /\ screen'.page = screen.page /\ screen'.newest = screen.newest /\ screen'.lost = screen.lost /\ screen'.list = screen.list
      /\ screen'.failed = screen.failed /\ screen'.overtaken = screen.overtaken
  BY <1>1 DEF WriteInv, WriteType, ScreenFields
<1>4. Writes \subseteq Writes' /\ Writes' \subseteq Writes \cup {new}
  BY <1>3 DEF Writes
<1>5. WriteType'
  BY <1>1, <1>2, <1>3, <1>4 DEF WriteInv, WriteType
<1>6. WaitsForAll' => OneWrite'
  <2> SUFFICES ASSUME WaitsForAll PROVE OneWrite'
    BY <1>3 DEF WaitsForAll
  <2>1. screen.busy = None
    BY <1>1 DEF WaitsForAll, Waits
  <2>2. Writes = {}
    BY <2>1 DEF WriteInv, OneWrite
  <2>3. screen'.busy # None
    BY <1>3, NothingIsNoThing
  <2> QED BY <1>4, <2>2, <2>3 DEF OneWrite
<1>7. ASSUME NEW n, NEW x, Explained(n, x) PROVE Explained(n, x)'
  BY <1>3, <1>4, <1>7 DEF Explained, LaterLoad, Effective
<1>8. LoadsCatchUp'
  BY <1>1, <1>2, <1>3, <1>7 DEF WriteInv, LoadsCatchUp
<1>9. ShownListCatchesUp'
  BY <1>1, <1>3, <1>7 DEF WriteInv, ShownListCatchesUp
<1> QED BY <1>5, <1>6, <1>8, <1>9 DEF WriteInv

\* The server does a call: what it holds changes only by a write, which is then known to be served and not answered.
LEMMA ServeKeepsWrites ==
    ASSUME WriteInv, NEW c \in screen.calls, NEW ok \in BOOLEAN, Serve(c, ok)
    PROVE  WriteInv'
<1> DEFINE left == IF IsLoad(c) THEN None ELSE screen.page.verbs[c.verb].leaves
           done == ok /\ Routed(c) /\ (left = None \/ Adds(c.verb) \/ Takes(c))
           new == [c EXCEPT !.served = TRUE, !.ok = done, !.list = server]
<1>1. /\ screen' = [screen EXCEPT !.calls = (screen.calls \ {c}) \cup {new}]
      /\ server' = IF done /\ left # None /\ Takes(c) THEN [server EXCEPT ![c.thing] = left] ELSE server
      /\ ~c.served
  BY DEF Serve
<1>2. /\ new.n = c.n /\ new.verb = c.verb /\ new.thing = c.thing /\ new.served = TRUE /\ new.ok = done /\ new.list = server /\ DOMAIN new = CallFields
      /\ (IsLoad(new) <=> IsLoad(c)) /\ c.n \in Nat /\ c.n <= screen.sent
  BY DEF WriteInv, WriteType, CallFields, IsLoad
<1>3. ~IsLoad(c) => left = screen.page.verbs[c.verb].leaves
  OBVIOUS
<1>4. IsLoad(c) => server' = server
  BY <1>1
<1> HIDE DEF new, done, left
<1>5. /\ screen'.calls = (screen.calls \ {c}) \cup {new} /\ DOMAIN screen' = DOMAIN screen
      /\ screen'.sent = screen.sent /\ screen'.busy = screen.busy
      /\ screen'.page = screen.page /\ screen'.newest = screen.newest /\ screen'.lost = screen.lost /\ screen'.list = screen.list
      /\ screen'.failed = screen.failed /\ screen'.overtaken = screen.overtaken
  BY <1>1 DEF WriteInv, WriteType, ScreenFields
<1>6. Writes' = IF IsLoad(c) THEN Writes ELSE (Writes \ {c}) \cup {new}
  BY <1>2, <1>5 DEF Writes
<1>7. WriteType'
  <2>1. DOMAIN server' = Things
    BY <1>1 DEF WriteInv, WriteType
  <2>2. ~IsLoad(c) => c.verb \in DOMAIN screen.page.verbs /\ c.thing \in Things
    BY DEF WriteInv, WriteType, Writes
  <2>3. \A d \in Writes' : d.verb \in DOMAIN screen'.page.verbs /\ d.thing \in Things
    BY <1>2, <1>5, <1>6, <2>2 DEF WriteInv, WriteType
  <2>4. \A d \in screen'.calls : DOMAIN d = CallFields /\ d.n \in Nat /\ d.n <= screen'.sent
    BY <1>2, <1>5 DEF WriteInv, WriteType
  <2> QED BY <1>5, <2>1, <2>3, <2>4 DEF WriteInv, WriteType
<1>8. WaitsForAll' => OneWrite'
  <2> SUFFICES ASSUME WaitsForAll PROVE OneWrite'
    BY <1>5 DEF WaitsForAll
  <2>1. OneWrite
    BY DEF WriteInv
  <2>2. IsLoad(c) \/ c \in Writes
    BY DEF Writes
  <2> QED BY <1>5, <1>6, <2>1, <2>2 DEF OneWrite
<1>9. ASSUME NEW n, NEW x, Explained(n, x) PROVE Explained(n, x)'
  <2>1. ASSUME NEW w \in Writes, Effective(w), w.thing = x PROVE \E y \in Writes' : Effective(y)' /\ y.thing = x
    <3>1. w # c /\ w \in Writes'
      BY <1>1, <1>6, <2>1 DEF Effective
    <3>2. Effective(w)'
      BY <1>5, <2>1 DEF Effective
    <3> QED BY <2>1, <3>1, <3>2
  <2>2. LaterLoad(n) => LaterLoad(n)'
    BY <1>2, <1>5 DEF LaterLoad
  <2>3. screen'.lost = screen.lost
    BY <1>5
  <2> QED BY <1>9, <2>1, <2>2, <2>3 DEF Explained
<1>10. ASSUME NEW x \in Things PROVE server'[x] = server[x] \/ \A n : Explained(n, x)'
  <2>1. CASE done /\ left # None /\ Takes(c) /\ x = c.thing
    <3>1. new \in Writes' /\ ~IsLoad(c)
      BY <1>6, <2>1 DEF left
    <3>2. new.served /\ new.ok /\ screen'.page.verbs[new.verb].leaves # None
      BY <1>2, <1>3, <1>5, <2>1, <3>1
    <3>3. \A y : y = new => Effective(y)'
      BY <3>2 DEF Effective
    <3>4. \E y \in Writes' : Effective(y)' /\ y.thing = x
      BY <1>2, <2>1, <3>1, <3>3
    <3> QED BY <3>4 DEF Explained
  <2>2. CASE ~(done /\ left # None /\ Takes(c) /\ x = c.thing)
    BY <1>1, <2>2 DEF WriteInv, WriteType
  <2> QED BY <2>1, <2>2
<1>11. LoadsCatchUp'
  <2> SUFFICES ASSUME NEW d \in screen'.calls, IsLoad(d), d.served, d.ok, NEW x \in Things
               PROVE  d.list[x] = server'[x] \/ screen'.newest > d.n \/ Explained(d.n, x)'
    BY DEF LoadsCatchUp
  <2>1. CASE d = new
    BY <1>2, <1>4, <2>1
  <2>2. CASE d # new
    <3>1. d.list[x] = server[x] \/ screen.newest > d.n \/ Explained(d.n, x)
      BY <1>5, <2>2 DEF WriteInv, LoadsCatchUp
    <3> QED BY <1>5, <1>9, <1>10, <3>1
  <2> QED BY <2>1, <2>2
<1>12. ShownListCatchesUp'
  BY <1>5, <1>9, <1>10 DEF WriteInv, ShownListCatchesUp
<1> QED BY <1>7, <1>8, <1>11, <1>12 DEF WriteInv

\* The answer of a load: it shows what the server held, unless a later load or a write explains the difference.
LEMMA AnswerKeepsWrites ==
    ASSUME WriteInv, NEW c \in screen.calls, NEW ok \in BOOLEAN, AnswerLoad(c, ok)
    PROVE  WriteInv'
<1>1. /\ screen'.calls = screen.calls \ {c} /\ DOMAIN screen' = DOMAIN screen
      /\ screen'.sent = screen.sent /\ screen'.page = screen.page /\ screen'.lost = screen.lost
      /\ screen'.failed = ~ok /\ screen'.overtaken = (c.n < screen.newest)
      /\ screen'.newest = IF c.n > screen.newest THEN c.n ELSE screen.newest
  BY DEF WriteInv, WriteType, ScreenFields, AnswerLoad
<1>2. /\ ok => screen'.list = c.list
      /\ screen.page # Notifications => screen'.busy = screen.busy
  BY DEF WriteInv, WriteType, ScreenFields, AnswerLoad
<1>3. IsLoad(c) /\ (ok => c.served /\ c.ok) /\ server' = server
  BY DEF AnswerLoad
<1>4. Writes' = Writes
  BY <1>1, <1>3 DEF Writes
<1>5. c.n \in Nat /\ c.n <= screen.sent /\ screen.newest \in Nat /\ screen.sent \in Nat /\ screen.newest <= screen.sent
  BY DEF WriteInv, WriteType
<1>6. screen'.newest \in Nat /\ screen'.newest <= screen.sent /\ screen'.newest >= c.n /\ screen'.newest >= screen.newest
  BY <1>1, <1>5
<1>7. WriteType'
  BY <1>1, <1>3, <1>4, <1>6 DEF WriteInv, WriteType
<1>8. WaitsForAll' => OneWrite'
  <2> SUFFICES ASSUME WaitsForAll PROVE OneWrite'
    BY <1>1 DEF WaitsForAll
  <2>1. screen.page # Notifications
    BY WritesReload DEF WaitsForAll
  <2> QED BY <1>2, <1>4, <2>1 DEF WriteInv, OneWrite
<1>9. ASSUME NEW n \in Nat, NEW x, Explained(n, x), n >= c.n \/ ~(c.n > n) PROVE Explained(n, x)'
  <2>1. \A w : Effective(w) => Effective(w)'
    BY <1>1 DEF Effective
  <2>2. ASSUME NEW d \in screen.calls, IsLoad(d), d.n > n PROVE LaterLoad(n)'
    <3>1. d # c
      BY <1>5, <1>9, <2>2
    <3> QED BY <1>1, <2>2, <3>1 DEF LaterLoad
  <2> QED BY <1>1, <1>4, <1>9, <2>1, <2>2 DEF Explained, LaterLoad
<1>10. LoadsCatchUp'
  <2> SUFFICES ASSUME NEW d \in screen'.calls, IsLoad(d), d.served, d.ok, NEW x \in Things
               PROVE  d.list[x] = server'[x] \/ screen'.newest > d.n \/ Explained(d.n, x)'
    BY DEF LoadsCatchUp
  <2>1. d \in screen.calls /\ d.n \in Nat
    BY <1>1 DEF WriteInv, WriteType
  <2>2. d.list[x] = server[x] \/ screen.newest > d.n \/ Explained(d.n, x)
    BY <2>1 DEF WriteInv, LoadsCatchUp
  <2>3. CASE c.n > d.n
    BY <1>5, <1>6, <2>1, <2>3
  <2>4. CASE ~(c.n > d.n)
    <3>1. Explained(d.n, x) => Explained(d.n, x)'
      BY <1>9, <2>1, <2>4
    <3>2. screen.newest > d.n => screen'.newest > d.n
      BY <1>5, <1>6, <2>1
    <3> QED BY <1>3, <2>2, <3>1, <3>2
  <2> QED BY <2>3, <2>4
<1>11. ShownListCatchesUp'
  <2> SUFFICES ASSUME ok, ~(c.n < screen.newest), NEW x \in Things PROVE c.list[x] = server[x] \/ Explained(c.n, x)'
    <3>1. ok /\ ~(c.n < screen.newest) => screen'.newest = c.n
      BY <1>1, <1>5
    <3>2. \A x : Explained(screen.newest, x)' <=> (\A n : n = screen'.newest => Explained(n, x)')
      BY DEF Explained, LaterLoad, Effective
    <3> QED BY <1>1, <1>2, <1>3, <3>1, <3>2 DEF ShownListCatchesUp
  <2>1. c.list[x] = server[x] \/ screen.newest > c.n \/ Explained(c.n, x)
    BY <1>3 DEF WriteInv, LoadsCatchUp
  <2>2. ~(screen.newest > c.n)
    BY <1>5
  <2>3. Explained(c.n, x) => Explained(c.n, x)'
    BY <1>5, <1>9
  <2> QED BY <2>1, <2>2, <2>3
<1> QED BY <1>7, <1>8, <1>10, <1>11 DEF WriteInv

\* A write is done: the list is loaded again after it, or it changed nothing.
LEMMA DoneKeepsWrites ==
    ASSUME WriteInv, NEW c \in Writes, Done(c)
    PROVE  WriteInv'
<1> DEFINE verb == screen.page.verbs[c.verb]
           new == Call(screen.sent + 1, "load", None)
<1>1. /\ screen'.calls = IF verb.reloads THEN (screen.calls \ {c}) \cup {new} ELSE screen.calls \ {c}
      /\ screen'.sent = IF verb.reloads THEN screen.sent + 1 ELSE screen.sent
      /\ DOMAIN screen' = DOMAIN screen /\ screen'.page = screen.page /\ screen'.lost = screen.lost
      /\ screen'.failed = screen.failed /\ screen'.overtaken = screen.overtaken
      /\ screen'.newest = screen.newest /\ screen'.list = screen.list
      /\ server' = server
  BY DEF WriteInv, WriteType, ScreenFields, Done, Sending
<1>2. new.n = screen.sent + 1 /\ ~new.served /\ DOMAIN new = CallFields /\ IsLoad(new)
  BY DEF Call, CallFields, IsLoad
<1>3. verb.leaves = None \/ verb.reloads
  BY WritesReload DEF WriteInv, WriteType
<1> HIDE DEF new, verb
<1>4. Writes' = Writes \ {c} /\ c \in screen.calls /\ ~IsLoad(c)
  BY <1>1, <1>2 DEF Writes
<1>5. screen.sent \in Nat /\ screen.newest \in Nat /\ screen.newest <= screen.sent /\ screen.sent + 1 \in Nat
  BY DEF WriteInv, WriteType
<1>6. WriteType'
  <2>1. \A d \in screen'.calls : DOMAIN d = CallFields /\ d.n \in Nat /\ d.n <= screen'.sent
    BY <1>1, <1>2, <1>5 DEF WriteInv, WriteType
  <2> QED BY <1>1, <1>4, <1>5, <2>1 DEF WriteInv, WriteType
<1>7. WaitsForAll' => OneWrite'
  <2> SUFFICES ASSUME WaitsForAll PROVE OneWrite'
    BY <1>1 DEF WaitsForAll
  <2>1. Writes' = {}
    BY <1>4 DEF WriteInv, OneWrite
  <2> QED BY <2>1 DEF OneWrite
<1>8. CASE verb.reloads
  <2>1. ASSUME NEW n \in Nat, n <= screen.sent, NEW x PROVE Explained(n, x)'
    BY <1>1, <1>2, <1>5, <1>8, <2>1 DEF Explained, LaterLoad
  <2>2. LoadsCatchUp'
    <3> SUFFICES ASSUME NEW d \in screen'.calls, d.served PROVE \A x \in Things : Explained(d.n, x)'
      BY DEF LoadsCatchUp
    <3>1. d \in screen.calls
      BY <1>1, <1>2
    <3> QED BY <2>1, <3>1 DEF WriteInv, WriteType
  <2>3. ShownListCatchesUp'
    BY <1>1, <1>5, <2>1 DEF ShownListCatchesUp
  <2> QED BY <1>6, <1>7, <2>2, <2>3 DEF WriteInv
<1>9. CASE ~verb.reloads
  <2>1. ~Effective(c)
    BY <1>3, <1>9 DEF Effective, verb
  <2>2. ASSUME NEW n, NEW x, Explained(n, x) PROVE Explained(n, x)'
    <3>1. \A w : Effective(w) => Effective(w)'
      BY <1>1 DEF Effective
    <3>2. LaterLoad(n) => LaterLoad(n)'
      BY <1>1, <1>4, <1>9 DEF LaterLoad
    <3> QED BY <1>1, <1>4, <2>1, <2>2, <3>1, <3>2 DEF Explained
  <2>3. LoadsCatchUp'
    BY <1>1, <1>9, <2>2 DEF WriteInv, LoadsCatchUp
  <2>4. ShownListCatchesUp'
    BY <1>1, <2>2 DEF WriteInv, ShownListCatchesUp
  <2> QED BY <1>6, <1>7, <2>3, <2>4 DEF WriteInv
<1> QED BY <1>8, <1>9

\* A write fails for the client: what it left behind on the server is known to be lost.
LEMMA FailedKeepsWrites ==
    ASSUME WriteInv, NEW c \in Writes, Failed(c)
    PROVE  WriteInv'
<1>1. /\ screen'.calls = screen.calls \ {c} /\ screen'.sent = screen.sent
      /\ DOMAIN screen' = DOMAIN screen /\ screen'.page = screen.page
      /\ screen'.failed = screen.failed /\ screen'.overtaken = screen.overtaken
      /\ screen'.newest = screen.newest /\ screen'.list = screen.list
      /\ screen'.lost = [screen.lost EXCEPT ![c.thing] = IF c.served /\ c.ok THEN screen.sent ELSE screen.lost[c.thing]]
      /\ server' = server
  BY DEF WriteInv, WriteType, ScreenFields, Failed
<1>2. Writes' = Writes \ {c} /\ c \in screen.calls /\ ~IsLoad(c)
  BY <1>1 DEF Writes
<1>3. /\ screen.sent \in Nat /\ screen.newest \in Nat /\ screen.newest <= screen.sent
      /\ screen.lost \in [Things -> Nat] /\ c.thing \in Things
  BY DEF WriteInv, WriteType
<1>4. WriteType'
  BY <1>1, <1>2, <1>3 DEF WriteInv, WriteType
<1>5. WaitsForAll' => OneWrite'
  <2> SUFFICES ASSUME WaitsForAll PROVE OneWrite'
    BY <1>1 DEF WaitsForAll
  <2>1. Writes' = {}
    BY <1>2 DEF WriteInv, OneWrite
  <2> QED BY <2>1 DEF OneWrite
<1>6. ASSUME NEW n \in Nat, n <= screen.sent, NEW x \in Things, Explained(n, x) PROVE Explained(n, x)'
  <2>1. CASE c.served /\ c.ok /\ x = c.thing
    BY <1>1, <1>3, <1>6, <2>1 DEF Explained
  <2>2. CASE ~(c.served /\ c.ok /\ x = c.thing)
    <3>1. screen'.lost[x] = screen.lost[x]
      BY <1>1, <1>3, <2>2
    <3>2. ~(Effective(c) /\ c.thing = x) /\ (\A w : Effective(w) => Effective(w)')
      BY <1>1, <2>2 DEF Effective
    <3>3. LaterLoad(n) => LaterLoad(n)'
      BY <1>1, <1>2 DEF LaterLoad
    <3> QED BY <1>2, <1>6, <3>1, <3>2, <3>3 DEF Explained
  <2> QED BY <2>1, <2>2
<1>7. LoadsCatchUp'
  BY <1>1, <1>6 DEF WriteInv, WriteType, LoadsCatchUp
<1>8. ShownListCatchesUp'
  BY <1>1, <1>3, <1>6 DEF WriteInv, ShownListCatchesUp
<1> QED BY <1>4, <1>5, <1>7, <1>8 DEF WriteInv

\* Somebody else changes a thing: no load that was sent by then has to know of it.
LEMMA ElsewhereKeepsWrites ==
    ASSUME WriteInv, NEW t \in Things, NEW level, Elsewhere(t, level)
    PROVE  WriteInv'
<1>1. /\ DOMAIN screen' = DOMAIN screen /\ screen'.page = screen.page /\ screen'.calls = screen.calls /\ screen'.sent = screen.sent
      /\ screen'.newest = screen.newest /\ screen'.busy = screen.busy /\ screen'.list = screen.list
      /\ screen'.failed = screen.failed /\ screen'.overtaken = screen.overtaken
      /\ screen'.lost = [screen.lost EXCEPT ![t] = screen.sent]
      /\ server' = [server EXCEPT ![t] = level]
  BY DEF WriteInv, WriteType, ScreenFields, Elsewhere
<1>2. /\ screen.sent \in Nat /\ screen.newest \in Nat /\ screen.newest <= screen.sent
      /\ screen.lost \in [Things -> Nat] /\ DOMAIN server = Things
  BY DEF WriteInv, WriteType
<1>3. Writes' = Writes
  BY <1>1 DEF Writes
<1>4. WriteType'
  BY <1>1, <1>2, <1>3 DEF WriteInv, WriteType
<1>5. WaitsForAll' => OneWrite'
  BY <1>1, <1>3 DEF WriteInv, WaitsForAll, OneWrite
<1>6. ASSUME NEW n \in Nat, n <= screen.sent, NEW x \in Things
      PROVE  /\ server'[x] = server[x] \/ Explained(n, x)'
             /\ Explained(n, x) => Explained(n, x)'
  <2>1. CASE x = t
    <3>1. screen'.lost[x] >= n
      BY <1>1, <1>2, <1>6, <2>1
    <3> QED BY <3>1 DEF Explained
  <2>2. CASE x # t
    <3>1. screen'.lost[x] = screen.lost[x] /\ server'[x] = server[x]
      BY <1>1, <1>2, <2>2
    <3> QED BY <1>1, <1>3, <3>1 DEF Explained, LaterLoad, Effective
  <2> QED BY <2>1, <2>2
<1>7. LoadsCatchUp'
  <2> SUFFICES ASSUME NEW d \in screen.calls, IsLoad(d), d.served, d.ok, NEW x \in Things
               PROVE  d.list[x] = server'[x] \/ screen.newest > d.n \/ Explained(d.n, x)'
    BY <1>1 DEF LoadsCatchUp
  <2>1. d.list[x] = server[x] \/ screen.newest > d.n \/ Explained(d.n, x)
    BY DEF WriteInv, LoadsCatchUp
  <2>2. d.n \in Nat /\ d.n <= screen.sent
    BY DEF WriteInv, WriteType
  <2> QED BY <1>6, <2>1, <2>2
<1>8. ShownListCatchesUp'
  BY <1>1, <1>2, <1>6 DEF WriteInv, ShownListCatchesUp
<1> QED BY <1>4, <1>5, <1>7, <1>8 DEF WriteInv

\* A dialog opens, is filled in or is left; a call is sent, served or answered; somebody else changes something.
LEMMA WriteStep == WriteInv /\ [WriteNext]_<<screen, server>> => WriteInv'
<1> SUFFICES ASSUME WriteInv, [WriteNext]_<<screen, server>> PROVE WriteInv'
  OBVIOUS
<1>1. ASSUME NEW v \in DOMAIN screen.page.verbs, NEW t \in Things, Open(v, t) PROVE WriteInv'
  BY <1>1, DialogKeepsWrites DEF Open, ScreenFields, WriteInv, WriteType
<1>2. ASSUME NEW errors, Fill(errors) PROVE WriteInv'
  BY <1>2, DialogKeepsWrites DEF Fill, ScreenFields, WriteInv, WriteType
<1>3. CASE Cancel
  BY <1>3, DialogKeepsWrites DEF Cancel, ScreenFields, WriteInv, WriteType
<1>4. CASE UNCHANGED <<screen, server>>
  BY <1>4, DialogKeepsWrites
<1> QED BY <1>1, <1>2, <1>3, <1>4, SendKeepsWrites, ServeKeepsWrites, AnswerKeepsWrites, DoneKeepsWrites, FailedKeepsWrites,
           ElsewhereKeepsWrites
        DEF WriteNext

\* A step of the client is a step of the live screen or leaves that screen alone.
LEMMA WriteScreensStep == WriteInv /\ [Next]_vars => WriteInv'
<1>1. [Next]_vars => [WriteNext]_<<screen, server>>
  BY DEF Next, vars
<1> QED BY <1>1, WriteStep

(* Where every button waits for the page's call, a second write is never   *)
(* sent before the first is answered (busy, web/src/pages).                *)
THEOREM OneWriteAtATime == Spec => []WritesDoNotOverlap
<1>1. WriteInv => WritesDoNotOverlap
  <2> SUFFICES ASSUME WriteInv, WaitsForAll PROVE Cardinality(Writes) <= 1
    BY DEF WritesDoNotOverlap, WaitsForAll
  <2>1. \A c, d \in Writes : c = d
    BY DEF WriteInv, OneWrite
  <2>2. CASE Writes = {}
    <3>1. Cardinality({}) = 0
      BY FS_EmptySet
    <3> QED BY <2>2, <3>1
  <2>3. CASE Writes # {}
    <3>1. PICK c \in Writes : TRUE
      BY <2>3
    <3>2. Writes = {c}
      BY <2>1, <3>1
    <3>3. Cardinality({c}) = 1
      BY FS_Singleton
    <3> QED BY <3>2, <3>3
  <2> QED BY <2>2, <2>3
<1> QED BY <1>1, WriteInit, WriteScreensStep, PTL DEF Spec

(* Once nothing is under way and the last load came through, and came      *)
(* last, a list is right about every thing but those that nothing was      *)
(* loaded of since a write whose answer was lost, or since another         *)
(* operator changed them (the load after every write).                     *)
THEOREM ListsCatchUp == Spec => []ListCatchesUp
<1>1. WriteInv => ListCatchesUp
  <2> SUFFICES ASSUME WriteInv, screen.calls = {}, ShownListCatchesUp, screen.list # NotLoaded, ~screen.failed, ~screen.overtaken,
                      NEW t \in Things, screen.newest > screen.lost[t]
               PROVE  screen.list[t] = server[t]
    BY DEF ListCatchesUp, WriteInv
  <2>1. Writes = {} /\ ~LaterLoad(screen.newest)
    BY DEF Writes, LaterLoad
  <2>2. screen.newest \in Nat /\ screen.lost[t] \in Nat
    BY DEF WriteInv, WriteType
  <2> QED BY <2>1, <2>2 DEF ShownListCatchesUp, Explained
<1> QED BY <1>1, WriteInit, WriteScreensStep, PTL DEF Spec

-----------------------------------------------------------------------------
(* The panel of an object.                                                 *)

PanelFields == {"verb", "caps", "url", "address", "astray", "stack", "popped", "data", "load", "confirm", "pending"}
AnyUrl == [obj : Things \cup {None}, objstack : Seq(Things)]

\* The trail ends with the object of the URL the page knows, that object is loaded or shown, and no other is;
\* and that URL is the browser's unless the palette wrote there.
OfTheUrl(p) ==
    /\ DOMAIN p = PanelFields /\ p.url \in AnyUrl /\ p.stack \in Seq(Things)
    /\ ~p.astray => p.address = p.url
    /\ Panel!HeadOf(p.stack) = p.url.obj
    /\ ~p.popped => p.stack = Panel!Trail(p.url)
    /\ p.load \subseteq {p.url.obj}
    /\ p.load = {} => \A shown \in p.data : shown.id = p.url.obj

\* The head of a trail: an object, or none of an empty one.
LEMMA HeadOfTrail ==
    ASSUME NEW stack \in Seq(Things)
    PROVE  /\ Panel!HeadOf(stack) \in Things \cup {None}
           /\ Panel!HeadOf(stack) = None <=> stack = <<>>
<1>1. CASE stack = <<>>
  BY <1>1 DEF Panel!HeadOf, Panel!None, None
<1>2. CASE stack # <<>>
  <2>1. Len(stack) \in 1 .. Len(stack)
    BY <1>2
  <2>2. Panel!HeadOf(stack) = stack[Len(stack)]
    BY <1>2 DEF Panel!HeadOf, Panel!Last
  <2>3. stack[Len(stack)] \in Things
    BY <2>1
  <2> QED BY <1>2, <2>2, <2>3, NothingIsNoThing
<1> QED BY <1>1, <1>2

\* The trail of a URL ends with its object.
LEMMA TrailOfUrl ==
    ASSUME NEW url \in AnyUrl
    PROVE  Panel!Trail(url) \in Seq(Things) /\ Panel!HeadOf(Panel!Trail(url)) = url.obj
<1>0. url.obj \in Things \cup {None} /\ url.objstack \in Seq(Things)
  BY DEF AnyUrl
<1>1. CASE url.obj = None
  BY <1>1 DEF Panel!HeadOf, Panel!Trail, Panel!None, None
<1>2. CASE url.obj # None
  <2> DEFINE s == url.objstack
             t == Append(s, url.obj)
  <2>1. t \in Seq(Things) /\ Len(t) = Len(s) + 1 /\ t[Len(s) + 1] = url.obj /\ Len(s) \in Nat
    BY <1>0, <1>2
  <2>2. t # <<>>
    BY <2>1
  <2>3. Panel!Trail(url) = t
    BY <1>2 DEF Panel!Trail, Panel!None, None
  <2> HIDE DEF t, s
  <2>4. Panel!HeadOf(t) = url.obj
    BY <2>1, <2>2 DEF Panel!HeadOf, Panel!Last
  <2> QED BY <2>1, <2>3, <2>4
<1> QED BY <1>1, <1>2

\* A trail is its front and its last object.
LEMMA FrontAndLast ==
    ASSUME NEW s \in Seq(Things), s # <<>>
    PROVE  Panel!Front(s) \in Seq(Things) /\ Append(Panel!Front(s), Panel!Last(s)) = s /\ Len(Panel!Front(s)) = Len(s) - 1
<1> DEFINE m == Len(s) - 1
<1>1. m \in Nat /\ Len(s) = m + 1 /\ m + 1 \in 1 .. Len(s)
  OBVIOUS
<1>2. Panel!Front(s) = SubSeq(s, 1, m) /\ Panel!Last(s) = s[m + 1]
  BY <1>1 DEF Panel!Front, Panel!Last
<1> HIDE DEF m
<1>3. SubSeq(s, 1, m) \in Seq(Things) /\ Len(SubSeq(s, 1, m)) = m /\ \A i \in 1 .. m : SubSeq(s, 1, m)[i] = s[i]
  BY <1>1
<1> DEFINE f == SubSeq(s, 1, m)
<1> HIDE DEF f
<1>4. f \in Seq(Things) /\ Len(f) = m /\ \A i \in 1 .. m : f[i] = s[i]
  BY <1>3 DEF f
<1>5. s[m + 1] \in Things
  BY <1>1
<1>6. Append(f, s[m + 1]) = s
  <2> DEFINE t == Append(f, s[m + 1])
  <2>1. t \in Seq(Things) /\ Len(t) = m + 1 /\ t[m + 1] = s[m + 1] /\ \A i \in 1 .. m : t[i] = f[i]
    BY <1>1, <1>4, <1>5
  <2> HIDE DEF t
  <2>2. \A i \in 1 .. Len(s) : t[i] = s[i]
    BY <1>1, <1>4, <2>1
  <2>3. t = s
    BY <1>1, <2>1, <2>2
  <2> QED BY <2>3 DEF t
<1> QED BY <1>1, <1>2, <1>4, <1>6 DEF f

\* What the panel does when the URL changes: the trail is the URL's if its object is another one.
Followed(q, p, url) ==
    /\ DOMAIN q = PanelFields /\ q.url = url /\ q.address = url
    /\ q.stack = IF url.obj = p.url.obj THEN p.stack ELSE Panel!Trail(url)
    /\ q.popped = IF url.obj = p.url.obj THEN p.popped ELSE FALSE
    /\ q.load = IF Panel!HeadOf(q.stack) = Panel!HeadOf(p.stack) THEN p.load ELSE {Panel!HeadOf(q.stack)}
    /\ q.verb = p.verb /\ q.caps = p.caps /\ q.data = p.data /\ q.confirm = p.confirm /\ q.pending = p.pending
\* The fields of a panel that follows a link.
LEMMA FollowFields ==
    ASSUME NEW p, DOMAIN p = PanelFields, NEW url
    PROVE  Followed(Panel!Follow(p, url), p, url)
<1> DEFINE r == IF url.obj = p.url.obj THEN Panel!Agreed(p, url)
                ELSE [Panel!Agreed(p, url) EXCEPT !.stack = Panel!Trail(url), !.popped = FALSE]
<1>1. /\ DOMAIN r = PanelFields /\ r.url = url /\ r.address = url
      /\ r.stack = IF url.obj = p.url.obj THEN p.stack ELSE Panel!Trail(url)
      /\ r.popped = IF url.obj = p.url.obj THEN p.popped ELSE FALSE
      /\ r.verb = p.verb /\ r.caps = p.caps /\ r.data = p.data /\ r.confirm = p.confirm /\ r.pending = p.pending /\ r.load = p.load
  BY DEF PanelFields, Panel!Agreed
<1>2. Panel!Follow(p, url) = Panel!Settled(r, p)
  BY DEF Panel!Follow
<1> HIDE DEF r
<1>3. LET q == Panel!Settled(r, p)
      IN  /\ DOMAIN q = PanelFields /\ q.url = r.url /\ q.address = r.address /\ q.stack = r.stack /\ q.popped = r.popped
          /\ q.load = IF Panel!HeadOf(r.stack) = Panel!HeadOf(p.stack) THEN r.load ELSE {Panel!HeadOf(r.stack)}
          /\ q.verb = r.verb /\ q.caps = r.caps /\ q.data = r.data /\ q.confirm = r.confirm /\ q.pending = r.pending
  BY <1>1 DEF Panel!Settled, Panel!Reloaded, PanelFields
<1> QED BY <1>1, <1>2, <1>3 DEF Followed

\* A panel whose trail moved to a URL: either it ends as before, or its end is loaded.
LEMMA MovedPanel ==
    ASSUME OfTheUrl(panel), NEW q, DOMAIN q = PanelFields, q.url \in AnyUrl, q.stack \in Seq(Things),
           ~q.astray => q.address = q.url, Panel!HeadOf(q.stack) = q.url.obj, ~q.popped => q.stack = Panel!Trail(q.url), q.data \subseteq panel.data,
           \/ Panel!HeadOf(q.stack) = Panel!HeadOf(panel.stack) /\ q.load = panel.load
           \/ q.load = {Panel!HeadOf(q.stack)}
    PROVE  OfTheUrl(q)
BY DEF OfTheUrl

\* A panel of which neither the trail nor the URL moves.
LEMMA SettledPanel ==
    ASSUME OfTheUrl(panel), NEW q, DOMAIN q = PanelFields, q.url = panel.url, q.stack = panel.stack, q.popped = panel.popped,
           ~q.astray => q.address = q.url,
           \/ q.data = panel.data /\ q.load = panel.load
           \/ q.load = {Panel!HeadOf(panel.stack)}
           \/ q.load = {} /\ \A shown \in q.data : {shown.id} = panel.load
    PROVE  OfTheUrl(q)
BY DEF OfTheUrl

\* What the form closes of itself with the panel or the object.
LEMMA UnmountedFields ==
    ASSUME NEW p, DOMAIN p = PanelFields
    PROVE  LET q == Panel!Unmounted(p)
           IN  /\ DOMAIN q = PanelFields /\ q.confirm = {} /\ q.pending = {}
               /\ \A f \in PanelFields \ {"confirm", "pending"} : q[f] = p[f]
BY DEF Panel!Unmounted, PanelFields

\* The panel follows the URL of another object.
LEMMA FollowKeepsUrl ==
    ASSUME OfTheUrl(panel), NEW url \in AnyUrl, url.obj # panel.url.obj
    PROVE  OfTheUrl(Panel!Follow(panel, url))
<1> DEFINE q == Panel!Follow(panel, url)
<1>1. /\ DOMAIN q = PanelFields /\ q.url = url /\ q.address = url /\ q.data = panel.data
      /\ q.stack = Panel!Trail(url)
      /\ q.load = IF Panel!HeadOf(q.stack) = Panel!HeadOf(panel.stack) THEN panel.load ELSE {Panel!HeadOf(q.stack)}
  <2>1. DOMAIN panel = PanelFields
    BY DEF OfTheUrl
  <2>2. Followed(Panel!Follow(panel, url), panel, url)
    BY FollowFields, <2>1
  <2> QED BY <2>2 DEF Followed
<1> HIDE DEF q
<1>2. Panel!Trail(url) \in Seq(Things) /\ Panel!HeadOf(Panel!Trail(url)) = url.obj
  BY TrailOfUrl
<1>3. q.stack \in Seq(Things) /\ Panel!HeadOf(q.stack) = q.url.obj
  BY <1>1, <1>2 DEF OfTheUrl
<1> QED BY <1>1, <1>2, <1>3, MovedPanel DEF q

\* Nothing but the trail, the URL and what is loaded changes.
ShowsTheSame(q) == q.verb = panel.verb /\ q.data = panel.data

\* What the form closes with the panel is nothing of the trail.
LEMMA UnmountedKeepsUrl ==
    ASSUME NEW p, DOMAIN p = PanelFields
    PROVE  LET q == Panel!Unmounted(p)
           IN  (OfTheUrl(p) => OfTheUrl(q)) /\ q.verb = p.verb /\ q.data = p.data
<1> DEFINE q == Panel!Unmounted(p)
<1>1. /\ DOMAIN q = PanelFields /\ q.url = p.url /\ q.stack = p.stack /\ q.popped = p.popped /\ q.load = p.load
      /\ q.verb = p.verb /\ q.data = p.data /\ q.address = p.address /\ q.astray = p.astray
  BY DEF Panel!Unmounted, PanelFields
<1> HIDE DEF q
<1>2. OfTheUrl(p) => OfTheUrl(q)
  BY <1>1 DEF OfTheUrl
<1> QED BY <1>1, <1>2 DEF q

\* The trail and the URL go on together, or back.
LEMMA TrailMoves ==
    ASSUME OfTheUrl(panel), NEW next \in Seq(Things), NEW url \in AnyUrl, Panel!Trail(url) = next,
           panel' = Panel!Settled(Panel!Follow([panel EXCEPT !.stack = next, !.popped = FALSE], url), panel)
    PROVE  OfTheUrl(panel)' /\ ShowsTheSame(panel')
<1> DEFINE p == [panel EXCEPT !.stack = next, !.popped = FALSE]
           q == Panel!Follow(p, url)
<1>0. DOMAIN panel = PanelFields
  BY DEF OfTheUrl
<1>1. /\ DOMAIN p = PanelFields /\ p.stack = next /\ p.popped = FALSE /\ p.load = panel.load
      /\ p.verb = panel.verb /\ p.data = panel.data
  BY <1>0 DEF PanelFields
<1>2. panel' = Panel!Settled(q, panel)
  OBVIOUS
<1> HIDE DEF p
<1>3. Followed(q, p, url)
  BY <1>1, FollowFields
<1> HIDE DEF q
<1>4. DOMAIN q = PanelFields /\ q.url = url /\ q.address = url /\ q.stack = next /\ ~q.popped /\ q.load = panel.load /\ q.verb = panel.verb /\ q.data = panel.data
  BY <1>1, <1>3 DEF Followed
<1>5. /\ DOMAIN panel' = PanelFields /\ panel'.url = url /\ panel'.address = url /\ panel'.stack = next /\ ~panel'.popped
      /\ panel'.verb = panel.verb /\ panel'.data = panel.data
      /\ panel'.load = IF Panel!HeadOf(next) = Panel!HeadOf(panel.stack) THEN panel.load ELSE {Panel!HeadOf(next)}
  <2>1. CASE Panel!HeadOf(next) = Panel!HeadOf(panel.stack)
    <3>1. panel' = q
      BY <1>2, <1>4, <2>1 DEF Panel!Settled
    <3> QED BY <1>4, <2>1, <3>1
  <2>2. CASE Panel!HeadOf(next) # Panel!HeadOf(panel.stack)
    <3>1. panel' = [q EXCEPT !.load = {Panel!HeadOf(next)}]
      BY <1>2, <1>4, <2>2 DEF Panel!Settled, Panel!Reloaded
    <3> QED BY <1>4, <2>2, <3>1 DEF PanelFields
  <2> QED BY <2>1, <2>2
<1>6. Panel!HeadOf(next) = url.obj
  BY TrailOfUrl
<1>7. \A x : x = panel' => OfTheUrl(x)
  BY <1>5, <1>6, MovedPanel
<1> QED BY <1>5, <1>7 DEF ShowsTheSame, OfTheUrl

\* What a URL of the page can say is typed.
LEMMA UrlsAreTyped ==
    /\ \A id \in Things, objstack \in Seq(Things) :
           LET url == Panel!Url(id, objstack)
           IN  url \in AnyUrl /\ url.obj = id /\ Panel!Trail(url) = Append(objstack, id)
    /\ Panel!Closed \in AnyUrl /\ Panel!Closed.obj = None /\ Panel!Trail(Panel!Closed) = <<>>
    /\ Panel!Urls \subseteq AnyUrl
<1>1. \A id \in Things, objstack \in Seq(Things) :
          LET url == Panel!Url(id, objstack)
          IN  url \in AnyUrl /\ url.obj = id /\ Panel!Trail(url) = Append(objstack, id)
  BY NothingIsNoThing DEF Panel!Url, Panel!Trail, AnyUrl, Panel!None, None
<1>2. Panel!Closed \in AnyUrl /\ Panel!Closed.obj = None /\ Panel!Trail(Panel!Closed) = <<>>
  BY DEF Panel!Closed, Panel!Url, Panel!Trail, AnyUrl, Panel!None, None
<1>3. Panel!Urls \subseteq AnyUrl
  <2>1. \A id \in Things : <<id>> \in Seq(Things)
    OBVIOUS
  <2>2. ASSUME NEW s \in {<<>>} \cup {<<id>> : id \in Things} PROVE s \in Seq(Things)
    <3>1. CASE s = <<>>
      BY <3>1
    <3>2. CASE \E id \in Things : s = <<id>>
      BY <2>1, <3>2
    <3> QED BY <3>1, <3>2
  <2>3. {Panel!Url(obj, objstack) : obj \in Things, objstack \in {<<>>} \cup {<<id>> : id \in Things}} \subseteq AnyUrl
    BY <1>1, <2>2
  <2> QED BY <1>2, <2>3 DEF Panel!Urls
<1> QED BY <1>1, <1>2, <1>3

\* The operations of the trail, and the browser's.
LEMMA TrailKeepsUrl ==
    ASSUME OfTheUrl(panel),
           \/ Panel!CloseObject \/ Panel!back \/ Panel!onRelViewChange
           \/ \E id \in Things : Panel!OpenObject(id) \/ Panel!traverse(id)
           \/ \E url \in Panel!Urls : Panel!PopState(url)
           \/ \E url : Panel!PaletteWrites(url)
    PROVE  OfTheUrl(panel)' /\ ShowsTheSame(panel')
<1>0. DOMAIN panel = PanelFields /\ panel.stack \in Seq(Things) /\ panel.url \in AnyUrl /\ panel.url.obj \in Things \cup {None}
  BY DEF OfTheUrl, AnyUrl
<1>1. ASSUME NEW url \in AnyUrl, url.obj # panel.url.obj
      PROVE  LET q == Panel!Follow(panel, url)
             IN  OfTheUrl(q) /\ ShowsTheSame(q) /\ DOMAIN q = PanelFields /\ ~q.popped
  <2>1. Followed(Panel!Follow(panel, url), panel, url)
    BY <1>0, FollowFields
  <2>2. OfTheUrl(Panel!Follow(panel, url))
    BY <1>1, FollowKeepsUrl
  <2> QED BY <1>1, <2>1, <2>2 DEF Followed, ShowsTheSame
<1>2. \A id \in Things, objstack \in Seq(Things) :
          LET url == Panel!Url(id, objstack)
          IN  url \in AnyUrl /\ url.obj = id /\ Panel!Trail(url) = Append(objstack, id)
  BY UrlsAreTyped
<1>3. Panel!Closed \in AnyUrl /\ Panel!Closed.obj = None
  BY UrlsAreTyped
<1>4. Panel!Urls \subseteq AnyUrl
  BY UrlsAreTyped
<1>5. ASSUME NEW id \in Things, Panel!OpenObject(id) PROVE OfTheUrl(panel)' /\ ShowsTheSame(panel')
  <2>1. <<>> \in Seq(Things) /\ panel.url.obj = None
    BY <1>5 DEF Panel!OpenObject, Panel!None, None
  <2>2. Panel!Url(id, <<>>) \in AnyUrl /\ Panel!Url(id, <<>>).obj # panel.url.obj
    BY <1>2, <2>1, NothingIsNoThing
  <2>3. panel' = Panel!Follow(panel, Panel!Url(id, <<>>))
    BY <1>5 DEF Panel!OpenObject
  <2> QED BY <1>1, <2>2, <2>3 DEF OfTheUrl
<1>6. CASE Panel!CloseObject
  <2> DEFINE q == Panel!Follow(panel, Panel!Closed)
  <2>1. panel.url.obj # None /\ panel' = Panel!Unmounted(q)
    BY <1>6 DEF Panel!CloseObject, Panel!None, None
  <2>2. OfTheUrl(q) /\ ShowsTheSame(q) /\ DOMAIN q = PanelFields
    BY <1>1, <1>3, <2>1
  <2> HIDE DEF q
  <2>3. \A x : x = panel' => OfTheUrl(x) /\ ShowsTheSame(x)
    BY <2>1, <2>2, UnmountedKeepsUrl DEF ShowsTheSame
  <2> QED BY <2>3 DEF OfTheUrl
<1>7. ASSUME NEW id \in Things, Panel!traverse(id) PROVE OfTheUrl(panel)' /\ ShowsTheSame(panel')
  <2>1. panel' = Panel!Settled(Panel!Follow([panel EXCEPT !.stack = Append(panel.stack, id), !.popped = FALSE],
                                            Panel!Url(id, panel.stack)), panel)
    BY <1>7 DEF Panel!traverse
  <2>2. Append(panel.stack, id) \in Seq(Things)
    BY <1>0
  <2> QED BY <1>0, <1>2, <2>1, <2>2, TrailMoves
<1>8. CASE Panel!back
  <2> DEFINE next == Panel!Front(panel.stack)
             url == Panel!Url(Panel!Last(next), Panel!Front(next))
  <2>1. Len(panel.stack) > 1 /\ panel' = Panel!Settled(Panel!Follow([panel EXCEPT !.stack = next, !.popped = FALSE], url), panel)
    BY <1>8 DEF Panel!back
  <2>2. panel.stack # <<>>
    BY <2>1
  <2>3. next \in Seq(Things) /\ Len(next) = Len(panel.stack) - 1
    BY <1>0, <2>2, FrontAndLast
  <2>4. next # <<>> /\ Len(next) \in 1 .. Len(next)
    BY <1>0, <2>1, <2>3
  <2>5. Panel!Front(next) \in Seq(Things) /\ Append(Panel!Front(next), Panel!Last(next)) = next
    BY <2>3, <2>4, FrontAndLast
  <2>6. Panel!Last(next) \in Things
    BY <2>3, <2>4 DEF Panel!Last
  <2>7. url \in AnyUrl /\ Panel!Trail(url) = next
    BY <1>2, <2>5, <2>6
  <2> HIDE DEF next, url
  <2> QED BY <2>1, <2>3, <2>7, TrailMoves
<1>9. ASSUME NEW url \in Panel!Urls, Panel!PopState(url) PROVE OfTheUrl(panel)' /\ ShowsTheSame(panel')
  <2> DEFINE p == Panel!Follow(panel, url)
  <2>0. panel' = IF url.obj = None THEN Panel!Unmounted(p)
                 ELSE [p EXCEPT !.popped = p.popped \/ (url.obj = panel.url.obj /\ url # panel.url)]
    BY <1>9 DEF Panel!PopState, Panel!None, None
  <2>1. Followed(p, panel, url) /\ url \in AnyUrl
    BY <1>0, <1>4, FollowFields
  <2>2. url.obj # panel.url.obj => OfTheUrl(p) /\ ShowsTheSame(p) /\ DOMAIN p = PanelFields /\ ~p.popped
    BY <1>1, <2>1
  <2> HIDE DEF p
  <2>3. ShowsTheSame(p) /\ DOMAIN p = PanelFields
    BY <2>1 DEF Followed, ShowsTheSame
  <2>4. CASE url.obj = None
    <3>1. CASE panel.url.obj = None
      <4>1. panel.stack = <<>> /\ Panel!Trail(url) = <<>>
        BY <2>4, <3>1, HeadOfTrail DEF OfTheUrl, Panel!Trail, Panel!None, None
      <4>2. p.url = url /\ p.address = url /\ p.stack = panel.stack /\ p.load = panel.load /\ p.data = panel.data
        BY <2>1, <2>4, <3>1 DEF Followed
      <4>3. Panel!HeadOf(p.stack) = p.url.obj
        BY <2>4, <3>1, <4>2 DEF OfTheUrl
      <4>4. OfTheUrl(p)
        BY <1>0, <2>1, <2>3, <4>1, <4>2, <4>3, MovedPanel
      <4>5. \A x : x = panel' => OfTheUrl(x) /\ ShowsTheSame(x)
        BY <2>0, <2>3, <2>4, <4>4, UnmountedKeepsUrl DEF ShowsTheSame
      <4> QED BY <4>5 DEF OfTheUrl
    <3>2. CASE panel.url.obj # None
      <4>1. \A x : x = panel' => OfTheUrl(x) /\ ShowsTheSame(x)
        BY <2>0, <2>2, <2>3, <2>4, <3>2, UnmountedKeepsUrl DEF ShowsTheSame
      <4> QED BY <4>1 DEF OfTheUrl
    <3> QED BY <3>1, <3>2
  <2>5. CASE url.obj # None
    <3>1. /\ panel' = [p EXCEPT !.popped = p.popped \/ (url.obj = panel.url.obj /\ url # panel.url)]
          /\ DOMAIN panel' = PanelFields /\ panel'.url = p.url /\ panel'.address = p.address /\ panel'.astray = p.astray /\ panel'.stack = p.stack /\ panel'.load = p.load
          /\ panel'.data = p.data /\ panel'.verb = p.verb
      BY <2>0, <2>3, <2>5 DEF PanelFields
    <3>2. panel'.popped <=> p.popped \/ (url.obj = panel.url.obj /\ url # panel.url)
      BY <2>0, <2>3, <2>5 DEF PanelFields
    <3>3. CASE url.obj # panel.url.obj
      <4>1. \A x : x = panel' => OfTheUrl(x)
        BY <2>2, <3>1, <3>2, <3>3 DEF OfTheUrl
      <4> QED BY <2>3, <3>1, <4>1 DEF OfTheUrl, ShowsTheSame
    <3>4. CASE url.obj = panel.url.obj
      <4>1. p.url = url /\ p.address = url /\ p.stack = panel.stack /\ p.load = panel.load /\ p.popped = panel.popped
        BY <2>1, <3>4 DEF Followed
      <4>2. \A x : x = panel' => OfTheUrl(x)
        BY <1>0, <2>1, <2>3, <3>1, <3>2, <3>4, <4>1, MovedPanel DEF OfTheUrl, ShowsTheSame
      <4> QED BY <2>3, <3>1, <4>2 DEF OfTheUrl, ShowsTheSame
    <3> QED BY <3>3, <3>4
  <2> QED BY <2>4, <2>5
<1>10. ASSUME Panel!onRelViewChange \/ \E url : Panel!PaletteWrites(url) PROVE OfTheUrl(panel)' /\ ShowsTheSame(panel')
  <2>1. /\ DOMAIN panel' = PanelFields /\ panel'.url = panel.url /\ panel'.stack = panel.stack /\ panel'.popped = panel.popped
        /\ panel'.load = panel.load /\ panel'.data = panel.data /\ panel'.verb = panel.verb
        /\ panel'.astray \/ panel'.address = panel.url
    BY <1>0, <1>10 DEF Panel!onRelViewChange, Panel!PaletteWrites, Panel!Agreed, PanelFields
  <2>2. \A x : x = panel' => OfTheUrl(x)
    BY <2>1, SettledPanel
  <2> QED BY <2>1, <2>2 DEF OfTheUrl, ShowsTheSame
<1> QED BY <1>5, <1>6, <1>7, <1>8, <1>9, <1>10

\* A load is delivered: it shows the object it was for, or none.
LEMMA DeliverKeepsUrl ==
    ASSUME OfTheUrl(panel), NEW head \in panel.load, NEW ok \in BOOLEAN, Panel!Deliver(head, ok)
    PROVE  /\ OfTheUrl(panel)' /\ panel'.verb = panel.verb
           /\ panel'.data \subseteq {Panel!Snapshot(id) : id \in {head} \cap Things}
<1> DEFINE got == IF ok THEN {Panel!Snapshot(id) : id \in {head} \ {None}} ELSE {}
           p == [panel EXCEPT !.load = {}, !.data = got]
<1>0. DOMAIN panel = PanelFields /\ head = panel.url.obj /\ head \in Things \cup {None}
  BY DEF OfTheUrl, AnyUrl
<1>1. panel' = IF got = {} THEN Panel!Unmounted(p) ELSE p
  BY DEF Panel!Deliver, Panel!None, None
<1>2. /\ DOMAIN p = PanelFields /\ p.load = {} /\ p.data = got /\ p.verb = panel.verb
      /\ p.url = panel.url /\ p.stack = panel.stack /\ p.popped = panel.popped /\ p.address = panel.address /\ p.astray = panel.astray
  BY <1>0 DEF PanelFields
<1>3. \A shown \in got : shown.id = head
  BY DEF Panel!Snapshot
<1>4. got \subseteq {Panel!Snapshot(id) : id \in {head} \cap Things}
  BY <1>0
<1> HIDE DEF p, got
<1>5. OfTheUrl(p)
  BY <1>0, <1>2, <1>3 DEF OfTheUrl
<1>6. \A x : x = panel' => OfTheUrl(x) /\ x.verb = panel.verb /\ x.data = got
  BY <1>1, <1>2, <1>5, UnmountedKeepsUrl
<1> QED BY <1>4, <1>6 DEF OfTheUrl

\* The form and the calls: the trail stays, and at most its end is loaded anew.
LEMMA FormKeepsUrl ==
    ASSUME OfTheUrl(panel),
           \/ Panel!Tick \/ Panel!Cancel
           \/ \E id \in Things : Panel!TypeId(id)
           \/ \E shown \in panel.data : Panel!onSubmit(shown) \/ Panel!onConfirm(shown)
           \/ \E id \in Things, status \in Healths : Panel!RunFromCard(id, status)
           \/ \E c \in ontology.calls : Panel!AnswerAction(c) \/ Panel!LoseAction(c)
           \/ UNCHANGED panel
    PROVE  OfTheUrl(panel)' /\ ShowsTheSame(panel')
<1>0. DOMAIN panel = PanelFields
  BY DEF OfTheUrl
<1> DEFINE Same(q) == /\ DOMAIN q = PanelFields /\ q.url = panel.url /\ q.stack = panel.stack /\ q.popped = panel.popped
                      /\ q.data = panel.data /\ q.verb = panel.verb /\ q.address = panel.address /\ q.astray = panel.astray
                      /\ q.load \in {panel.load, {Panel!HeadOf(panel.stack)}}
<1>1. \A x : \A f \in {"confirm", "pending"} : Same([panel EXCEPT ![f] = x])
  BY <1>0 DEF PanelFields
<1>2. \A x, y : Same([panel EXCEPT !.pending = x, !.confirm = y])
  BY <1>0 DEF PanelFields
<1>3. Same(panel)
  BY <1>0
<1>4. \A q : Same(q) => Same(Panel!Reloaded(q))
  BY DEF Panel!Reloaded, PanelFields
<1> HIDE DEF Same
<1>5. ASSUME NEW shown \in panel.data, Panel!onSubmit(shown) PROVE \A q : q = panel' => Same(q)
  <2>1. \/ panel' = [panel EXCEPT !.confirm = {""}]
        \/ panel' = [panel EXCEPT !.pending = panel.pending \cup {ontology.actions + 1}, !.confirm = {}]
    BY <1>5 DEF Panel!onSubmit, Panel!RunAction
  <2>2. Same([panel EXCEPT !.confirm = {""}])
    BY <1>1
  <2>3. Same([panel EXCEPT !.pending = panel.pending \cup {ontology.actions + 1}, !.confirm = {}])
    BY <1>2, Zenon
  <2> QED BY <2>1, <2>2, <2>3, Zenon
<1>6. ASSUME NEW shown \in panel.data, Panel!onConfirm(shown) PROVE \A q : q = panel' => Same(q)
  <2>1. panel' = [panel EXCEPT !.pending = panel.pending \cup {ontology.actions + 1}, !.confirm = {}]
    BY <1>6 DEF Panel!onConfirm, Panel!RunAction
  <2>2. Same([panel EXCEPT !.pending = panel.pending \cup {ontology.actions + 1}, !.confirm = {}])
    BY <1>2, Zenon
  <2> QED BY <2>1, <2>2, Zenon
<1>7. ASSUME NEW c \in ontology.calls, Panel!AnswerAction(c) PROVE \A q : q = panel' => Same(q)
  BY <1>1, <1>4, <1>7 DEF Panel!AnswerAction
<1>8. ASSUME NEW c \in ontology.calls, Panel!LoseAction(c) PROVE \A q : q = panel' => Same(q)
  BY <1>1, <1>8 DEF Panel!LoseAction
<1>9. ASSUME Panel!Tick \/ Panel!Cancel \/ UNCHANGED panel \/ (\E id \in Things : Panel!TypeId(id)) PROVE \A q : q = panel' => Same(q)
  BY <1>1, <1>3, <1>4, <1>9 DEF Panel!Tick, Panel!Cancel, Panel!TypeId
<1>10. ASSUME NEW id \in Things, NEW status \in Healths, Panel!RunFromCard(id, status) PROVE \A q : q = panel' => Same(q)
  BY <1>3, <1>10 DEF Panel!RunFromCard
<1>11. \A q : q = panel' => Same(q)
  BY <1>5, <1>6, <1>7, <1>8, <1>9, <1>10
<1>12. \A q : Same(q) => OfTheUrl(q) /\ ShowsTheSame(q)
  <2> SUFFICES ASSUME NEW q, Same(q) PROVE OfTheUrl(q) /\ ShowsTheSame(q)
    OBVIOUS
  <2>1. ~q.astray => q.address = q.url
    BY DEF Same, OfTheUrl
  <2> QED BY <2>1, SettledPanel DEF Same, ShowsTheSame
<1> QED BY <1>11, <1>12 DEF OfTheUrl

\* A panel is opened on a URL, its object being loaded.
LEMMA PanelInit == Init => OfTheUrl(panel)
<1> SUFFICES ASSUME Init PROVE OfTheUrl(panel)
  OBVIOUS
<1>1. Panel!Urls \subseteq AnyUrl /\ Panel!Closed \in AnyUrl
  BY UrlsAreTyped
<1>2. \E verb, caps : \E url \in AnyUrl : panel = Panel!Arrived(verb, caps, url)
  <2>1. CASE live = "panel"
    BY <1>1, <2>1 DEF Init
  <2>2. CASE live = "trails"
    BY <1>1, <2>2 DEF Init
  <2>3. CASE live \notin {"panel", "trails"}
    BY <1>1, <2>3 DEF Init
  <2> QED BY <2>1, <2>2, <2>3
<1> PICK verb, caps : \E url \in AnyUrl : panel = Panel!Arrived(verb, caps, url)
  BY <1>2
<1> PICK url \in AnyUrl : panel = Panel!Arrived(verb, caps, url)
  OBVIOUS
<1>3. Panel!Trail(url) \in Seq(Things) /\ Panel!HeadOf(Panel!Trail(url)) = url.obj
  BY TrailOfUrl
<1> QED BY <1>3 DEF Panel!Arrived, OfTheUrl, PanelFields

\* Every step of the panel keeps it on its URL.
LEMMA PanelStep ==
    ASSUME OfTheUrl(panel), [Panel!PanelNext]_<<panel, ontology>>
    PROVE  /\ OfTheUrl(panel)' /\ panel'.verb = panel.verb
           /\ \/ panel'.data = panel.data
              \/ UNCHANGED ontology /\ panel'.data \subseteq {Panel!Snapshot(id) : id \in Things}
<1>1. ASSUME NEW head \in panel.load, NEW ok \in BOOLEAN, Panel!Deliver(head, ok)
      PROVE  OfTheUrl(panel)' /\ panel'.verb = panel.verb /\ panel'.data \subseteq {Panel!Snapshot(id) : id \in Things}
  <2>1. /\ OfTheUrl(panel)' /\ panel'.verb = panel.verb
        /\ panel'.data \subseteq {Panel!Snapshot(id) : id \in {head} \cap Things}
    BY <1>1, DeliverKeepsUrl
  <2> QED BY <2>1
<1>2. \/ \E head \in panel.load, ok \in BOOLEAN : Panel!Deliver(head, ok) /\ UNCHANGED ontology
      \/ /\ \/ Panel!CloseObject \/ Panel!back \/ Panel!onRelViewChange
            \/ \E id \in Things : Panel!OpenObject(id) \/ Panel!traverse(id)
            \/ \E url \in Panel!Urls : Panel!PopState(url)
            \/ \E url : Panel!PaletteWrites(url)
      \/ /\ \/ Panel!Tick \/ Panel!Cancel
            \/ \E id \in Things : Panel!TypeId(id)
            \/ \E shown \in panel.data : Panel!onSubmit(shown) \/ Panel!onConfirm(shown)
            \/ \E id \in Things, status \in Healths : Panel!RunFromCard(id, status)
            \/ \E c \in ontology.calls : Panel!AnswerAction(c) \/ Panel!LoseAction(c)
            \/ UNCHANGED panel
  BY DEF Panel!PanelNext
<1> QED BY <1>1, <1>2, TrailKeepsUrl, FormKeepsUrl DEF ShowsTheSame

(* The trail on the panel is the one in the browser's URL, unless the      *)
(* palette wrote that after the page and the browser did, and unless the   *)
(* browser went to an entry with the same object and another trail; and    *)
(* the object shown is the last of the trail, unless that is being loaded  *)
(* (web/src/components/ObjectView.tsx, Layout.tsx).                        *)
THEOREM PanelFollowsTheUrl == Spec => []PanelIsOfTheUrl
<1>1. OfTheUrl(panel) => PanelIsOfTheUrl
  BY DEF OfTheUrl, PanelIsOfTheUrl, Panel!PanelIsOfTheUrl
<1>2. OfTheUrl(panel) /\ [Next]_vars => OfTheUrl(panel)'
  <2>1. [Next]_vars => [Panel!PanelNext]_<<panel, ontology>>
    BY DEF Next, vars, ActOnObjects, WalkTrails
  <2> QED BY <2>1, PanelStep
<1> QED BY <1>1, <1>2, PanelInit, PTL DEF Spec

-----------------------------------------------------------------------------
(* The actions on an object.                                               *)

ActionFields == {"n", "target", "revision", "typed", "phase", "ok"}
OntologyFields == {"objects", "actions", "calls", "applied"}
Asks == Panel!Registry!IsDestructive(panel.verb)

ObjectsAreTyped ==
    /\ DOMAIN ontology = OntologyFields /\ DOMAIN ontology.objects = Things
    /\ \A id \in Things : DOMAIN ontology.objects[id] = {"status", "revision", "resolved"} /\ ontology.objects[id].revision \in Nat
\* A revision that was seen is one the object had by now.
Seen(id, revision) == id \in Things /\ revision \in Nat /\ revision <= ontology.objects[id].revision
ShownWasSeen == \A shown \in panel.data : Seen(shown.id, shown.revision)
\* A call states a revision that was seen, and the id that was typed where one is asked for.
CallIsKnown(c) == DOMAIN c = ActionFields /\ Seen(c.target, c.revision) /\ (Asks => c.typed = {c.target})
CallsAreKnown == \A c \in ontology.calls : CallIsKnown(c)
ActionInv == ObjectsAreTyped /\ ShownWasSeen /\ CallsAreKnown /\ ActionsAreAsShown

\* The revision of an object only grows.
Grown == \A id \in Things : ontology'.objects[id].revision >= ontology.objects[id].revision

\* What was seen stays seen.
LEMMA SeenStays ==
    ASSUME ObjectsAreTyped, ObjectsAreTyped', Grown, NEW id, NEW revision, Seen(id, revision)
    PROVE  Seen(id, revision)'
<1>1. id \in Things /\ revision \in Nat /\ revision <= ontology.objects[id].revision
  BY DEF Seen
<1>2. ontology.objects[id].revision \in Nat /\ ontology'.objects[id].revision \in Nat /\ ontology'.objects[id].revision >= ontology.objects[id].revision
  BY <1>1 DEF ObjectsAreTyped, Grown
<1>3. revision <= ontology'.objects[id].revision
  BY <1>1, <1>2
<1> QED BY <1>1, <1>3 DEF Seen

\* A step by which the objects grow, the calls are known, and nothing else is applied.
LEMMA ActionsStayKnown ==
    ASSUME ActionInv, OfTheUrl(panel), [Panel!PanelNext]_<<panel, ontology>>,
           ObjectsAreTyped', Grown,
           \A c \in ontology'.calls : c \in ontology.calls \/ CallIsKnown(c)',
           ontology'.applied = ontology.applied \/ ActionsAreAsShown'
    PROVE  ActionInv'
<1>1. /\ panel'.verb = panel.verb
      /\ \/ panel'.data = panel.data
         \/ UNCHANGED ontology /\ panel'.data \subseteq {Panel!Snapshot(id) : id \in Things}
  BY PanelStep
<1>2. ASSUME NEW id, NEW revision, Seen(id, revision) PROVE Seen(id, revision)'
  BY <1>2, SeenStays DEF ActionInv
<1>3. Asks' = Asks
  BY <1>1 DEF Asks
<1>4. ShownWasSeen'
  <2>1. CASE panel'.data = panel.data
    BY <1>2, <2>1 DEF ActionInv, ShownWasSeen
  <2>2. CASE UNCHANGED ontology /\ panel'.data \subseteq {Panel!Snapshot(id) : id \in Things}
    <3> SUFFICES ASSUME NEW shown \in panel'.data PROVE Seen(shown.id, shown.revision)'
      BY DEF ShownWasSeen
    <3>1. PICK id \in Things : shown = Panel!Snapshot(id)
      BY <2>2
    <3>2. shown.id = id /\ shown.revision = ontology.objects[id].revision
      BY <3>1 DEF Panel!Snapshot
    <3>3. ontology.objects[id].revision \in Nat /\ ontology' = ontology
      BY <2>2 DEF ActionInv, ObjectsAreTyped
    <3>4. shown.id \in Things /\ shown.revision \in Nat /\ shown.revision <= ontology'.objects[shown.id].revision
      BY <3>2, <3>3
    <3> QED BY <3>4 DEF Seen
  <2> QED BY <1>1, <2>1, <2>2
<1>5. CallsAreKnown'
  <2>1. \A c : CallIsKnown(c) => CallIsKnown(c)'
    BY <1>2, <1>3 DEF CallIsKnown
  <2> QED BY <2>1 DEF ActionInv, CallsAreKnown
<1>6. ActionsAreAsShown'
  BY <1>1 DEF ActionInv, ActionsAreAsShown, Panel!ActionsAreAsShown
<1> QED BY <1>4, <1>5, <1>6 DEF ActionInv

\* Calls leave, are sent and are served; objects are acted on by others and drift.
LEMMA ActionStep ==
    ASSUME ActionInv, OfTheUrl(panel), [Panel!PanelNext]_<<panel, ontology>>
    PROVE  ActionInv'
<1> DEFINE objects == ontology.objects
<1>0. /\ DOMAIN ontology = OntologyFields /\ DOMAIN objects = Things
      /\ \A id \in Things : DOMAIN objects[id] = {"status", "revision", "resolved"} /\ objects[id].revision \in Nat
  BY DEF ActionInv, ObjectsAreTyped
<1>1. ASSUME ontology'.objects = objects, DOMAIN ontology' = OntologyFields, ontology'.applied = ontology.applied,
             \A c \in ontology'.calls : c \in ontology.calls \/ CallIsKnown(c)'
      PROVE  ActionInv'
  <2>1. ObjectsAreTyped'
    BY <1>0, <1>1 DEF ObjectsAreTyped
  <2>2. Grown
    BY <1>0, <1>1 DEF Grown
  <2> QED BY <1>1, <2>1, <2>2, ActionsStayKnown
<1>2. CASE UNCHANGED ontology
  BY <1>0, <1>1, <1>2
<1>3. ASSUME NEW target, NEW revision, NEW typed, Panel!Send(target, revision, typed), Seen(target, revision), panel'.verb = panel.verb,
             Asks => typed = {target}
      PROVE  ActionInv'
  <2> DEFINE new == [n |-> ontology.actions + 1, target |-> target, revision |-> revision, typed |-> typed, phase |-> "sent", ok |-> FALSE]
  <2>1. ontology' = [ontology EXCEPT !.actions = ontology.actions + 1, !.calls = ontology.calls \cup {new}]
    BY <1>3 DEF Panel!Send
  <2>2. DOMAIN new = ActionFields /\ new.target = target /\ new.revision = revision /\ new.typed = typed
    BY DEF ActionFields
  <2> HIDE DEF new
  <2>3. /\ ontology'.objects = objects /\ DOMAIN ontology' = OntologyFields /\ ontology'.applied = ontology.applied
        /\ ontology'.calls = ontology.calls \cup {new}
    BY <1>0, <2>1 DEF OntologyFields
  <2>4. Asks' = Asks
    BY <1>3 DEF Asks
  <2>5. Seen(target, revision)'
    BY <1>3, <2>3 DEF Seen
  <2>6. \A c : c = new => CallIsKnown(c)'
    BY <1>3, <2>2, <2>4, <2>5 DEF CallIsKnown
  <2> QED BY <1>1, <2>3, <2>6
<1>4. ASSUME NEW shown \in panel.data, Panel!onSubmit(shown) \/ Panel!onConfirm(shown) PROVE ActionInv'
  <2>1. panel'.verb = panel.verb /\ Seen(shown.id, shown.revision)
    BY PanelStep DEF ActionInv, ShownWasSeen
  <2>2. CASE Panel!onSubmit(shown)
    <3>1. UNCHANGED ontology \/ (~Asks /\ Panel!Send(shown.id, shown.revision, panel.confirm))
      BY <2>2 DEF Panel!onSubmit, Panel!RunAction, Asks
    <3> QED BY <1>2, <1>3, <2>1, <3>1
  <2>3. CASE Panel!onConfirm(shown)
    <3>1. Panel!Send(shown.id, shown.revision, panel.confirm) /\ panel.confirm = {shown.id}
      BY <2>3 DEF Panel!onConfirm, Panel!RunAction
    <3> QED BY <1>3, <2>1, <3>1
  <2> QED BY <1>4, <2>2, <2>3
<1>5. ASSUME NEW id \in Things, NEW status \in Healths, Panel!RunFromCard(id, status) PROVE ActionInv'
  <2>1. Panel!Send(id, Panel!NotStated, {id}) /\ UNCHANGED panel
    BY <1>5 DEF Panel!RunFromCard
  <2>2. Seen(id, Panel!NotStated)
    BY <1>0 DEF Seen, Panel!NotStated
  <2> QED BY <1>3, <2>1, <2>2
<1>6. ASSUME NEW c \in ontology.calls, Panel!AnswerAction(c) \/ Panel!LoseAction(c) PROVE ActionInv'
  <2>1. ontology' = [ontology EXCEPT !.calls = ontology.calls \ {c}]
    BY <1>6 DEF Panel!AnswerAction, Panel!LoseAction
  <2>2. /\ ontology'.objects = objects /\ DOMAIN ontology' = OntologyFields /\ ontology'.applied = ontology.applied
        /\ ontology'.calls = ontology.calls \ {c}
    BY <1>0, <2>1 DEF OntologyFields
  <2> QED BY <1>1, <2>2
<1>7. \A now : DOMAIN now = {"status", "revision", "resolved"} /\ now.revision \in Nat
          => LET then == Panel!Overridden(now)
             IN  DOMAIN then = {"status", "revision", "resolved"} /\ then.revision = now.revision + 1
  BY DEF Panel!Overridden
\* One object becomes another of at least its revision.
<1>8. ASSUME NEW id \in Things, NEW object, DOMAIN ontology' = OntologyFields, ontology'.objects = [objects EXCEPT ![id] = object],
             DOMAIN object = {"status", "revision", "resolved"}, object.revision \in Nat, object.revision >= objects[id].revision
      PROVE  ObjectsAreTyped' /\ Grown
  <2>1. DOMAIN ontology'.objects = Things /\ \A x \in Things : ontology'.objects[x] = IF x = id THEN object ELSE objects[x]
    BY <1>0, <1>8
  <2>2. ObjectsAreTyped'
    BY <1>0, <1>8, <2>1 DEF ObjectsAreTyped
  <2>3. Grown
    BY <1>0, <1>8, <2>1 DEF Grown
  <2> QED BY <2>2, <2>3
<1>9. ASSUME NEW id \in Things, NEW object, NEW actions, ontology' = [ontology EXCEPT !.actions = actions, !.objects = [objects EXCEPT ![id] = object]],
             DOMAIN object = {"status", "revision", "resolved"}, object.revision \in Nat, object.revision >= objects[id].revision
      PROVE  ActionInv'
  <2>1. /\ DOMAIN ontology' = OntologyFields /\ ontology'.objects = [objects EXCEPT ![id] = object]
        /\ ontology'.calls = ontology.calls /\ ontology'.applied = ontology.applied
    BY <1>0, <1>9 DEF OntologyFields
  <2>2. ObjectsAreTyped' /\ Grown
    BY <1>8, <1>9, <2>1
  <2> QED BY <2>1, <2>2, ActionsStayKnown
<1>10. ASSUME NEW id \in Things, Panel!ServeElse(id) PROVE ActionInv'
  <2>1. ontology' = [ontology EXCEPT !.actions = ontology.actions + 1, !.objects = [objects EXCEPT ![id] = Panel!Overridden(objects[id])]]
    BY <1>0, <1>10 DEF Panel!ServeElse, OntologyFields
  <2>2. LET then == Panel!Overridden(objects[id])
        IN  DOMAIN then = {"status", "revision", "resolved"} /\ then.revision = objects[id].revision + 1
    BY <1>0, <1>7
  <2>3. objects[id].revision + 1 \in Nat /\ objects[id].revision + 1 >= objects[id].revision
    BY <1>0
  <2> QED BY <1>9, <2>1, <2>2, <2>3
<1>11. ASSUME NEW id \in Things, NEW status, Panel!Drift(id, status) PROVE ActionInv'
  <2> DEFINE then == [objects[id] EXCEPT !.status = status]
  <2>1. ontology' = [ontology EXCEPT !.actions = ontology.actions, !.objects = [objects EXCEPT ![id] = then]]
    BY <1>0, <1>11 DEF Panel!Drift, OntologyFields
  <2>2. DOMAIN then = {"status", "revision", "resolved"} /\ then.revision = objects[id].revision
    BY <1>0
  <2>3. objects[id].revision \in Nat /\ objects[id].revision >= objects[id].revision
    BY <1>0
  <2> HIDE DEF then, objects
  <2>4. then.revision \in Nat /\ then.revision >= objects[id].revision
    BY <2>2, <2>3
  <2> QED BY <1>9, <2>1, <2>2, <2>4
<1>12. ASSUME NEW id \in Things, Panel!SnoozeElse(id) PROVE ActionInv'
  <2> DEFINE then == [objects[id] EXCEPT !.resolved = FALSE]
  <2>1. ontology' = [ontology EXCEPT !.actions = ontology.actions, !.objects = [objects EXCEPT ![id] = then]]
    BY <1>0, <1>12 DEF Panel!SnoozeElse, OntologyFields
  <2>2. DOMAIN then = {"status", "revision", "resolved"} /\ then.revision = objects[id].revision
    BY <1>0
  <2>3. objects[id].revision \in Nat /\ objects[id].revision >= objects[id].revision
    BY <1>0
  <2> HIDE DEF then, objects
  <2>4. then.revision \in Nat /\ then.revision >= objects[id].revision
    BY <2>2, <2>3
  <2> QED BY <1>9, <2>1, <2>2, <2>4
<1>13. ASSUME NEW c \in ontology.calls, NEW there \in BOOLEAN, Panel!Serve(c, there), UNCHANGED panel PROVE ActionInv'
  <2> DEFINE now == objects[c.target]
             outcome == IF there THEN Panel!ApplyAction(c, now) ELSE "error"
             new == [c EXCEPT !.phase = "served", !.ok = outcome = "ok"]
             answered == [ontology EXCEPT !.calls = (ontology.calls \ {c}) \cup {new}]
             applied == [target |-> c.target, stated |-> c.revision, typed |-> c.typed, found |-> now]
  <2>0. CallIsKnown(c) /\ Seen(c.target, c.revision) /\ c.target \in Things
    BY DEF ActionInv, CallsAreKnown, CallIsKnown, Seen
  <2>1. ontology' = IF outcome = "ok"
                      THEN [answered EXCEPT !.objects = [answered.objects EXCEPT ![c.target] = Panel!Overridden(now)], !.applied = {applied}]
                      ELSE answered
    BY <1>13 DEF Panel!Serve
  <2>2. DOMAIN new = ActionFields /\ new.target = c.target /\ new.revision = c.revision /\ new.typed = c.typed
    BY <2>0 DEF CallIsKnown, ActionFields
  <2> HIDE DEF new
  <2>3. /\ DOMAIN answered = OntologyFields /\ answered.objects = objects /\ answered.applied = ontology.applied
        /\ answered.calls = (ontology.calls \ {c}) \cup {new}
    BY <1>0 DEF OntologyFields
  <2> HIDE DEF answered
  <2>4. Asks' = Asks
    BY <1>13 DEF Asks
  <2>5. ASSUME Seen(c.target, c.revision)' PROVE \A x : x = new => CallIsKnown(x)'
    BY <2>0, <2>2, <2>4, <2>5 DEF CallIsKnown
  <2>6. CASE outcome # "ok"
    <3>1. ontology' = answered
      BY <2>1, <2>6
    <3>2. Seen(c.target, c.revision)'
      BY <2>0, <2>3, <3>1 DEF Seen
    <3> QED BY <1>1, <2>3, <2>5, <3>1, <3>2
  <2>7. CASE outcome = "ok"
    <3> DEFINE then == Panel!Overridden(now)
    <3>1. DOMAIN then = {"status", "revision", "resolved"} /\ then.revision = now.revision + 1
      BY <1>0, <1>7, <2>0
    <3>2. now.revision \in Nat /\ now.revision + 1 \in Nat /\ now.revision + 1 >= now.revision
      BY <1>0, <2>0
    <3> HIDE DEF then, applied
    <3>3. ontology' = [answered EXCEPT !.objects = [objects EXCEPT ![c.target] = then], !.applied = {applied}]
      BY <2>1, <2>3, <2>7 DEF then
    <3>4. /\ DOMAIN ontology' = OntologyFields /\ ontology'.objects = [objects EXCEPT ![c.target] = then]
          /\ ontology'.applied = {applied} /\ ontology'.calls = (ontology.calls \ {c}) \cup {new}
      BY <2>3, <3>3 DEF OntologyFields
    <3>5. ObjectsAreTyped' /\ Grown
      BY <1>8, <2>0, <3>1, <3>2, <3>4
    <3>6. Seen(c.target, c.revision)'
      BY <2>0, <3>5, SeenStays DEF ActionInv
    <3>7. /\ Panel!Registry!EvaluateSubmission(panel.verb, panel.caps, now.status)
          /\ ~(c.revision # Panel!NotStated /\ c.revision < now.revision)
      BY <2>7 DEF Panel!ApplyAction
    <3>8. c.revision \in {Panel!NotStated, now.revision}
      BY <2>0, <3>2, <3>7 DEF Seen
    <3>9. /\ applied.stated \in {Panel!NotStated, applied.found.revision}
          /\ applied.found.status \in Panel!Registry!ActionRegistry[panel.verb].allowedStatus
          /\ Asks => applied.typed = {applied.target}
      BY <2>0, <3>7, <3>8 DEF applied, CallIsKnown, Panel!Registry!EvaluateSubmission
    <3>10. ActionsAreAsShown'
      BY <1>13, <3>4, <3>9 DEF ActionsAreAsShown, Panel!ActionsAreAsShown, Asks
    <3> QED BY <2>5, <3>4, <3>5, <3>6, <3>10, ActionsStayKnown
  <2> QED BY <2>6, <2>7
<1> QED BY <1>2, <1>4, <1>5, <1>6, <1>10, <1>11, <1>12, <1>13 DEF Panel!PanelNext

\* Nothing was acted on when a panel is opened.
LEMMA ActionInit == Init => ActionInv
<1> SUFFICES ASSUME Init PROVE ActionInv
  OBVIOUS
<1>1. PICK verb, caps, url : panel = Panel!Arrived(verb, caps, url)
  <2>1. CASE live = "panel"
    BY <2>1 DEF Init
  <2>2. CASE live = "trails"
    BY <2>2 DEF Init
  <2>3. CASE live \notin {"panel", "trails"}
    BY <2>3 DEF Init
  <2> QED BY <2>1, <2>2, <2>3
<1>2. panel.data = {}
  BY <1>1 DEF Panel!Arrived
<1>3. ontology = Panel!Founded([id \in Things |-> FirstStatus])
  BY DEF Init
<1>4. /\ ontology.calls = {} /\ ontology.applied = {} /\ DOMAIN ontology = OntologyFields
      /\ ontology.objects = [id \in Things |-> [status |-> [x \in Things |-> FirstStatus][id], revision |-> 1, resolved |-> FALSE]]
  BY <1>3 DEF Panel!Founded, OntologyFields
<1>5. ObjectsAreTyped
  BY <1>4 DEF ObjectsAreTyped
<1> QED BY <1>2, <1>4, <1>5 DEF ActionInv, ShownWasSeen, CallsAreKnown, ActionsAreAsShown, Panel!ActionsAreAsShown

(* The action applied last met the object as its form showed it: at the    *)
(* revision the form stated, in a status the verb is allowed in, and a     *)
(* destructive verb with the id of that object typed (ActionForm.tsx,      *)
(* applyAction).                                                           *)
THEOREM ActionsMeetWhatWasShown == Spec => []ActionsAreAsShown
<1>1. ActionInv => ActionsAreAsShown
  BY DEF ActionInv
<1>2. ActionInv /\ OfTheUrl(panel) /\ [Next]_vars => ActionInv' /\ OfTheUrl(panel)'
  <2>1. [Next]_vars => [Panel!PanelNext]_<<panel, ontology>>
    BY DEF Next, vars, ActOnObjects, WalkTrails
  <2> QED BY <2>1, ActionStep, PanelStep
<1> QED BY <1>1, <1>2, ActionInit, PanelInit, PTL DEF Spec

-----------------------------------------------------------------------------
(* The cards with one value.                                               *)

CardFields == {"of", "view", "draft", "edited", "saving", "testing", "error", "calls", "asked", "newest", "overtaken"}
AskFields == {"n", "what", "text", "served", "ok"}

Asked(what) == {c \in card.calls : c.what = what}
Chain == {c \in card.calls : c.what \in {"save", "poll"}}

\* A save waits for the one before, and so does the restart it begins.
DraftType ==
    /\ DOMAIN card = CardFields /\ card.of \in Cards!Cards
    /\ card.asked \in Nat /\ card.newest \in Nat /\ card.newest <= card.asked
    /\ \A c \in card.calls : DOMAIN c = AskFields /\ c.n \in Nat /\ c.n <= card.asked /\ (c.what = "upload" => card.of.inBrowser)
    /\ \A c \in card.calls : c.what \in {"load", "save", "poll", "test", "upload"}
    /\ DOMAIN stored = {"value", "rolling", "phase"}
    /\ (\A c, d \in Chain : c = d) /\ (Chain # {} => card.saving)

\* What is kept in the browser is known at once.
KeptHere ==
    card.of.inBrowser =>
        /\ stored.value = card.view /\ stored.phase = "ready"
        /\ \A c \in card.calls : c.what \in {"upload", "test"}

\* A policy: its fields are open once it is loaded, and without an edit they are what is in force.
PolicyInForce ==
    card.of.dirty = "flag" =>
        /\ stored.phase = "ready"
        /\ \A c \in card.calls : c.what \in {"load", "save", "test"}
        /\ \A c \in Asked("load") : ~Cards!Loaded /\ Asked("load") = {c} /\ Asked("save") = {}
        /\ \A c \in card.calls : c.what # "test" /\ c.served /\ c.ok => c.text = stored.value
        /\ Asked("save") # {} => card.edited
        /\ Cards!Loaded /\ ~card.edited => card.draft = stored.value

\* A configuration: when nothing is restarted and no error is told, what is not its value was asked for again.
Settled == ~card.saving /\ ~card.error
AskedAfter(n) == \E c \in Asked("load") : c.n > n
ConfigurationRuns ==
    card.of.restarts =>
        /\ Settled => stored.phase # "reconfiguring"
        /\ \A c \in Asked("poll") : c.served /\ c.text # "reconfiguring" => stored.phase # "reconfiguring"
        /\ Settled => \A c \in Asked("load") : c.served => c.text = stored.value \/ AskedAfter(c.n) \/ card.newest > c.n
        /\ Settled /\ Cards!Loaded /\ ~card.overtaken => card.view = stored.value \/ AskedAfter(card.newest)

DraftInv == DraftType /\ KeptHere /\ PolicyInForce /\ ConfigurationRuns

\* What the cards are: they are kept in the browser, tell by a flag what is to be saved, or restart the server.
KindsOf(of) ==
    /\ of.inBrowser => of.dirty \in {"differs", "trimmed"} /\ ~of.restarts
    /\ ~of.inBrowser => ~of.uploads /\ ~of.atOnce /\ of.undo # "kept"
    /\ ~of.inBrowser /\ ~of.restarts => of.dirty = "flag" /\ of.undo = "none"
    /\ of.restarts => of.dirty = "differs" /\ ~of.clears /\ of.told = "card" /\ ~of.inBrowser
\* Every card is of one of these kinds.
LEMMA KindsOfCards == \A of \in Cards!Cards : KindsOf(of)
<1> USE DEF Cards!Plain, Cards!None, Cards!++
<1>1. KindsOf(Cards!GuardPolicyPanel)
  <2>1. LET of == Cards!GuardPolicyPanel
        IN  of.inBrowser = FALSE /\ of.dirty = "flag" /\ of.restarts = FALSE /\ of.uploads = FALSE /\ of.atOnce = FALSE /\ of.undo = "none"
    BY DEF Cards!GuardPolicyPanel, Cards!PolicyLoad, Cards!PolicyUpdate, Cards!PolicySave, Cards!PolicyTest, Cards!PolicyView
  <2> QED BY <2>1 DEF KindsOf
<1>2. KindsOf(Cards!MaskingPolicyPanel)
  <2>1. LET of == Cards!MaskingPolicyPanel
        IN  of.inBrowser = FALSE /\ of.dirty = "flag" /\ of.restarts = FALSE /\ of.uploads = FALSE /\ of.atOnce = FALSE /\ of.undo = "none"
    BY DEF Cards!MaskingPolicyPanel, Cards!MaskingLoad, Cards!MaskingPatch, Cards!MaskingSave, Cards!MaskingView
  <2> QED BY <2>1 DEF KindsOf
<1>3. KindsOf(Cards!ReconfigurePanel)
  <2>1. LET of == Cards!ReconfigurePanel
        IN  of.inBrowser = FALSE /\ of.dirty = "differs" /\ of.restarts = TRUE /\ of.uploads = FALSE /\ of.atOnce = FALSE /\ of.undo = "fields" /\ of.clears = FALSE /\ of.told = "card"
    BY DEF Cards!ReconfigurePanel, Cards!ReconfigureLoad, Cards!ReconfigureSave, Cards!ReconfigureView, Cards!FieldRow
  <2> QED BY <2>1 DEF KindsOf
<1>4. KindsOf(Cards!LocalModelCard)
  <2>1. LET of == Cards!LocalModelCard
        IN  of.inBrowser = TRUE /\ of.dirty = "differs" /\ of.restarts = FALSE
    BY DEF Cards!LocalModelCard, Cards!LocalModelSave, Cards!LocalModelTest, Cards!LocalModelView
  <2> QED BY <2>1 DEF KindsOf
<1>5. KindsOf(Cards!WhiteLabelCard)
  <2>1. LET of == Cards!WhiteLabelCard
        IN  of.inBrowser = TRUE /\ of.dirty = "trimmed" /\ of.restarts = FALSE
    BY DEF Cards!WhiteLabelCard, Cards!WhiteLabelSave, Cards!WhiteLabelUpload, Cards!WhiteLabelView
  <2> QED BY <2>1 DEF KindsOf
<1>6. KindsOf(Cards!BrandColorCard)
  <2>1. LET of == Cards!BrandColorCard
        IN  of.inBrowser = TRUE /\ of.dirty = "differs" /\ of.restarts = FALSE
    BY DEF Cards!BrandColorCard
  <2> QED BY <2>1 DEF KindsOf
<1> QED BY <1>1, <1>2, <1>3, <1>4, <1>5, <1>6 DEF Cards!Cards

\* The card that is live is of a kind.
LEMMA KindOfCard == DraftInv => KindsOf(card.of) /\ (card.of.dirty = "flag" => ~card.of.inBrowser /\ ~card.of.restarts)
<1>1. DraftInv => KindsOf(card.of)
  BY KindsOfCards DEF DraftInv, DraftType
<1>2. KindsOf(card.of) => (card.of.dirty = "flag" => ~card.of.inBrowser /\ ~card.of.restarts)
  BY DEF KindsOf
<1> QED BY <1>1, <1>2

\* A card is opened before its value is loaded, or with what the browser keeps.
LEMMA DraftInit == Init => DraftInv
<1> SUFFICES ASSUME Init PROVE DraftInv
  OBVIOUS
<1>1. PICK of \in Cards!Cards : card = Cards!Visit(of)
  BY DEF Init, Cards!Cards
<1>2. stored = Cards!Stored
  BY DEF Init
<1>3. KindsOf(of)
  BY KindsOfCards
<1>4. /\ DOMAIN card = CardFields /\ card.of = of /\ card.asked = 1 /\ card.newest = 0
      /\ card.view = IF of.inBrowser THEN Cards!Default ELSE Cards!None
      /\ card.calls = IF of.inBrowser THEN {} ELSE {Cards!Call(1, "load", Cards!None)}
  BY <1>1 DEF Cards!Visit, CardFields
<1>5. LET c == Cards!Call(1, "load", Cards!None)
      IN  DOMAIN c = AskFields /\ c.n = 1 /\ c.what = "load" /\ c.served = FALSE
  BY DEF Cards!Call, AskFields
<1>6. DOMAIN stored = {"value", "rolling", "phase"} /\ stored.value = Cards!Default /\ stored.phase = "ready"
  BY <1>2 DEF Cards!Stored
<1>7. DraftType
  BY <1>4, <1>5, <1>6 DEF DraftType, Chain
<1>8. KeptHere
  BY <1>4, <1>6 DEF KeptHere
<1>9. PolicyInForce
  BY <1>3, <1>4, <1>5, <1>6 DEF PolicyInForce, Asked, Cards!Loaded, KindsOf
<1>10. ConfigurationRuns
  BY <1>3, <1>4, <1>5, <1>6 DEF ConfigurationRuns, Asked, Cards!Loaded, KindsOf
<1> QED BY <1>7, <1>8, <1>9, <1>10 DEF DraftInv

\* Only the fields, and what the browser keeps, change.
OnlyFields ==
    /\ DOMAIN card' = CardFields /\ card'.of = card.of /\ card'.calls = card.calls /\ card'.asked = card.asked /\ card'.newest = card.newest
    /\ card'.saving = card.saving /\ card'.error = card.error /\ card'.overtaken = card.overtaken
    /\ DOMAIN stored' = DOMAIN stored /\ stored'.phase = stored.phase
    /\ card.of.inBrowser => (stored.value = card.view => stored'.value = card'.view)
    /\ ~card.of.inBrowser => stored'.value = stored.value /\ card'.view = card.view
    /\ card.of.dirty = "flag" => card'.edited = TRUE \/ (card'.edited = card.edited /\ card'.draft = card.draft)

\* What is edited, taken back, or kept in the browser: no call to the server comes or goes.
LEMMA FieldsKeepDrafts ==
    ASSUME DraftInv,
           \/ \E text \in Texts : Cards!update(text)
           \/ Cards!Revert \/ Cards!SaveHere
           \/ UNCHANGED <<card, stored>>
    PROVE  DraftInv'
<1>0. KindsOf(card.of) /\ (card.of.dirty = "flag" => ~card.of.inBrowser /\ ~card.of.restarts) /\ DOMAIN card = CardFields
  BY KindOfCard DEF DraftInv, DraftType
<1>1. OnlyFields
  <2>0. DOMAIN stored = {"value", "rolling", "phase"}
    BY DEF DraftInv, DraftType
  <2>1. ASSUME NEW text \in Texts, Cards!update(text) PROVE OnlyFields
    BY <1>0, <2>0, <2>1 DEF Cards!update, CardFields, KindsOf, OnlyFields
  <2>2. CASE Cards!Revert
    BY <1>0, <2>0, <2>2 DEF Cards!Revert, CardFields, KindsOf, OnlyFields
  <2>3. CASE Cards!SaveHere
    BY <1>0, <2>0, <2>3 DEF Cards!SaveHere, CardFields, KindsOf, OnlyFields
  <2>4. CASE UNCHANGED <<card, stored>>
    BY <1>0, <2>4 DEF OnlyFields
  <2> QED BY <2>1, <2>2, <2>3, <2>4
<1>2. Chain' = Chain /\ \A what : Asked(what)' = Asked(what)
  BY <1>1 DEF OnlyFields, Chain, Asked
<1>3. DraftType'
  BY <1>1, <1>2 DEF OnlyFields, DraftInv, DraftType
<1>4. KeptHere'
  BY <1>1 DEF OnlyFields, DraftInv, KeptHere
<1>5. PolicyInForce'
  <2> SUFFICES ASSUME card.of.dirty = "flag" PROVE PolicyInForce'
    BY <1>1 DEF OnlyFields, PolicyInForce
  <2>1. card'.view = card.view /\ stored'.value = stored.value
    BY <1>0, <1>1 DEF OnlyFields
  <2> QED BY <1>1, <1>2, <2>1 DEF OnlyFields, DraftInv, PolicyInForce, Cards!Loaded
<1>6. ConfigurationRuns'
  <2> SUFFICES ASSUME card.of.restarts PROVE ConfigurationRuns'
    BY <1>1 DEF OnlyFields, ConfigurationRuns
  <2>1. card'.view = card.view /\ stored'.value = stored.value
    BY <1>0, <1>1 DEF OnlyFields, KindsOf
  <2> QED BY <1>1, <1>2, <2>1 DEF OnlyFields, DraftInv, ConfigurationRuns, Cards!Loaded, Settled, AskedAfter
<1> QED BY <1>3, <1>4, <1>5, <1>6 DEF DraftInv

\* A call is sent: a file is read, a value is saved, or tried.
LEMMA SendKeepsDrafts ==
    ASSUME DraftInv, Cards!Upload \/ Cards!save \/ Cards!runTest
    PROVE  DraftInv'
<1>0. /\ KindsOf(card.of) /\ (card.of.dirty = "flag" => ~card.of.inBrowser /\ ~card.of.restarts)
      /\ DOMAIN card = CardFields /\ card.asked \in Nat
  BY KindOfCard DEF DraftInv, DraftType
<1> DEFINE Sent(what, text) ==
        /\ card'.calls = card.calls \cup {Cards!Call(card.asked + 1, what, text)} /\ card'.asked = card.asked + 1
        /\ DOMAIN card' = CardFields /\ card'.of = card.of /\ card'.newest = card.newest
        /\ card'.overtaken = card.overtaken /\ card'.view = card.view /\ card'.draft = card.draft /\ card'.edited = card.edited
        /\ what = "upload" => card.of.inBrowser
        /\ what = "save" => ~card.of.inBrowser /\ Cards!Loaded /\ Cards!dirty /\ ~card.saving /\ card'.saving = TRUE
        /\ what # "save" => card'.saving = card.saving /\ card'.error = card.error
        /\ stored' = stored
<1>1. \E what \in {"upload", "save", "test"} : \E text : Sent(what, text)
  <2>1. CASE Cards!Upload
    <3>1. Sent("upload", card.view)
      BY <1>0, <2>1 DEF Cards!Upload, Cards!Asking, CardFields, KindsOf
    <3> QED BY <3>1
  <2>2. CASE Cards!save
    <3>1. Sent("save", card.draft)
      BY <1>0, <2>2 DEF Cards!save, Cards!Asking, CardFields
    <3> QED BY <3>1
  <2>3. CASE Cards!runTest
    <3>1. Sent("test", Cards!None)
      BY <1>0, <2>3 DEF Cards!runTest, Cards!Asking, CardFields
    <3> QED BY <3>1
  <2> QED BY <2>1, <2>2, <2>3
<1> PICK what \in {"upload", "save", "test"} : \E text : Sent(what, text)
  BY <1>1
<1> PICK text : Sent(what, text)
  OBVIOUS
<1> DEFINE new == Cards!Call(card.asked + 1, what, text)
<1>2. DOMAIN new = AskFields /\ new.n = card.asked + 1 /\ new.what = what /\ new.served = FALSE
  BY DEF Cards!Call, AskFields
<1>3. card'.calls = card.calls \cup {new} /\ card.asked + 1 \in Nat
  BY <1>0, <1>1
<1> HIDE DEF new
<1>4. DraftType'
  <2>1. Chain' = IF what = "save" THEN Chain \cup {new} ELSE Chain
    BY <1>2, <1>3 DEF Chain
  <2>2. what = "save" => Chain = {}
    BY DEF DraftInv, DraftType
  <2>3. \A c \in card'.calls : DOMAIN c = AskFields /\ c.n \in Nat /\ c.n <= card'.asked /\ (c.what = "upload" => card'.of.inBrowser)
    BY <1>0, <1>2, <1>3 DEF DraftInv, DraftType
  <2>4. (\A c, d \in Chain' : c = d) /\ (Chain' # {} => card'.saving)
    BY <2>1, <2>2 DEF DraftInv, DraftType
  <2>5. \A c \in card'.calls : c.what \in {"load", "save", "poll", "test", "upload"}
    BY <1>2, <1>3 DEF DraftInv, DraftType
  <2> QED BY <1>0, <1>3, <2>3, <2>4, <2>5 DEF DraftInv, DraftType
<1>5. KeptHere'
  BY <1>2, <1>3 DEF DraftInv, KeptHere
<1>6. Asked("load")' = Asked("load") /\ Asked("poll")' = Asked("poll") /\ Asked("save")' = IF what = "save" THEN Asked("save") \cup {new} ELSE Asked("save")
  BY <1>2, <1>3 DEF Asked
<1>7. PolicyInForce'
  <2> SUFFICES ASSUME card.of.dirty = "flag" PROVE PolicyInForce'
    BY DEF PolicyInForce
  <2>1. what = "save" => card.edited /\ Asked("load") = {}
    BY DEF DraftInv, PolicyInForce, Cards!dirty
  <2>2. Cards!Loaded' = Cards!Loaded
    BY DEF Cards!Loaded
  <2> QED BY <1>0, <1>2, <1>3, <1>6, <2>1, <2>2 DEF DraftInv, PolicyInForce
<1>8. ConfigurationRuns'
  <2>1. Settled' => Settled /\ what # "save"
    BY DEF Settled
  <2>2. \A n : AskedAfter(n)' = AskedAfter(n)
    BY <1>6 DEF AskedAfter
  <2>3. Cards!Loaded' = Cards!Loaded
    BY DEF Cards!Loaded
  <2> QED BY <1>6, <2>1, <2>2, <2>3 DEF DraftInv, ConfigurationRuns
<1> QED BY <1>4, <1>5, <1>7, <1>8 DEF DraftInv

\* A call is served: a load or a question brings what there is; a save, which is the only one, changes it.
LEMMA ServeKeepsDrafts ==
    ASSUME DraftInv, NEW c \in card.calls, NEW ok \in BOOLEAN, Cards!Serve(c, ok)
    PROVE  DraftInv'
<1>0. /\ KindsOf(card.of) /\ (card.of.dirty = "flag" => ~card.of.inBrowser /\ ~card.of.restarts)
      /\ DOMAIN card = CardFields /\ DOMAIN stored = {"value", "rolling", "phase"}
      /\ DOMAIN c = AskFields /\ c.n \in Nat /\ c.n <= card.asked
  BY KindOfCard DEF DraftInv, DraftType
<1> DEFINE text == IF c.what = "load" THEN stored.value ELSE IF c.what = "poll" THEN stored.phase ELSE c.text
           new == [c EXCEPT !.served = TRUE, !.ok = ok, !.text = text]
<1>1. /\ card' = [card EXCEPT !.calls = (card.calls \ {c}) \cup {new}] /\ ~c.served /\ c.what # "upload"
      /\ stored' = IF c.what # "save" \/ ~ok THEN stored
                   ELSE IF card.of.restarts THEN [stored EXCEPT !.rolling = c.text, !.phase = "reconfiguring"]
                   ELSE [stored EXCEPT !.value = c.text]
  BY DEF Cards!Serve
<1>2. DOMAIN new = AskFields /\ new.n = c.n /\ new.what = c.what /\ new.served = TRUE /\ (new.ok <=> ok) /\ new.text = text
  BY <1>0 DEF AskFields
<1> HIDE DEF new
<1>3. /\ card'.calls = (card.calls \ {c}) \cup {new} /\ DOMAIN card' = CardFields /\ card'.of = card.of /\ card'.asked = card.asked
      /\ card'.newest = card.newest /\ card'.overtaken = card.overtaken /\ card'.view = card.view /\ card'.draft = card.draft
      /\ card'.edited = card.edited /\ card'.saving = card.saving /\ card'.error = card.error
  BY <1>0, <1>1 DEF CardFields
<1>4. /\ DOMAIN stored' = {"value", "rolling", "phase"}
      /\ c.what # "save" \/ ~ok => stored' = stored
      /\ c.what = "save" /\ ok /\ card.of.restarts => stored'.value = stored.value
      /\ c.what = "save" /\ ok /\ ~card.of.restarts => stored'.value = c.text /\ stored'.phase = stored.phase
  BY <1>0, <1>1
<1>5. \A what : Asked(what)' = IF what = c.what THEN (Asked(what) \ {c}) \cup {new} ELSE Asked(what)
  BY <1>2, <1>3 DEF Asked
<1>6. DraftType'
  <2>1. Chain' = IF c.what \in {"save", "poll"} THEN (Chain \ {c}) \cup {new} ELSE Chain
    BY <1>2, <1>3 DEF Chain
  <2>2. (\A d, e \in Chain' : d = e) /\ (Chain' # {} => card'.saving)
    BY <1>3, <2>1 DEF DraftInv, DraftType, Chain
  <2>3. \A d \in card'.calls : DOMAIN d = AskFields /\ d.n \in Nat /\ d.n <= card'.asked /\ (d.what = "upload" => card'.of.inBrowser)
    BY <1>1, <1>2, <1>3 DEF DraftInv, DraftType
  <2>4. \A d \in card'.calls : d.what \in {"load", "save", "poll", "test", "upload"}
    BY <1>2, <1>3 DEF DraftInv, DraftType
  <2> QED BY <1>3, <1>4, <2>2, <2>3, <2>4 DEF DraftInv, DraftType
<1>7. KeptHere'
  BY <1>1, <1>2, <1>3, <1>4 DEF DraftInv, KeptHere
<1>8. PolicyInForce'
  <2> SUFFICES ASSUME card.of.dirty = "flag" PROVE PolicyInForce'
    BY <1>3 DEF PolicyInForce
  <2>1. Cards!Loaded' = Cards!Loaded
    BY <1>3 DEF Cards!Loaded
  <2>2. stored'.phase = "ready" /\ \A d \in card'.calls : d.what \in {"load", "save", "test"}
    BY <1>0, <1>2, <1>3, <1>4 DEF DraftInv, PolicyInForce
  <2>3. \A d \in Asked("load")' : ~Cards!Loaded' /\ Asked("load")' = {d} /\ Asked("save")' = {}
    BY <1>5, <2>1 DEF DraftInv, PolicyInForce, Asked
  <2>4. Asked("save")' # {} => card'.edited
    BY <1>3, <1>5 DEF DraftInv, PolicyInForce, Asked
  <2>5. c.what = "save" => card.edited /\ Asked("load") = {} /\ \A d \in Asked("save") : d = c
    BY DEF DraftInv, PolicyInForce, DraftType, Asked, Chain
  <2>6. \A d \in card'.calls : d.what # "test" /\ d.served /\ d.ok => d.text = stored'.value
    <3> SUFFICES ASSUME NEW d \in card'.calls, d.what # "test", d.served, d.ok PROVE d.text = stored'.value
      OBVIOUS
    <3>1. CASE d = new
      BY <1>0, <1>2, <1>4, <2>2, <3>1
    <3>2. CASE d # new
      <4>1. d \in card.calls /\ d # c /\ d.what \in {"load", "save"}
        BY <1>3, <2>2, <3>2
      <4>2. d.text = stored.value
        BY <4>1 DEF DraftInv, PolicyInForce
      <4>3. c.what # "save"
        BY <2>5, <4>1 DEF Asked
      <4> QED BY <1>4, <4>2, <4>3
    <3> QED BY <3>1, <3>2
  <2>7. Cards!Loaded' /\ ~card'.edited => card'.draft = stored'.value
    BY <1>3, <1>4, <2>1, <2>5 DEF DraftInv, PolicyInForce
  <2> QED BY <2>2, <2>3, <2>4, <2>6, <2>7 DEF PolicyInForce
<1>9. ConfigurationRuns'
  <2> SUFFICES ASSUME card.of.restarts PROVE ConfigurationRuns'
    BY <1>3 DEF ConfigurationRuns
  <2>1. Cards!Loaded' = Cards!Loaded /\ Settled' = Settled
    BY <1>3 DEF Cards!Loaded, Settled
  <2>2. c.what = "save" => ~Settled /\ Asked("poll") = {}
    BY DEF DraftInv, DraftType, Chain, Asked, Settled
  <2>3. stored'.value = stored.value /\ (c.what # "save" => stored' = stored)
    BY <1>4
  <2>4. \A n : AskedAfter(n)' <=> AskedAfter(n)
    BY <1>2, <1>5 DEF AskedAfter, Asked
  <2>5. Settled' => stored'.phase # "reconfiguring"
    BY <2>1, <2>2, <2>3 DEF DraftInv, ConfigurationRuns
  <2>6. \A d \in Asked("poll")' : d.served /\ d.text # "reconfiguring" => stored'.phase # "reconfiguring"
    BY <1>2, <1>5, <2>2, <2>3 DEF DraftInv, ConfigurationRuns
  <2>7. Settled' => \A d \in Asked("load")' : d.served => d.text = stored'.value \/ AskedAfter(d.n)' \/ card'.newest > d.n
    BY <1>2, <1>3, <1>5, <2>1, <2>3, <2>4 DEF DraftInv, ConfigurationRuns
  <2>8. Settled' /\ Cards!Loaded' /\ ~card'.overtaken => card'.view = stored'.value \/ AskedAfter(card.newest)'
    BY <1>3, <2>1, <2>3, <2>4 DEF DraftInv, ConfigurationRuns
  <2> QED BY <1>3, <2>5, <2>6, <2>7, <2>8 DEF ConfigurationRuns, AskedAfter
<1> QED BY <1>6, <1>7, <1>8, <1>9 DEF DraftInv

\* The restart is over, either way: until then a save is under way or told to have failed.
LEMMA RolloutKeepsDrafts ==
    ASSUME DraftInv, NEW ok \in BOOLEAN, Cards!Rollout(ok)
    PROVE  DraftInv'
<1>1. card' = card /\ stored.phase = "reconfiguring" /\ DOMAIN stored' = {"value", "rolling", "phase"} /\ stored'.phase # "reconfiguring"
  BY DEF Cards!Rollout
<1>2. DraftType'
  BY <1>1 DEF DraftInv, DraftType, Chain
<1>3. KeptHere' /\ PolicyInForce'
  BY <1>1 DEF DraftInv, KeptHere, PolicyInForce
<1>4. ConfigurationRuns'
  <2>1. card.of.restarts => ~Settled
    BY <1>1 DEF DraftInv, ConfigurationRuns
  <2>2. Settled' = Settled /\ card'.of = card.of
    BY <1>1 DEF Settled
  <2> QED BY <1>1, <2>1, <2>2 DEF ConfigurationRuns
<1> QED BY <1>2, <1>3, <1>4 DEF DraftInv

\* A call goes, and nothing takes its place.
LEMMA FewerCalls ==
    ASSUME DraftInv, NEW c \in card.calls, card'.calls = card.calls \ {c}, DOMAIN card' = CardFields, card'.of = card.of,
           card'.asked = card.asked, card'.newest \in Nat, card'.newest <= card.asked, DOMAIN stored' = DOMAIN stored,
           c \in Chain \/ card'.saving = card.saving
    PROVE  DraftType' /\ \A what : Asked(what)' = Asked(what) \ {c}
<1>1. Chain' = Chain \ {c} /\ \A what : Asked(what)' = Asked(what) \ {c}
  BY DEF Chain, Asked
<1>2. c \in Chain => Chain' = {}
  BY <1>1 DEF DraftInv, DraftType
<1> QED BY <1>1, <1>2 DEF DraftInv, DraftType

\* A file is added to what the browser keeps; a trial is over.
LEMMA AsideKeepsDrafts ==
    ASSUME DraftInv, NEW c \in card.calls, Cards!AnswerTest(c) \/ (\E ok \in BOOLEAN : Cards!AnswerUpload(c, ok))
    PROVE  DraftInv'
<1>0. /\ KindsOf(card.of) /\ (card.of.dirty = "flag" => ~card.of.inBrowser /\ ~card.of.restarts)
      /\ DOMAIN card = CardFields /\ DOMAIN stored = {"value", "rolling", "phase"} /\ card.newest \in Nat /\ card.newest <= card.asked
      /\ c.what = "upload" => card.of.inBrowser
  BY KindOfCard DEF DraftInv, DraftType
<1> DEFINE Aside ==
        /\ card'.calls = card.calls \ {c} /\ DOMAIN card' = CardFields /\ card'.of = card.of /\ card'.asked = card.asked
        /\ card'.newest = card.newest /\ card'.overtaken = card.overtaken /\ card'.draft = card.draft
        /\ card'.edited = card.edited /\ card'.saving = card.saving /\ card'.error = card.error
        /\ DOMAIN stored' = DOMAIN stored /\ stored'.phase = stored.phase /\ c.what \in {"upload", "test"}
        /\ card.of.inBrowser => (stored.value = card.view => stored'.value = card'.view)
        /\ ~card.of.inBrowser => stored'.value = stored.value /\ card'.view = card.view
<1>1. Aside
  <2>1. CASE Cards!AnswerTest(c)
    BY <1>0, <2>1 DEF Cards!AnswerTest, Cards!Answered, Cards!Came, CardFields
  <2>2. ASSUME NEW ok \in BOOLEAN, Cards!AnswerUpload(c, ok) PROVE Aside
    BY <1>0, <2>2 DEF Cards!AnswerUpload, CardFields
  <2> QED BY <2>1, <2>2
<1>2. DraftType' /\ \A what : Asked(what)' = Asked(what) \ {c}
  BY <1>0, <1>1, FewerCalls
<1>3. Asked("load")' = Asked("load") /\ Asked("save")' = Asked("save") /\ Asked("poll")' = Asked("poll")
  BY <1>1, <1>2 DEF Asked
<1>4. KeptHere'
  BY <1>1 DEF DraftInv, KeptHere
<1>5. PolicyInForce'
  <2> SUFFICES ASSUME card.of.dirty = "flag" PROVE PolicyInForce'
    BY <1>1 DEF PolicyInForce
  <2>1. card'.view = card.view /\ stored'.value = stored.value
    BY <1>0, <1>1
  <2> QED BY <1>1, <1>3, <2>1 DEF DraftInv, PolicyInForce, Cards!Loaded
<1>6. ConfigurationRuns'
  <2> SUFFICES ASSUME card.of.restarts PROVE ConfigurationRuns'
    BY <1>1 DEF ConfigurationRuns
  <2>1. card'.view = card.view /\ stored'.value = stored.value
    BY <1>0, <1>1 DEF KindsOf
  <2> QED BY <1>1, <1>3, <2>1 DEF DraftInv, ConfigurationRuns, Cards!Loaded, Settled, AskedAfter
<1> QED BY <1>2, <1>4, <1>5, <1>6 DEF DraftInv

\* A call fails: a policy stays edited, and of a configuration the failure is told.
LEMMA FailKeepsDrafts ==
    ASSUME DraftInv, NEW c \in card.calls, Cards!Fail(c)
    PROVE  DraftInv'
<1>0. /\ KindsOf(card.of) /\ (card.of.dirty = "flag" => ~card.of.inBrowser /\ ~card.of.restarts)
      /\ DOMAIN card = CardFields /\ card.newest \in Nat /\ card.newest <= card.asked
  BY KindOfCard DEF DraftInv, DraftType
<1>1. /\ card'.calls = card.calls \ {c} /\ DOMAIN card' = CardFields /\ card'.of = card.of /\ card'.asked = card.asked
      /\ card'.newest = card.newest /\ card'.overtaken = card.overtaken /\ card'.draft = card.draft
      /\ card'.edited = card.edited /\ card'.view = card.view /\ stored' = stored
  BY <1>0 DEF Cards!Fail, Cards!Answered, CardFields
<1>2. /\ card'.saving = (card.saving /\ c.what \in {"load", "test"})
      /\ card'.error = (card.error \/ (IF c.what = "test" THEN card.of.tests = "card" ELSE c.what # "save" \/ card.of.told = "card"))
  BY <1>0 DEF Cards!Fail, Cards!Answered, CardFields
<1>3. DraftType' /\ \A what : Asked(what)' = Asked(what) \ {c}
  <2>1. Chain' = Chain \ {c} /\ \A what : Asked(what)' = Asked(what) \ {c}
    BY <1>1 DEF Chain, Asked
  <2>2. (\A d, e \in Chain' : d = e) /\ (Chain' # {} => card'.saving)
    <3>1. CASE c \in Chain
      BY <2>1, <3>1 DEF DraftInv, DraftType
    <3>2. CASE c \notin Chain
      <4>0. c.what # "upload"
        BY DEF Cards!Fail
      <4>1. \A d \in Chain' : d \in Chain /\ card.saving
        BY <2>1 DEF DraftInv, DraftType
      <4>2. c.what \in {"load", "test"}
        BY <3>2, <4>0 DEF DraftInv, DraftType, Chain
      <4>3. card.saving => card'.saving
        BY <1>2, <4>2
      <4> QED BY <2>1, <4>1, <4>3 DEF DraftInv, DraftType
    <3> QED BY <3>1, <3>2
  <2> QED BY <1>1, <2>1, <2>2 DEF DraftInv, DraftType
<1>4. KeptHere'
  BY <1>1 DEF DraftInv, KeptHere
<1>5. PolicyInForce'
  BY <1>1, <1>3 DEF DraftInv, PolicyInForce, Cards!Loaded, Asked
<1>6. ConfigurationRuns'
  <2> SUFFICES ASSUME card.of.restarts PROVE ConfigurationRuns'
    BY <1>1 DEF ConfigurationRuns
  <2>1. Settled' => Settled /\ c.what \in {"load", "test"} /\ c.what # "load"
    <3>1. card.of.told = "card"
      BY <1>0 DEF KindsOf
    <3>2. ~card'.error => ~card.error /\ c.what = "test"
      BY <1>2, <3>1
    <3>3. c.what = "test" /\ card.saving => card'.saving
      BY <1>2
    <3> QED BY <3>2, <3>3 DEF Settled
  <2>2. \A d \in Asked("poll")' : d.served /\ d.text # "reconfiguring" => stored'.phase # "reconfiguring"
    BY <1>1, <1>3 DEF DraftInv, ConfigurationRuns
  <2>3. Settled' => Asked("load")' = Asked("load")
    BY <1>3, <2>1 DEF Asked
  <2> QED BY <1>1, <2>1, <2>2, <2>3 DEF DraftInv, ConfigurationRuns, AskedAfter, Cards!Loaded
<1> QED BY <1>3, <1>4, <1>5, <1>6 DEF DraftInv

\* A load is answered: it is what is stored, or something was asked for after it.
LEMMA LoadKeepsDrafts ==
    ASSUME DraftInv, NEW c \in card.calls, Cards!AnswerLoad(c)
    PROVE  DraftInv'
<1>0. /\ KindsOf(card.of) /\ (card.of.dirty = "flag" => ~card.of.inBrowser /\ ~card.of.restarts)
      /\ DOMAIN card = CardFields /\ card.newest \in Nat /\ card.newest <= card.asked /\ c.n \in Nat /\ c.n <= card.asked
      /\ \A d \in card.calls : d.n \in Nat
  BY KindOfCard DEF DraftInv, DraftType
<1>1. /\ card'.calls = card.calls \ {c} /\ DOMAIN card' = CardFields /\ card'.of = card.of /\ card'.asked = card.asked
      /\ card'.view = c.text /\ card'.draft = c.text /\ card'.edited = card.edited /\ card'.saving = card.saving
      /\ card'.newest = (IF c.n > card.newest THEN c.n ELSE card.newest)
      /\ card'.overtaken = (c.n < card.newest) /\ card'.error = (card.error /\ ~card.of.clears) /\ stored' = stored
  BY <1>0 DEF Cards!AnswerLoad, Cards!Answered, CardFields
<1>2. c \in Asked("load") /\ c.served /\ c.ok
  BY DEF Cards!AnswerLoad, Cards!Came, Asked
<1>3. card'.newest \in Nat /\ card'.newest <= card.asked /\ card'.newest >= c.n /\ card'.newest >= card.newest
  BY <1>0, <1>1
<1>4. DraftType' /\ \A what : Asked(what)' = Asked(what) \ {c}
  BY <1>1, <1>3, FewerCalls
<1>5. KeptHere'
  BY <1>1, <1>2 DEF DraftInv, KeptHere, Asked
<1>6. PolicyInForce'
  <2> SUFFICES ASSUME card.of.dirty = "flag" PROVE PolicyInForce'
    BY <1>1 DEF PolicyInForce
  <2>1. Asked("load") = {c} /\ Asked("save") = {} /\ c.text = stored.value
    BY <1>2 DEF DraftInv, PolicyInForce, Asked
  <2>2. Asked("load")' = {} /\ Asked("save")' = {}
    BY <1>4, <2>1
  <2> QED BY <1>1, <2>1, <2>2 DEF DraftInv, PolicyInForce
<1>7. ConfigurationRuns'
  <2> SUFFICES ASSUME card.of.restarts PROVE ConfigurationRuns'
    BY <1>1 DEF ConfigurationRuns
  <2>1. Settled' => Settled
    BY <1>0, <1>1 DEF Settled, KindsOf
  <2>2. Settled' => stored'.phase # "reconfiguring"
    BY <1>1, <2>1 DEF DraftInv, ConfigurationRuns
  <2>3. \A d \in Asked("poll")' : d.served /\ d.text # "reconfiguring" => stored'.phase # "reconfiguring"
    BY <1>1, <1>4 DEF DraftInv, ConfigurationRuns
  <2>4. \A n \in Nat : AskedAfter(n) => AskedAfter(n)' \/ card'.newest > n
    BY <1>0, <1>3, <1>4 DEF AskedAfter
  <2>5. ASSUME Settled', NEW d \in Asked("load")', d.served PROVE d.text = stored'.value \/ AskedAfter(d.n)' \/ card'.newest > d.n
    <3>1. d \in Asked("load") /\ d.n \in Nat
      BY <1>0, <1>4 DEF Asked
    <3>2. d.text = stored.value \/ AskedAfter(d.n) \/ card.newest > d.n
      BY <2>1, <2>5, <3>1 DEF DraftInv, ConfigurationRuns
    <3>3. card.newest > d.n => card'.newest > d.n
      BY <1>0, <1>3, <3>1
    <3> QED BY <1>1, <2>4, <3>1, <3>2, <3>3
  <2>6. ASSUME Settled', ~card'.overtaken PROVE card'.view = stored'.value \/ AskedAfter(card.newest)'
    <3>1. card'.newest = c.n /\ ~(card.newest > c.n)
      <4>1. ~(c.n < card.newest)
        BY <1>1, <2>6
      <4> QED BY <1>0, <1>1, <4>1
    <3>2. c.text = stored.value \/ AskedAfter(c.n)
      BY <1>2, <2>1, <2>6, <3>1 DEF DraftInv, ConfigurationRuns
    <3>3. AskedAfter(c.n) => \E d \in Asked("load")' : d.n > c.n
      BY <1>0, <1>4 DEF AskedAfter
    <3> QED BY <1>1, <3>1, <3>2, <3>3 DEF AskedAfter
  <2> QED BY <2>2, <2>3, <2>5, <2>6 DEF ConfigurationRuns
<1> QED BY <1>4, <1>5, <1>6, <1>7 DEF DraftInv

\* A save is answered: of a policy, which takes the place of the fields; of a configuration, after which is asked.
LEMMA SavedKeepsDrafts ==
    ASSUME DraftInv, NEW c \in card.calls, Cards!AnswerPolicy(c)
    PROVE  DraftInv'
<1>0. /\ KindsOf(card.of) /\ (card.of.dirty = "flag" => ~card.of.inBrowser /\ ~card.of.restarts)
      /\ DOMAIN card = CardFields /\ card.newest \in Nat /\ card.newest <= card.asked
  BY KindOfCard DEF DraftInv, DraftType
<1>1. /\ card'.calls = card.calls \ {c} /\ DOMAIN card' = CardFields /\ card'.of = card.of /\ card'.asked = card.asked
      /\ card'.view = c.text /\ card'.draft = c.text /\ card'.newest = card.newest /\ stored' = stored
  BY <1>0 DEF Cards!AnswerPolicy, Cards!Answered, CardFields
<1>2. c \in Asked("save") /\ c \in Chain /\ c.served /\ c.ok /\ ~card.of.restarts
  BY DEF Cards!AnswerPolicy, Cards!Came, Asked, Chain
<1>3. DraftType' /\ \A what : Asked(what)' = Asked(what) \ {c}
  BY <1>0, <1>1, <1>2, FewerCalls
<1>4. ~card.of.inBrowser
  BY <1>2 DEF DraftInv, KeptHere, Asked
<1>5. c.text = stored.value /\ Asked("load") = {} /\ Asked("save")' = {}
  <2>1. card.of.dirty = "flag"
    BY <1>0, <1>2, <1>4 DEF KindsOf
  <2>2. c.text = stored.value /\ Asked("load") = {}
    BY <1>2, <2>1 DEF DraftInv, PolicyInForce, Asked
  <2>3. \A d \in Asked("save") : d = c
    BY <1>2 DEF DraftInv, DraftType, Chain, Asked
  <2> QED BY <1>3, <2>2, <2>3
<1>6. Asked("load")' = {}
  BY <1>3, <1>5
<1>7. PolicyInForce'
  BY <1>1, <1>5, <1>6 DEF DraftInv, PolicyInForce
<1>8. KeptHere' /\ ConfigurationRuns'
  BY <1>1, <1>2, <1>4 DEF KeptHere, ConfigurationRuns
<1> QED BY <1>3, <1>7, <1>8 DEF DraftInv

\* A configuration is asked after until its restart is over, and then loaded.
LEMMA RestartKeepsDrafts ==
    ASSUME DraftInv, NEW c \in card.calls, (Cards!AnswerConfig(c) \/ Cards!poll(c))
    PROVE  DraftInv'
<1>0. /\ KindsOf(card.of) /\ (card.of.dirty = "flag" => ~card.of.inBrowser /\ ~card.of.restarts)
      /\ DOMAIN card = CardFields /\ card.newest \in Nat /\ card.newest <= card.asked /\ card.asked \in Nat
      /\ c.n \in Nat /\ c.n <= card.asked /\ \A d \in card.calls : d.n \in Nat /\ d.n <= card.asked
  BY KindOfCard DEF DraftInv, DraftType
<1> DEFINE over == c.what = "poll" /\ c.text # "reconfiguring"
           n == IF c.what = "poll" /\ ~over THEN c.n ELSE card.asked + 1
           new == Cards!Call(n, IF over THEN "load" ELSE "poll", Cards!None)
<1>1. /\ DOMAIN card' = CardFields /\ card'.of = card.of /\ card'.newest = card.newest /\ card'.overtaken = card.overtaken
      /\ card'.view = card.view /\ card'.calls = (card.calls \ {c}) \cup {new} /\ stored' = stored
      /\ card'.asked = IF n = card.asked + 1 THEN n ELSE card.asked
  <2>1. CASE Cards!AnswerConfig(c)
    BY <1>0, <2>1 DEF Cards!AnswerConfig, Cards!Asking, Cards!Answered, Cards!Came, CardFields
  <2>2. CASE Cards!poll(c) /\ ~over
    BY <1>0, <2>2 DEF Cards!poll, Cards!Answered, Cards!Came, CardFields
  <2>3. CASE Cards!poll(c) /\ over
    BY <1>0, <2>3 DEF Cards!poll, Cards!Asking, Cards!Answered, Cards!Came, CardFields
  <2> QED BY <2>1, <2>2, <2>3
<1>2. ~over => card'.saving = card.saving /\ card'.error = card.error
  BY <1>0 DEF Cards!AnswerConfig, Cards!poll, Cards!Asking, Cards!Answered, Cards!Came, CardFields
<1>3. over => c \in Asked("poll") /\ c.served /\ c.text # "reconfiguring"
  BY DEF Cards!AnswerConfig, Cards!poll, Cards!Came, Asked
<1>4. c \in Chain /\ (card.of.restarts \/ c.what = "poll")
  BY DEF Cards!AnswerConfig, Cards!poll, Cards!Came, Chain
<1>5. DOMAIN new = AskFields /\ new.n = n /\ new.what = (IF over THEN "load" ELSE "poll") /\ new.served = FALSE
  BY DEF Cards!Call, AskFields
<1>6. n \in Nat /\ n <= card'.asked /\ card'.asked \in Nat /\ card'.asked >= card.asked /\ (over => n = card.asked + 1)
  BY <1>0, <1>1
<1> HIDE DEF new, over, n
<1>7. Chain = {c} /\ card.saving /\ Chain' = IF over THEN {} ELSE {new}
  <2>1. Chain = {c} /\ card.saving
    BY <1>4 DEF DraftInv, DraftType
  <2>2. Chain' = (Chain \ {c}) \cup {d \in {new} : d.what \in {"save", "poll"}}
    BY <1>1 DEF Chain
  <2> QED BY <1>5, <2>1, <2>2
<1>8. Asked("load")' = (IF over THEN Asked("load") \cup {new} ELSE Asked("load")) /\ Asked("poll")' = (IF over THEN {} ELSE {new})
  BY <1>1, <1>4, <1>5, <1>7 DEF Asked, Chain
<1>9. DraftType'
  <2>1. \A d \in card'.calls : DOMAIN d = AskFields /\ d.n \in Nat /\ d.n <= card'.asked /\ (d.what = "upload" => card'.of.inBrowser)
    BY <1>0, <1>1, <1>5, <1>6 DEF DraftInv, DraftType
  <2>2. \A d \in card'.calls : d.what \in {"load", "save", "poll", "test", "upload"}
    BY <1>1, <1>5 DEF DraftInv, DraftType
  <2>3. (\A d, e \in Chain' : d = e) /\ (Chain' # {} => card'.saving)
    BY <1>2, <1>7
  <2>4. card'.newest <= card'.asked
    BY <1>0, <1>1, <1>6
  <2> QED BY <1>0, <1>1, <1>6, <2>1, <2>2, <2>3, <2>4 DEF DraftInv, DraftType
<1>10. KeptHere' /\ PolicyInForce'
  <2>1. ~card.of.inBrowser
    BY <1>4 DEF DraftInv, KeptHere, Chain
  <2>2. card.of.dirty # "flag"
    BY <1>0, <1>4 DEF DraftInv, PolicyInForce
  <2> QED BY <1>1, <2>1, <2>2 DEF KeptHere, PolicyInForce
<1>11. ConfigurationRuns'
  <2>1. CASE over
    <3> SUFFICES ASSUME card.of.restarts PROVE ConfigurationRuns'
      BY <1>1 DEF ConfigurationRuns
    <3>1. stored'.phase # "reconfiguring"
      BY <1>1, <1>3, <2>1 DEF DraftInv, ConfigurationRuns
    <3>2. \A m \in Nat : m <= card.asked => AskedAfter(m)'
      BY <1>0, <1>5, <1>6, <1>8, <2>1 DEF AskedAfter
    <3>3. \A d \in Asked("load")' : d.served => AskedAfter(d.n)'
      BY <1>0, <1>5, <1>8, <2>1, <3>2 DEF Asked
    <3>4. AskedAfter(card.newest)'
      BY <1>0, <1>1, <3>2
    <3> QED BY <1>8, <2>1, <3>1, <3>3, <3>4 DEF ConfigurationRuns
  <2>2. CASE ~over
    <3>1. ~Settled'
      BY <1>2, <1>7, <2>2 DEF Settled
    <3>2. \A d \in Asked("poll")' : ~d.served
      BY <1>5, <1>8, <2>2
    <3> QED BY <3>1, <3>2 DEF ConfigurationRuns
  <2> QED BY <2>1, <2>2
<1> QED BY <1>9, <1>10, <1>11 DEF DraftInv

\* Every step of a card.
LEMMA DraftStep == DraftInv /\ [Cards!DraftNext]_<<card, stored>> => DraftInv'
BY FieldsKeepDrafts, SendKeepsDrafts, ServeKeepsDrafts, RolloutKeepsDrafts, AsideKeepsDrafts, FailKeepsDrafts,
   LoadKeepsDrafts, SavedKeepsDrafts, RestartKeepsDrafts
   DEF Cards!DraftNext

(* A card that offers nothing to save shows what is stored, once nothing   *)
(* is under way and no error is on it, unless loads came out of order      *)
(* (GuardPolicyPanel, MaskingPolicyPanel, ReconfigurePanel, LocalModelCard, *)
(* WhiteLabelCard, BrandColorCard).                                        *)
THEOREM CleanCardsAreSaved == Spec => []CleanMeansSaved
<1>1. DraftInv => CleanMeansSaved
  <2> SUFFICES ASSUME DraftInv, Cards!Loaded, card.calls = {}, ~card.saving, ~card.error, ~card.overtaken, ~Cards!dirty
               PROVE  Cards!Trim(card.draft) = Cards!Trim(stored.value)
    BY DEF CleanMeansSaved, Cards!CleanMeansSaved
  <2>1. KindsOf(card.of)
    BY KindOfCard
  <2>2. CASE card.of.inBrowser
    <3>1. stored.value = card.view /\ card.of.dirty \in {"differs", "trimmed"}
      BY <2>1, <2>2 DEF DraftInv, KeptHere, KindsOf
    <3>2. card.view = card.draft \/ card.view = Cards!Trim(card.draft)
      BY <3>1 DEF Cards!dirty
    <3>3. Cards!Trim(Cards!Trim(card.draft)) = Cards!Trim(card.draft)
      BY DEF Cards!Trim
    <3> QED BY <3>1, <3>2, <3>3
  <2>3. CASE card.of.restarts
    <3>1. card.view = stored.value \/ AskedAfter(card.newest)
      BY <2>3 DEF DraftInv, ConfigurationRuns, Settled
    <3>2. card.draft = card.view
      BY <2>1, <2>3 DEF Cards!dirty, KindsOf
    <3> QED BY <3>1, <3>2 DEF AskedAfter, Asked
  <2>4. CASE ~card.of.inBrowser /\ ~card.of.restarts
    BY <2>1, <2>4 DEF DraftInv, PolicyInForce, Cards!dirty, KindsOf
  <2> QED BY <2>2, <2>3, <2>4
<1>2. DraftInv /\ [Next]_vars => DraftInv'
  <2>1. [Next]_vars => [Cards!DraftNext]_<<card, stored>>
    BY DEF Next, vars
  <2> QED BY <2>1, DraftStep
<1> QED BY <1>1, <1>2, DraftInit, PTL DEF Spec

-----------------------------------------------------------------------------
(* The chat of the playground.                                             *)

ChatFields == {"turns", "status", "typewriter", "requests", "asked", "reduced", "comparing", "compareRows", "stoppedAsking", "clearedAsking"}
TurnFields == {"question", "content", "full", "status", "reqHistory"}
UnderWay == chat.requests \cup chat.typewriter

IsList(s) == \E n \in Nat : DOMAIN s = 1 .. n /\ s = [i \in 1 .. n |-> s[i]]
ChatType ==
    /\ DOMAIN chat = ChatFields /\ IsList(chat.turns) /\ \A i \in DOMAIN chat.turns : DOMAIN chat.turns[i] = TurnFields
    /\ \A r \in chat.requests : DOMAIN r = {"n", "idx", "history", "phase"}
    /\ \A w \in chat.typewriter : DOMAIN w = {"idx", "full", "pos"}

\* What a place holds of an answer, and what is under way to it, is to the question there.
Mine(turn) == {turn.full, turn.content.to, turn.reqHistory} \subseteq {Chat!NoAnswer, turn.question}
InPlace ==
    ~chat.clearedAsking =>
        /\ \A i \in DOMAIN chat.turns : Mine(chat.turns[i])
        /\ \A r \in chat.requests : r.idx \in DOMAIN chat.turns /\ r.history = chat.turns[r.idx].question
        /\ \A w \in chat.typewriter : w.idx \in DOMAIN chat.turns /\ w.full = chat.turns[w.idx].question

\* One thing is under way at a time, to the one place that waits for it.
Whole(turn) == turn.status = "complete" => turn.content = [to |-> turn.question, len |-> Full]
OneAtATime ==
    ~(chat.stoppedAsking \/ chat.clearedAsking) =>
        /\ \A x, y \in UnderWay : x = y
        /\ (chat.status = "idle") <=> (UnderWay = {})
        /\ \A i \in DOMAIN chat.turns : chat.turns[i].status \in Chat!Unfinished <=> \E x \in UnderWay : x.idx = i
        /\ \A i \in DOMAIN chat.turns : Whole(chat.turns[i])

ComparesOrNot == chat.compareRows = {"blank"} => chat.comparing
ChatInv == ChatType /\ InPlace /\ OneAtATime /\ ComparesOrNot

\* The visit begins with nothing asked.
LEMMA ChatInit == Init => ChatInv
<1> SUFFICES ASSUME Init PROVE ChatInv
  OBVIOUS
<1>1. \E reduced \in BOOLEAN : chat = Chat!Arrived(reduced)
  <2>1. CASE live = "chat"
    BY <2>1 DEF Init
  <2>2. CASE live # "chat"
    <3>1. chat \in {Chat!Arrived(FALSE)}
      BY <2>2 DEF Init
    <3> QED BY <3>1
  <2> QED BY <2>1, <2>2
<1>2. /\ DOMAIN chat = ChatFields /\ chat.turns = <<>> /\ chat.requests = {} /\ chat.typewriter = {} /\ chat.status = "idle"
      /\ chat.compareRows = {}
  BY <1>1 DEF Chat!Arrived, ChatFields
<1>3. IsList(<<>>)
  <2>1. DOMAIN <<>> = 1 .. 0 /\ <<>> = [i \in 1 .. 0 |-> <<>>[i]]
    OBVIOUS
  <2> QED BY <2>1 DEF IsList
<1>4. DOMAIN chat.turns = {}
  BY <1>2
<1> QED BY <1>2, <1>3, <1>4 DEF ChatInv, ChatType, InPlace, OneAtATime, ComparesOrNot, UnderWay

\* A list with one more, and one with another at a place.
LEMMA AppendAt ==
    ASSUME NEW s, IsList(s), NEW x
    PROVE  LET t == Append(s, x)
               n == Len(s) + 1
           IN  IsList(t) /\ n \notin DOMAIN s /\ DOMAIN t = DOMAIN s \cup {n} /\ t[n] = x /\ \A i \in DOMAIN s : t[i] = s[i]
<1>1. PICK m \in Nat : DOMAIN s = 1 .. m /\ s = [i \in 1 .. m |-> s[i]]
  BY DEF IsList
<1> DEFINE S == {s[i] : i \in 1 .. m} \cup {x}
<1>2. s \in Seq(S) /\ Len(s) = m /\ x \in S
  <2>1. s \in [1 .. m -> S]
    BY <1>1
  <2> HIDE DEF S
  <2>2. s \in Seq(S) /\ Len(s) = m
    BY <1>1, <2>1
  <2> QED BY <2>2 DEF S
<1> HIDE DEF S
<1> DEFINE t == Append(s, x)
<1>3. t \in Seq(S) /\ Len(t) = m + 1 /\ t[m + 1] = x /\ \A i \in 1 .. m : t[i] = s[i]
  BY <1>2
<1> HIDE DEF t
<1>4. DOMAIN t = 1 .. m + 1 /\ t = [i \in 1 .. m + 1 |-> t[i]]
  BY <1>3
<1>5. IsList(t)
  BY <1>1, <1>4 DEF IsList
<1> QED BY <1>1, <1>2, <1>3, <1>4, <1>5 DEF t

\* A list with its places rewritten is a list.
LEMMA PlaceAt ==
    ASSUME NEW s, IsList(s), NEW f, DOMAIN f = DOMAIN s, f = [i \in DOMAIN s |-> f[i]]
    PROVE  IsList(f)
BY DEF IsList

\* The places of a conversation after one of them was written to.
Retold(s, t, idx) ==
    /\ DOMAIN t = DOMAIN s /\ t = [i \in DOMAIN s |-> t[i]]
    /\ \A i \in DOMAIN s : DOMAIN t[i] = TurnFields /\ t[i].question = s[i].question /\ (i # idx => t[i] = s[i])

\* What the invariant needs of a step that writes to one place.
LEMMA Placed ==
    ASSUME ChatInv, NEW idx, DOMAIN chat' = ChatFields, Retold(chat.turns, chat'.turns, idx),
           chat'.clearedAsking = chat.clearedAsking, chat'.stoppedAsking = chat.stoppedAsking,
           chat'.compareRows = chat.compareRows, chat'.comparing = chat.comparing,
           \A r \in chat'.requests : DOMAIN r = {"n", "idx", "history", "phase"},
           \A w \in chat'.typewriter : DOMAIN w = {"idx", "full", "pos"},
           ~chat.clearedAsking =>
               /\ idx \in DOMAIN chat.turns /\ Mine(chat'.turns[idx])
               /\ \A r \in chat'.requests : r \in chat.requests \/ (r.idx = idx /\ r.history = chat.turns[idx].question)
               /\ \A w \in chat'.typewriter : w \in chat.typewriter \/ (w.idx = idx /\ w.full = chat.turns[idx].question),
           ~(chat.stoppedAsking \/ chat.clearedAsking) =>
               /\ \A x \in UnderWay : x.idx = idx
               /\ \A x, y \in UnderWay' : x.idx = idx /\ x = y
               /\ (chat'.status = "idle") <=> (UnderWay' = {})
               /\ chat'.turns[idx].status \in Chat!Unfinished <=> UnderWay' # {}
               /\ Whole(chat'.turns[idx])
    PROVE  ChatInv'
<1> DEFINE s == chat.turns  t == chat'.turns
<1>1. DOMAIN t = DOMAIN s /\ \A i \in DOMAIN s : DOMAIN t[i] = TurnFields /\ t[i].question = s[i].question /\ (i # idx => t[i] = s[i])
  BY DEF Retold
<1>2. ChatType'
  <2>1. IsList(s)
    BY DEF ChatInv, ChatType
  <2>2. IsList(t)
    BY <2>1 DEF IsList, Retold
  <2> QED BY <1>1, <2>2 DEF ChatType
<1>3. InPlace'
  <2> SUFFICES ASSUME ~chat.clearedAsking
               PROVE  /\ \A i \in DOMAIN t : Mine(t[i])
                      /\ \A r \in chat'.requests : r.idx \in DOMAIN t /\ r.history = t[r.idx].question
                      /\ \A w \in chat'.typewriter : w.idx \in DOMAIN t /\ w.full = t[w.idx].question
    BY DEF InPlace
  <2>1. /\ \A i \in DOMAIN s : Mine(s[i])
        /\ \A r \in chat.requests : r.idx \in DOMAIN s /\ r.history = s[r.idx].question
        /\ \A w \in chat.typewriter : w.idx \in DOMAIN s /\ w.full = s[w.idx].question
    BY DEF ChatInv, InPlace
  <2>2. \A i \in DOMAIN t : Mine(t[i])
    <3> TAKE i \in DOMAIN t
    <3>1. CASE i = idx
      BY <3>1
    <3>2. CASE i # idx
      BY <1>1, <2>1, <3>2
    <3> QED BY <3>1, <3>2
  <2>3. \A r \in chat'.requests : r.idx \in DOMAIN t /\ r.history = t[r.idx].question
    BY <1>1, <2>1
  <2>4. \A w \in chat'.typewriter : w.idx \in DOMAIN t /\ w.full = t[w.idx].question
    BY <1>1, <2>1
  <2> QED BY <2>2, <2>3, <2>4
<1>4. OneAtATime'
  <2> SUFFICES ASSUME ~(chat.stoppedAsking \/ chat.clearedAsking)
               PROVE  /\ \A x, y \in UnderWay' : x = y
                      /\ (chat'.status = "idle") <=> (UnderWay' = {})
                      /\ \A i \in DOMAIN t : t[i].status \in Chat!Unfinished <=> \E x \in UnderWay' : x.idx = i
                      /\ \A i \in DOMAIN t : Whole(t[i])
    BY DEF OneAtATime
  <2>1. /\ \A i \in DOMAIN s : s[i].status \in Chat!Unfinished <=> \E x \in UnderWay : x.idx = i
        /\ \A i \in DOMAIN s : Whole(s[i])
    BY DEF ChatInv, OneAtATime
  <2>2. ASSUME NEW i \in DOMAIN t
        PROVE  (t[i].status \in Chat!Unfinished <=> \E x \in UnderWay' : x.idx = i) /\ Whole(t[i])
    <3>1. CASE i = idx
      BY <3>1
    <3>2. CASE i # idx
      <4>1. t[i] = s[i] /\ i \in DOMAIN s
        BY <1>1, <2>2, <3>2
      <4>2. s[i].status \notin Chat!Unfinished /\ Whole(s[i])
        BY <2>1, <3>2, <4>1
      <4>3. ~\E x \in UnderWay' : x.idx = i
        BY <3>2
      <4> QED BY <4>1, <4>2, <4>3
    <3> QED BY <3>1, <3>2
  <2> QED BY <2>2
<1>5. ComparesOrNot'
  BY DEF ComparesOrNot, ChatInv
<1> QED BY <1>2, <1>3, <1>4, <1>5 DEF ChatInv

\* One place of a conversation, patched.
LEMMA PatchedAt ==
    ASSUME NEW s, NEW idx, NEW patch, NEW t, t = Chat!Updated(s, idx, patch)
    PROVE  /\ DOMAIN t = DOMAIN s /\ t = [i \in DOMAIN s |-> t[i]]
           /\ \A i \in DOMAIN s : t[i] = IF i = idx THEN Chat!++(patch, s[i]) ELSE s[i]
BY DEF Chat!Updated

\* A place patched with a known part of an exchange is retold, and what is retold twice is retold.
LEMMA PatchedIsRetold ==
    ASSUME NEW s, \A i \in DOMAIN s : DOMAIN s[i] = TurnFields, NEW idx, NEW patch, DOMAIN patch \subseteq TurnFields \ {"question"},
           NEW t, t = Chat!Updated(s, idx, patch)
    PROVE  Retold(s, t, idx) /\ (idx \in DOMAIN s => t[idx] = Chat!++(patch, s[idx]))
<1>1. /\ DOMAIN t = DOMAIN s /\ t = [i \in DOMAIN s |-> t[i]]
      /\ \A i \in DOMAIN s : t[i] = IF i = idx THEN Chat!++(patch, s[i]) ELSE s[i]
  BY PatchedAt
<1>2. ASSUME NEW i \in DOMAIN s, i = idx
      PROVE  DOMAIN t[i] = TurnFields /\ t[i].question = s[i].question
  <2>1. t[i] = Chat!++(patch, s[i])
    BY <1>1, <1>2
  <2>2. DOMAIN Chat!++(patch, s[i]) = TurnFields
    BY DEF Chat!++
  <2>3. Chat!++(patch, s[i])["question"] = s[i]["question"]
    BY DEF Chat!++, TurnFields
  <2> QED BY <2>1, <2>2, <2>3
<1> QED BY <1>1, <1>2 DEF Retold

\* What is retold twice is retold.
LEMMA RetoldTwice ==
    ASSUME NEW s, NEW t, NEW u, NEW idx, Retold(s, t, idx), Retold(t, u, idx)
    PROVE  Retold(s, u, idx)
<1>1. DOMAIN u = DOMAIN s /\ u = [i \in DOMAIN s |-> u[i]]
  BY DEF Retold
<1>2. ASSUME NEW i \in DOMAIN s PROVE DOMAIN u[i] = TurnFields /\ u[i].question = s[i].question /\ (i # idx => u[i] = s[i])
  BY DEF Retold
<1> QED BY <1>1, <1>2 DEF Retold

\* Before a place is written to: who writes is the only one under way.
LEMMA Alone ==
    ASSUME ChatInv, NEW x \in UnderWay, ~(chat.stoppedAsking \/ chat.clearedAsking)
    PROVE  \A y \in UnderWay : y = x
BY DEF ChatInv, OneAtATime

\* The moment before a request is over.
LEMMA ThinkKeeps ==
    ASSUME ChatInv, NEW r \in chat.requests, Chat!Think(r) PROVE ChatInv'
<1> DEFINE patch == [status |-> "thinking"]  moved == [r EXCEPT !.phase = "thinking"]  idx == r.idx  s == chat.turns  t == chat'.turns
<1>0. ChatType /\ DOMAIN chat = ChatFields /\ DOMAIN r = {"n", "idx", "history", "phase"}
  BY DEF ChatInv, ChatType
<1>1. /\ DOMAIN chat' = ChatFields /\ t = Chat!Updated(s, idx, patch) /\ chat'.status = "thinking"
      /\ chat'.requests = (chat.requests \ {r}) \cup {moved} /\ chat'.typewriter = chat.typewriter
      /\ chat'.clearedAsking = chat.clearedAsking /\ chat'.stoppedAsking = chat.stoppedAsking
      /\ chat'.compareRows = chat.compareRows /\ chat'.comparing = chat.comparing
  BY <1>0 DEF Chat!Think, ChatFields
<1>2. DOMAIN moved = {"n", "idx", "history", "phase"} /\ moved.idx = idx /\ moved.history = r.history
  BY <1>0
<1>3. Retold(s, t, idx)
  <2>1. \A i \in DOMAIN s : DOMAIN s[i] = TurnFields
    BY <1>0 DEF ChatType
  <2> QED BY <1>1, <2>1, PatchedIsRetold DEF TurnFields
<1>4. idx \in DOMAIN s => /\ t[idx].status = "thinking" /\ t[idx].full = s[idx].full /\ t[idx].content = s[idx].content
                          /\ t[idx].reqHistory = s[idx].reqHistory /\ t[idx].question = s[idx].question
  <2>1. idx \in DOMAIN s => t[idx] = Chat!++(patch, s[idx])
    BY <1>1, PatchedAt
  <2>2. idx \in DOMAIN s => DOMAIN s[idx] = TurnFields
    BY <1>0 DEF ChatType
  <2> QED BY <2>1, <2>2 DEF Chat!++, TurnFields
<1> HIDE DEF moved, patch
<1>5. ~chat.clearedAsking => idx \in DOMAIN s /\ Mine(s[idx]) /\ r.history = s[idx].question
  BY DEF ChatInv, InPlace
<1>6. ~chat.clearedAsking => Mine(t[idx])
  BY <1>4, <1>5 DEF Mine
<1>7. \A q \in chat'.requests : DOMAIN q = {"n", "idx", "history", "phase"}
  BY <1>1, <1>2, <1>0 DEF ChatType
<1>8. \A w \in chat'.typewriter : DOMAIN w = {"idx", "full", "pos"}
  BY <1>1, <1>0 DEF ChatType
<1>9. ASSUME ~(chat.stoppedAsking \/ chat.clearedAsking)
      PROVE  /\ \A x \in UnderWay : x.idx = idx
             /\ \A x, y \in UnderWay' : x.idx = idx /\ x = y
             /\ (chat'.status = "idle") <=> (UnderWay' = {})
             /\ chat'.turns[idx].status \in Chat!Unfinished <=> UnderWay' # {}
             /\ Whole(chat'.turns[idx])
  <2>1. \A x \in UnderWay : x = r
    BY <1>9, Alone DEF UnderWay
  <2>2. UnderWay' = {moved}
    <3>1. r \notin chat.typewriter
      BY <1>0 DEF ChatType
    <3>2. chat.typewriter = {} /\ chat.requests = {r}
      BY <2>1, <3>1 DEF UnderWay
    <3> QED BY <1>1, <3>2 DEF UnderWay
  <2>3. t[idx].status = "thinking"
    BY <1>4, <1>5, <1>9
  <2> QED BY <1>1, <1>2, <2>1, <2>2, <2>3 DEF Chat!Unfinished, Whole
<1>10. ~chat.clearedAsking =>
          /\ \A q \in chat'.requests : q \in chat.requests \/ (q.idx = idx /\ q.history = s[idx].question)
          /\ \A w \in chat'.typewriter : w \in chat.typewriter \/ (w.idx = idx /\ w.full = s[idx].question)
  BY <1>1, <1>2, <1>5
<1> QED BY <1>1, <1>3, <1>5, <1>6, <1>7, <1>8, <1>9, <1>10, Placed

\* A request fails, and its exchange with it.
LEMMA RefuseKeeps ==
    ASSUME ChatInv, NEW r \in chat.requests, Chat!Refuse(r) PROVE ChatInv'
<1> DEFINE patch == [status |-> "error"]  idx == r.idx  s == chat.turns  t == chat'.turns
<1>0. /\ ChatType /\ DOMAIN chat = ChatFields /\ DOMAIN r = {"n", "idx", "history", "phase"}
      /\ \A i \in DOMAIN s : DOMAIN s[i] = TurnFields
  BY DEF ChatInv, ChatType
<1>1. /\ DOMAIN chat' = ChatFields /\ t = Chat!Updated(s, idx, patch) /\ chat'.status = "idle"
      /\ chat'.requests = chat.requests \ {r} /\ chat'.typewriter = chat.typewriter
      /\ chat'.clearedAsking = chat.clearedAsking /\ chat'.stoppedAsking = chat.stoppedAsking
      /\ chat'.compareRows = chat.compareRows /\ chat'.comparing = chat.comparing
  BY <1>0 DEF Chat!Refuse, ChatFields
<1>2. DOMAIN patch \subseteq TurnFields \ {"question"}
  BY DEF TurnFields
<1>3. Retold(s, t, idx) /\ (idx \in DOMAIN s => t[idx] = Chat!++(patch, s[idx]))
  <2> HIDE DEF patch
  <2> QED BY <1>0, <1>1, <1>2, PatchedIsRetold
<1>4. idx \in DOMAIN s => /\ t[idx].status = "error" /\ t[idx].full = s[idx].full /\ t[idx].content = s[idx].content
                          /\ t[idx].reqHistory = s[idx].reqHistory /\ t[idx].question = s[idx].question
  BY <1>0, <1>3 DEF Chat!++, TurnFields
<1> HIDE DEF patch
<1>5. ~chat.clearedAsking => idx \in DOMAIN s /\ Mine(s[idx])
  BY DEF ChatInv, InPlace
<1>6. ~chat.clearedAsking => Mine(t[idx])
  BY <1>4, <1>5 DEF Mine
<1>7. /\ \A q \in chat'.requests : DOMAIN q = {"n", "idx", "history", "phase"}
      /\ \A w \in chat'.typewriter : DOMAIN w = {"idx", "full", "pos"}
  BY <1>1, <1>0 DEF ChatType
<1>8. chat'.requests \subseteq chat.requests /\ chat'.typewriter \subseteq chat.typewriter
  BY <1>1
<1>9. ASSUME ~(chat.stoppedAsking \/ chat.clearedAsking)
      PROVE  /\ \A x \in UnderWay : x.idx = idx
             /\ \A x, y \in UnderWay' : x.idx = idx /\ x = y
             /\ (chat'.status = "idle") <=> (UnderWay' = {})
             /\ chat'.turns[idx].status \in Chat!Unfinished <=> UnderWay' # {}
             /\ Whole(chat'.turns[idx])
  <2>1. \A x \in UnderWay : x = r
    BY <1>9, Alone DEF UnderWay
  <2>2. UnderWay' = {}
    BY <1>0, <1>1, <2>1 DEF UnderWay, ChatType
  <2>3. t[idx].status = "error"
    BY <1>4, <1>5, <1>9
  <2> QED BY <1>1, <2>1, <2>2, <2>3 DEF Chat!Unfinished, Whole
<1> QED BY <1>1, <1>3, <1>5, <1>6, <1>7, <1>8, <1>9, Placed

\* An answer comes whole, or begins to be drawn.
LEMMA AnswerKeeps ==
    ASSUME ChatInv, NEW r \in chat.requests, NEW blocked \in BOOLEAN, Chat!Answer(r, blocked) PROVE ChatInv'
<1> DEFINE begin == [full |-> r.history, reqHistory |-> r.history, content |-> Chat!Nothing, status |-> "streaming"]
           idx == r.idx  s == chat.turns  t == chat'.turns  begun == Chat!Updated(s, idx, begin)
           end == Chat!Completed(r.history)  writer == [idx |-> idx, full |-> r.history, pos |-> 0]
<1>0. /\ ChatType /\ DOMAIN chat = ChatFields /\ DOMAIN r = {"n", "idx", "history", "phase"}
      /\ \A i \in DOMAIN s : DOMAIN s[i] = TurnFields
  BY DEF ChatInv, ChatType
<1>1. /\ DOMAIN chat' = ChatFields /\ chat'.requests = chat.requests \ {r}
      /\ chat'.clearedAsking = chat.clearedAsking /\ chat'.stoppedAsking = chat.stoppedAsking
      /\ chat'.compareRows = chat.compareRows /\ chat'.comparing = chat.comparing
      /\ \/ t = Chat!Updated(begun, idx, end) /\ chat'.status = "idle" /\ chat'.typewriter \in {chat.typewriter, {}}
         \/ t = begun /\ chat'.status = "streaming" /\ chat'.typewriter = {writer}
  <2> DEFINE c == [[chat EXCEPT !.requests = @ \ {r}] EXCEPT !.turns = begun]
  <2>1. /\ DOMAIN c = ChatFields /\ c.turns = begun /\ c.requests = chat.requests \ {r} /\ c.typewriter = chat.typewriter
        /\ c.clearedAsking = chat.clearedAsking /\ c.stoppedAsking = chat.stoppedAsking
        /\ c.compareRows = chat.compareRows /\ c.comparing = chat.comparing
    <3> HIDE DEF begun
    <3> QED BY <1>0 DEF ChatFields
  <2>2. chat' = IF blocked THEN [c EXCEPT !.turns = Chat!Updated(@, idx, end), !.status = "idle"]
                ELSE Chat!runTypewriter(c, idx, r.history, 0)
    <3>1. [chat EXCEPT !.requests = @ \ {r}].turns = s
      BY <1>0 DEF ChatFields
    <3> QED BY <3>1 DEF Chat!Answer, Chat!beginStream
  <2> HIDE DEF c, end, begun
  <2>3. CASE blocked
    <3>1. chat' = [c EXCEPT !.turns = Chat!Updated(@, idx, end), !.status = "idle"]
      BY <2>2, <2>3
    <3> QED BY <2>1, <3>1 DEF ChatFields
  <2>4. CASE ~blocked
    <3>1. chat' = Chat!runTypewriter(c, idx, r.history, 0)
      BY <2>2, <2>4
    <3>2. CASE c.reduced
      <4>1. chat' = [c EXCEPT !.typewriter = {}, !.status = "idle", !.turns = Chat!Updated(@, idx, end)]
        BY <3>1, <3>2 DEF Chat!runTypewriter, end
      <4> QED BY <2>1, <4>1 DEF ChatFields
    <3>3. CASE ~c.reduced
      <4>1. chat' = [c EXCEPT !.typewriter = {writer}, !.status = "streaming"]
        BY <3>1, <3>3 DEF Chat!runTypewriter
      <4> QED BY <2>1, <4>1 DEF ChatFields
    <3> QED BY <3>2, <3>3
  <2> QED BY <2>3, <2>4
<1>2. Retold(s, begun, idx) /\ (idx \in DOMAIN s => begun[idx] = Chat!++(begin, s[idx]))
  BY <1>0, PatchedIsRetold DEF TurnFields
<1>3. idx \in DOMAIN s => /\ begun[idx].full = r.history /\ begun[idx].reqHistory = r.history /\ begun[idx].content = Chat!Nothing
                          /\ begun[idx].status = "streaming" /\ begun[idx].question = s[idx].question
  <2>1. idx \in DOMAIN s => begun[idx] = Chat!++(begin, s[idx])
    BY <1>2
  <2> HIDE DEF begun
  <2> QED BY <1>0, <2>1 DEF Chat!++, TurnFields
<1> HIDE DEF begun, begin
<1>4. ~chat.clearedAsking => idx \in DOMAIN s /\ Mine(s[idx]) /\ r.history = s[idx].question
  BY DEF ChatInv, InPlace
<1>5. \A x \in UnderWay : ~(chat.stoppedAsking \/ chat.clearedAsking) => x = r
  BY Alone DEF UnderWay
<1>6. ~(chat.stoppedAsking \/ chat.clearedAsking) => chat'.requests = {} /\ chat.typewriter = {}
  BY <1>0, <1>1, <1>5 DEF ChatType, UnderWay
<1>7. CASE t = begun /\ chat'.status = "streaming" /\ chat'.typewriter = {writer}
  <2>1. ~chat.clearedAsking => Mine(t[idx])
    BY <1>7, <1>3, <1>4 DEF Mine, Chat!Nothing
  <2>2. ASSUME ~(chat.stoppedAsking \/ chat.clearedAsking)
        PROVE  /\ \A x \in UnderWay : x.idx = idx
               /\ \A x, y \in UnderWay' : x.idx = idx /\ x = y
               /\ (chat'.status = "idle") <=> (UnderWay' = {})
               /\ chat'.turns[idx].status \in Chat!Unfinished <=> UnderWay' # {}
               /\ Whole(chat'.turns[idx])
    <3>1. UnderWay' = {writer} /\ writer.idx = idx
      BY <1>6, <1>7, <2>2 DEF UnderWay
    <3>2. t[idx].status = "streaming"
      BY <1>7, <1>3, <1>4, <2>2
    <3> HIDE DEF writer
    <3> QED BY <1>5, <1>7, <2>2, <3>1, <3>2 DEF Chat!Unfinished, Whole
  <2>3. /\ \A q \in chat'.requests : DOMAIN q = {"n", "idx", "history", "phase"}
        /\ \A w \in chat'.typewriter : DOMAIN w = {"idx", "full", "pos"}
    BY <1>0, <1>1, <1>7 DEF ChatType
  <2>4. ~chat.clearedAsking => \A w \in chat'.typewriter : w.idx = idx /\ w.full = s[idx].question
    BY <1>4, <1>7
  <2>5. \A q \in chat'.requests : q \in chat.requests
    BY <1>1
  <2>6. Retold(s, t, idx)
    BY <1>2, <1>7
  <2> QED BY <1>1, <1>4, <2>1, <2>2, <2>3, <2>4, <2>5, <2>6, Placed
<1>8. CASE t = Chat!Updated(begun, idx, end) /\ chat'.status = "idle" /\ chat'.typewriter \in {chat.typewriter, {}}
  <2>0. DOMAIN begun = DOMAIN s /\ \A i \in DOMAIN begun : DOMAIN begun[i] = TurnFields
    BY <1>2 DEF Retold
  <2>1. Retold(begun, t, idx) /\ (idx \in DOMAIN s => t[idx] = Chat!++(end, begun[idx]))
    <3>1. DOMAIN end \subseteq TurnFields \ {"question"}
      BY DEF TurnFields, Chat!Completed
    <3> HIDE DEF end
    <3> QED BY <1>8, <2>0, <3>1, PatchedIsRetold
  <2>2. Retold(s, t, idx)
    BY <1>2, <2>1, RetoldTwice
  <2>3. idx \in DOMAIN s => /\ t[idx].full = r.history /\ t[idx].reqHistory = r.history /\ t[idx].content = [to |-> r.history, len |-> Full]
                            /\ t[idx].status = "complete" /\ t[idx].question = s[idx].question
    BY <1>3, <2>0, <2>1 DEF Chat!++, TurnFields, Chat!Completed
  <2>4. ~chat.clearedAsking => Mine(t[idx])
    BY <1>4, <2>3 DEF Mine
  <2>5. ASSUME ~(chat.stoppedAsking \/ chat.clearedAsking)
        PROVE  /\ \A x \in UnderWay : x.idx = idx
               /\ \A x, y \in UnderWay' : x.idx = idx /\ x = y
               /\ (chat'.status = "idle") <=> (UnderWay' = {})
               /\ chat'.turns[idx].status \in Chat!Unfinished <=> UnderWay' # {}
               /\ Whole(chat'.turns[idx])
    <3>1. UnderWay' = {}
      BY <1>6, <1>8, <2>5 DEF UnderWay
    <3>2. t[idx].status = "complete" /\ t[idx].content = [to |-> t[idx].question, len |-> Full]
      BY <1>4, <2>3, <2>5
    <3> QED BY <1>5, <1>8, <2>5, <3>1, <3>2 DEF Chat!Unfinished, Whole
  <2>6. /\ \A q \in chat'.requests : DOMAIN q = {"n", "idx", "history", "phase"} /\ q \in chat.requests
        /\ \A w \in chat'.typewriter : DOMAIN w = {"idx", "full", "pos"} /\ w \in chat.typewriter
    BY <1>0, <1>1, <1>8 DEF ChatType
  <2> QED BY <1>1, <1>4, <2>2, <2>4, <2>5, <2>6, Placed
<1> QED BY <1>1, <1>7, <1>8

\* A frame draws one more piece, or the last one.
LEMMA TickKeeps ==
    ASSUME ChatInv, NEW w \in chat.typewriter, Chat!Tick(w) PROVE ChatInv'
<1> DEFINE idx == w.idx  s == chat.turns  t == chat'.turns  end == Chat!Completed(w.full)
           piece == [content |-> [to |-> w.full, len |-> w.pos + 1]]  moved == [w EXCEPT !.pos = w.pos + 1]
<1>0. /\ ChatType /\ DOMAIN chat = ChatFields /\ DOMAIN w = {"idx", "full", "pos"}
      /\ \A i \in DOMAIN s : DOMAIN s[i] = TurnFields
  BY DEF ChatInv, ChatType
<1>1. /\ DOMAIN chat' = ChatFields /\ chat'.requests = chat.requests
      /\ chat'.clearedAsking = chat.clearedAsking /\ chat'.stoppedAsking = chat.stoppedAsking
      /\ chat'.compareRows = chat.compareRows /\ chat'.comparing = chat.comparing
      /\ \/ t = Chat!Updated(s, idx, end) /\ chat'.status = "idle" /\ chat'.typewriter = {}
         \/ t = Chat!Updated(s, idx, piece) /\ chat'.status = chat.status /\ chat'.typewriter = {moved}
  <2>1. CASE w.pos + 1 >= Full
    <3>1. chat' = [chat EXCEPT !.status = "idle", !.typewriter = {}, !.turns = Chat!Updated(@, idx, end)]
      BY <2>1 DEF Chat!Tick
    <3> HIDE DEF end
    <3> QED BY <1>0, <3>1 DEF ChatFields
  <2>2. CASE ~(w.pos + 1 >= Full)
    <3>1. chat' = [chat EXCEPT !.typewriter = {moved}, !.turns = Chat!Updated(@, idx, piece)]
      BY <2>2 DEF Chat!Tick
    <3> HIDE DEF piece, moved
    <3> QED BY <1>0, <3>1 DEF ChatFields
  <2> QED BY <2>1, <2>2
<1>2. ~chat.clearedAsking => idx \in DOMAIN s /\ Mine(s[idx]) /\ w.full = s[idx].question
  BY DEF ChatInv, InPlace
<1>3. \A x \in UnderWay : ~(chat.stoppedAsking \/ chat.clearedAsking) => x = w
  BY Alone DEF UnderWay
<1>4. ~(chat.stoppedAsking \/ chat.clearedAsking) => chat.requests = {}
  <2>1. w \notin chat.requests
    BY <1>0 DEF ChatType
  <2> QED BY <2>1, <1>3 DEF UnderWay
<1>5. /\ \A q \in chat.requests : DOMAIN q = {"n", "idx", "history", "phase"}
      /\ DOMAIN moved = {"idx", "full", "pos"} /\ moved.idx = idx /\ moved.full = w.full
  BY <1>0 DEF ChatType
<1>6. CASE t = Chat!Updated(s, idx, end) /\ chat'.status = "idle" /\ chat'.typewriter = {}
  <2>1. DOMAIN end \subseteq TurnFields \ {"question"}
    BY DEF TurnFields, Chat!Completed
  <2>2. Retold(s, t, idx) /\ (idx \in DOMAIN s => t[idx] = Chat!++(end, s[idx]))
    <3> HIDE DEF end
    <3> QED BY <1>0, <1>6, <2>1, PatchedIsRetold
  <2>3. idx \in DOMAIN s => /\ t[idx].full = s[idx].full /\ t[idx].reqHistory = s[idx].reqHistory /\ t[idx].content = [to |-> w.full, len |-> Full]
                            /\ t[idx].status = "complete" /\ t[idx].question = s[idx].question
    BY <1>0, <2>2 DEF Chat!++, TurnFields, Chat!Completed
  <2>4. ~chat.clearedAsking => Mine(t[idx])
    BY <1>2, <2>3 DEF Mine
  <2>5. ASSUME ~(chat.stoppedAsking \/ chat.clearedAsking)
        PROVE  /\ \A x \in UnderWay : x.idx = idx
               /\ \A x, y \in UnderWay' : x.idx = idx /\ x = y
               /\ (chat'.status = "idle") <=> (UnderWay' = {})
               /\ chat'.turns[idx].status \in Chat!Unfinished <=> UnderWay' # {}
               /\ Whole(chat'.turns[idx])
    <3>1. UnderWay' = {}
      BY <1>1, <1>4, <1>6, <2>5 DEF UnderWay
    <3>2. t[idx].status = "complete" /\ t[idx].content = [to |-> t[idx].question, len |-> Full]
      BY <1>2, <2>3, <2>5
    <3> QED BY <1>3, <1>6, <2>5, <3>1, <3>2 DEF Chat!Unfinished, Whole
  <2> QED BY <1>1, <1>2, <1>5, <1>6, <2>2, <2>4, <2>5, Placed
<1>7. CASE t = Chat!Updated(s, idx, piece) /\ chat'.status = chat.status /\ chat'.typewriter = {moved}
  <2>1. DOMAIN piece \subseteq TurnFields \ {"question"}
    BY DEF TurnFields
  <2>2. Retold(s, t, idx) /\ (idx \in DOMAIN s => t[idx] = Chat!++(piece, s[idx]))
    <3> HIDE DEF piece
    <3> QED BY <1>0, <1>7, <2>1, PatchedIsRetold
  <2>3. idx \in DOMAIN s => /\ t[idx].full = s[idx].full /\ t[idx].reqHistory = s[idx].reqHistory /\ t[idx].content.to = w.full
                            /\ t[idx].status = s[idx].status /\ t[idx].question = s[idx].question
    BY <1>0, <2>2 DEF Chat!++, TurnFields
  <2>4. ~chat.clearedAsking => Mine(t[idx])
    BY <1>2, <2>3 DEF Mine
  <2> HIDE DEF moved, piece
  <2>5. ASSUME ~(chat.stoppedAsking \/ chat.clearedAsking)
        PROVE  /\ \A x \in UnderWay : x.idx = idx
               /\ \A x, y \in UnderWay' : x.idx = idx /\ x = y
               /\ (chat'.status = "idle") <=> (UnderWay' = {})
               /\ chat'.turns[idx].status \in Chat!Unfinished <=> UnderWay' # {}
               /\ Whole(chat'.turns[idx])
    <3>1. UnderWay' = {moved}
      BY <1>1, <1>4, <1>7, <2>5 DEF UnderWay
    <3>2. w \in UnderWay
      BY DEF UnderWay
    <3>3. chat.status # "idle" /\ s[idx].status \in Chat!Unfinished
      BY <1>2, <2>5, <3>2 DEF ChatInv, OneAtATime
    <3>4. t[idx].status \in Chat!Unfinished
      BY <1>2, <2>3, <2>5, <3>3
    <3>5. t[idx].status # "complete"
      BY <3>4 DEF Chat!Unfinished
    <3> QED BY <1>3, <1>5, <1>7, <2>5, <3>1, <3>3, <3>4, <3>5 DEF Whole
  <2>6. ~chat.clearedAsking => \A x \in chat'.typewriter : x.idx = idx /\ x.full = s[idx].question
    BY <1>2, <1>5, <1>7
  <2>7. \A x \in chat'.typewriter : DOMAIN x = {"idx", "full", "pos"}
    BY <1>5, <1>7
  <2> QED BY <1>1, <1>2, <1>5, <2>2, <2>4, <2>5, <2>6, <2>7, Placed
<1> QED BY <1>1, <1>6, <1>7

\* The drawing of a stopped answer goes on.
LEMMA ResumeKeeps ==
    ASSUME ChatInv, NEW idx, Chat!resume(idx) PROVE ChatInv'
<1> DEFINE s == chat.turns  t == chat'.turns  turn == s[idx]  begin == [status |-> "streaming"]  begun == Chat!Updated(s, idx, begin)
           end == Chat!Completed(turn.full)  writer == [idx |-> idx, full |-> turn.full, pos |-> turn.content.len]
<1>0. /\ ChatType /\ DOMAIN chat = ChatFields /\ \A i \in DOMAIN s : DOMAIN s[i] = TurnFields
      /\ chat.status = "idle" /\ idx \in DOMAIN s /\ turn.full # Chat!NoAnswer
  BY DEF ChatInv, ChatType, Chat!resume
<1>1. /\ DOMAIN chat' = ChatFields /\ chat'.requests = chat.requests
      /\ chat'.clearedAsking = chat.clearedAsking /\ chat'.stoppedAsking = chat.stoppedAsking
      /\ chat'.compareRows = chat.compareRows /\ chat'.comparing = chat.comparing
      /\ \/ t = Chat!Updated(begun, idx, end) /\ chat'.status = "idle" /\ chat'.typewriter = {}
         \/ t = begun /\ chat'.status = "streaming" /\ chat'.typewriter = {writer}
  <2> DEFINE c == [chat EXCEPT !.turns = begun]
  <2>1. /\ DOMAIN c = ChatFields /\ c.turns = begun /\ c.requests = chat.requests
        /\ c.clearedAsking = chat.clearedAsking /\ c.stoppedAsking = chat.stoppedAsking
        /\ c.compareRows = chat.compareRows /\ c.comparing = chat.comparing
    <3> HIDE DEF begun
    <3> QED BY <1>0 DEF ChatFields
  <2>2. chat' = Chat!runTypewriter(c, idx, turn.full, turn.content.len)
    BY DEF Chat!resume
  <2> HIDE DEF c, end, begun
  <2>3. CASE c.reduced
    <3>1. chat' = [c EXCEPT !.typewriter = {}, !.status = "idle", !.turns = Chat!Updated(@, idx, end)]
      BY <2>2, <2>3 DEF Chat!runTypewriter, end
    <3> QED BY <2>1, <3>1 DEF ChatFields
  <2>4. CASE ~c.reduced
    <3>1. chat' = [c EXCEPT !.typewriter = {writer}, !.status = "streaming"]
      BY <2>2, <2>4 DEF Chat!runTypewriter
    <3> QED BY <2>1, <3>1 DEF ChatFields
  <2> QED BY <2>3, <2>4
<1>2. Retold(s, begun, idx) /\ begun[idx] = Chat!++(begin, s[idx])
  BY <1>0, PatchedIsRetold DEF TurnFields
<1>3. /\ begun[idx].full = turn.full /\ begun[idx].reqHistory = turn.reqHistory /\ begun[idx].content = turn.content
      /\ begun[idx].status = "streaming" /\ begun[idx].question = turn.question
  <2>1. begun[idx] = Chat!++(begin, s[idx])
    BY <1>2
  <2> HIDE DEF begun
  <2> QED BY <1>0, <2>1 DEF Chat!++, TurnFields
<1> HIDE DEF begun, begin
<1>4. ~chat.clearedAsking => Mine(turn) /\ turn.full = turn.question
  BY <1>0 DEF ChatInv, InPlace, Mine
<1>5. ~(chat.stoppedAsking \/ chat.clearedAsking) => UnderWay = {}
  BY <1>0 DEF ChatInv, OneAtATime
<1>6. \A q \in chat.requests : DOMAIN q = {"n", "idx", "history", "phase"}
  BY <1>0 DEF ChatType
<1>7. CASE t = begun /\ chat'.status = "streaming" /\ chat'.typewriter = {writer}
  <2>1. ~chat.clearedAsking => Mine(t[idx])
    BY <1>7, <1>3, <1>4 DEF Mine
  <2>2. ASSUME ~(chat.stoppedAsking \/ chat.clearedAsking)
        PROVE  /\ \A x, y \in UnderWay' : x.idx = idx /\ x = y
               /\ (chat'.status = "idle") <=> (UnderWay' = {})
               /\ chat'.turns[idx].status \in Chat!Unfinished <=> UnderWay' # {}
               /\ Whole(chat'.turns[idx])
    <3>1. UnderWay' = {writer} /\ writer.idx = idx
      BY <1>1, <1>5, <1>7, <2>2 DEF UnderWay
    <3>2. t[idx].status = "streaming"
      BY <1>7, <1>3
    <3> HIDE DEF writer
    <3> QED BY <1>7, <3>1, <3>2 DEF Chat!Unfinished, Whole
  <2>3. \A w \in chat'.typewriter : DOMAIN w = {"idx", "full", "pos"}
    BY <1>7
  <2>4. ~chat.clearedAsking => \A w \in chat'.typewriter : w.idx = idx /\ w.full = turn.question
    BY <1>4, <1>7
  <2>5. Retold(s, t, idx)
    BY <1>2, <1>7
  <2> HIDE DEF writer
  <2> QED BY <1>0, <1>1, <1>5, <1>6, <2>1, <2>2, <2>3, <2>4, <2>5, Placed
<1>8. CASE t = Chat!Updated(begun, idx, end) /\ chat'.status = "idle" /\ chat'.typewriter = {}
  <2>0. DOMAIN begun = DOMAIN s /\ \A i \in DOMAIN begun : DOMAIN begun[i] = TurnFields
    BY <1>2 DEF Retold
  <2>1. Retold(begun, t, idx) /\ t[idx] = Chat!++(end, begun[idx])
    <3>1. DOMAIN end \subseteq TurnFields \ {"question"}
      BY DEF TurnFields, Chat!Completed
    <3> HIDE DEF end
    <3> QED BY <1>0, <1>8, <2>0, <3>1, PatchedIsRetold
  <2>2. Retold(s, t, idx)
    BY <1>2, <2>1, RetoldTwice
  <2>3. /\ t[idx].full = turn.full /\ t[idx].reqHistory = turn.reqHistory /\ t[idx].content = [to |-> turn.full, len |-> Full]
        /\ t[idx].status = "complete" /\ t[idx].question = turn.question
    BY <1>0, <1>3, <2>0, <2>1 DEF Chat!++, TurnFields, Chat!Completed
  <2>4. ~chat.clearedAsking => Mine(t[idx])
    BY <1>4, <2>3 DEF Mine
  <2>5. ASSUME ~(chat.stoppedAsking \/ chat.clearedAsking)
        PROVE  /\ \A x, y \in UnderWay' : x.idx = idx /\ x = y
               /\ (chat'.status = "idle") <=> (UnderWay' = {})
               /\ chat'.turns[idx].status \in Chat!Unfinished <=> UnderWay' # {}
               /\ Whole(chat'.turns[idx])
    <3>1. UnderWay' = {}
      BY <1>1, <1>5, <1>8, <2>5 DEF UnderWay
    <3>2. t[idx].status = "complete" /\ t[idx].content = [to |-> t[idx].question, len |-> Full]
      BY <1>4, <2>3, <2>5
    <3> QED BY <1>8, <3>1, <3>2 DEF Chat!Unfinished, Whole
  <2> QED BY <1>0, <1>1, <1>5, <1>6, <1>8, <2>2, <2>4, <2>5, Placed
<1> QED BY <1>1, <1>7, <1>8

\* A question is put again, in the place it had.
LEMMA AskedAgain ==
    ASSUME ChatInv, NEW idx \in DOMAIN chat.turns, chat.status = "idle", NEW c, NEW history, DOMAIN c = ChatFields,
           Retold(chat.turns, c.turns, idx), ~chat.clearedAsking => Mine(c.turns[idx]) /\ history = chat.turns[idx].question,
           c.requests = chat.requests, c.typewriter = chat.typewriter, c.clearedAsking = chat.clearedAsking,
           c.stoppedAsking = chat.stoppedAsking, c.compareRows = chat.compareRows, c.comparing = chat.comparing,
           chat' = Chat!runRequest(c, idx, history)
    PROVE  ChatInv'
<1> DEFINE s == chat.turns  t == chat'.turns  u == c.turns  patch == [status |-> "queued"]
           new == [n |-> c.asked + 1, idx |-> idx, history |-> history, phase |-> "queued"]
<1>0. ChatType /\ \A i \in DOMAIN u : DOMAIN u[i] = TurnFields
  BY DEF ChatInv, Retold
<1>1. /\ DOMAIN chat' = ChatFields /\ t = Chat!Updated(u, idx, patch) /\ chat'.status = "queued"
      /\ chat'.requests = chat.requests \cup {new} /\ chat'.typewriter = chat.typewriter
      /\ chat'.clearedAsking = chat.clearedAsking /\ chat'.stoppedAsking = chat.stoppedAsking
      /\ chat'.compareRows = chat.compareRows /\ chat'.comparing = chat.comparing
  <2>1. chat' = [c EXCEPT !.status = "queued", !.asked = @ + 1, !.turns = Chat!Updated(@, idx, patch), !.requests = @ \cup {new}]
    BY DEF Chat!runRequest
  <2> HIDE DEF patch, new
  <2> QED BY <2>1 DEF ChatFields
<1>2. idx \in DOMAIN u /\ u[idx].question = s[idx].question
  BY DEF Retold
<1>3. Retold(u, t, idx) /\ t[idx] = Chat!++(patch, u[idx])
  <2>1. DOMAIN patch \subseteq TurnFields \ {"question"}
    BY DEF TurnFields
  <2> HIDE DEF patch
  <2> QED BY <1>0, <1>1, <1>2, <2>1, PatchedIsRetold
<1>4. Retold(s, t, idx)
  BY <1>3, RetoldTwice
<1>5. /\ t[idx].status = "queued" /\ t[idx].full = u[idx].full /\ t[idx].content = u[idx].content
      /\ t[idx].reqHistory = u[idx].reqHistory /\ t[idx].question = u[idx].question
  BY <1>0, <1>2, <1>3 DEF Chat!++, TurnFields
<1>6. ~chat.clearedAsking => Mine(t[idx])
  BY <1>5 DEF Mine
<1>7. DOMAIN new = {"n", "idx", "history", "phase"} /\ new.idx = idx /\ new.history = history
  OBVIOUS
<1> HIDE DEF new
<1>8. ~(chat.stoppedAsking \/ chat.clearedAsking) => UnderWay = {}
  BY DEF ChatInv, OneAtATime
<1>9. ASSUME ~(chat.stoppedAsking \/ chat.clearedAsking)
      PROVE  /\ \A x, y \in UnderWay' : x.idx = idx /\ x = y
             /\ (chat'.status = "idle") <=> (UnderWay' = {})
             /\ chat'.turns[idx].status \in Chat!Unfinished <=> UnderWay' # {}
             /\ Whole(chat'.turns[idx])
  <2>1. UnderWay' = {new}
    BY <1>1, <1>8, <1>9 DEF UnderWay
  <2> QED BY <1>1, <1>5, <1>7, <2>1 DEF Chat!Unfinished, Whole
<1>10. \A q \in chat'.requests : DOMAIN q = {"n", "idx", "history", "phase"}
  BY <1>0, <1>1, <1>7 DEF ChatType
<1>11. \A w \in chat'.typewriter : DOMAIN w = {"idx", "full", "pos"} /\ w \in chat.typewriter
  BY <1>0, <1>1 DEF ChatType
<1>12. ~chat.clearedAsking => \A q \in chat'.requests : q \in chat.requests \/ (q.idx = idx /\ q.history = s[idx].question)
  BY <1>1, <1>7
<1> QED BY <1>1, <1>4, <1>6, <1>8, <1>9, <1>10, <1>11, <1>12, Placed

\* A stopped answer is asked for anew.
LEMMA RegenerateKeeps ==
    ASSUME ChatInv, NEW idx, Chat!regenerate(idx) PROVE ChatInv'
<1> DEFINE s == chat.turns  patch == [content |-> Chat!Nothing, full |-> Chat!NoAnswer]  u == Chat!Updated(s, idx, patch)
           c == [chat EXCEPT !.turns = u]  history == s[idx].reqHistory
<1>0. /\ ChatType /\ DOMAIN chat = ChatFields /\ \A i \in DOMAIN s : DOMAIN s[i] = TurnFields
      /\ chat.status = "idle" /\ idx \in DOMAIN s /\ history # Chat!NoAnswer
  BY DEF ChatInv, ChatType, Chat!regenerate
<1>1. chat' = Chat!runRequest(c, idx, history)
  BY DEF Chat!regenerate
<1>2. Retold(s, u, idx) /\ u[idx] = Chat!++(patch, s[idx])
  BY <1>0, PatchedIsRetold DEF TurnFields
<1> HIDE DEF u
<1>3. /\ u[idx].full = Chat!NoAnswer /\ u[idx].content = Chat!Nothing /\ u[idx].reqHistory = history
      /\ u[idx].question = s[idx].question
  BY <1>0, <1>2 DEF Chat!++, TurnFields
<1>4. ~chat.clearedAsking => Mine(u[idx]) /\ history = s[idx].question
  <2>1. ~chat.clearedAsking => Mine(s[idx])
    BY <1>0 DEF ChatInv, InPlace
  <2>2. ~chat.clearedAsking => history = s[idx].question
    BY <1>0, <2>1 DEF Mine
  <2> QED BY <1>3, <2>2 DEF Mine, Chat!Nothing
<1>5. /\ DOMAIN c = ChatFields /\ c.turns = u /\ c.requests = chat.requests /\ c.typewriter = chat.typewriter
      /\ c.clearedAsking = chat.clearedAsking /\ c.stoppedAsking = chat.stoppedAsking
      /\ c.compareRows = chat.compareRows /\ c.comparing = chat.comparing
  BY <1>0 DEF ChatFields
<1> HIDE DEF c, history
<1> QED BY <1>0, <1>1, <1>2, <1>4, <1>5, AskedAgain

\* The question of a failed exchange is asked again.
LEMMA RetryKeeps ==
    ASSUME ChatInv, NEW idx, Chat!retry(idx) PROVE ChatInv'
<1> DEFINE s == chat.turns
<1>0. /\ ChatType /\ DOMAIN chat = ChatFields /\ \A i \in DOMAIN s : DOMAIN s[i] = TurnFields
      /\ chat.status = "idle" /\ idx \in DOMAIN s /\ chat' = Chat!runRequest(chat, idx, s[idx].question)
  BY DEF ChatInv, ChatType, Chat!retry
<1>1. Retold(s, s, idx)
  <2>1. s = [i \in DOMAIN s |-> s[i]]
    BY DEF ChatInv, ChatType, IsList
  <2> HIDE DEF s
  <2> QED BY <1>0, <2>1 DEF Retold
<1>2. ~chat.clearedAsking => Mine(s[idx])
  BY <1>0 DEF ChatInv, InPlace
<1> QED BY <1>0, <1>1, <1>2, AskedAgain

\* A question is put in a place of its own.
LEMMA SendKeeps ==
    ASSUME ChatInv, Chat!send PROVE ChatInv'
<1> DEFINE s == chat.turns  t == chat'.turns  k == Len(s) + 1  a == chat.asked + 1  turn == Chat!Turn(a)  u == Append(s, turn)
           patch == [status |-> "queued"]  new == [n |-> a, idx |-> k, history |-> a, phase |-> "queued"]
           c == [chat EXCEPT !.turns = u]
<1>0. /\ ChatType /\ DOMAIN chat = ChatFields /\ \A i \in DOMAIN s : DOMAIN s[i] = TurnFields
      /\ IsList(s) /\ chat.status = "idle" /\ chat' = Chat!runRequest(c, k, a)
  BY DEF ChatInv, ChatType, Chat!send
<1>1. /\ DOMAIN chat' = ChatFields /\ t = Chat!Updated(u, k, patch) /\ chat'.status = "queued"
      /\ chat'.requests = chat.requests \cup {new} /\ chat'.typewriter = chat.typewriter
      /\ chat'.clearedAsking = chat.clearedAsking /\ chat'.stoppedAsking = chat.stoppedAsking
      /\ chat'.compareRows = chat.compareRows /\ chat'.comparing = chat.comparing
  <2>1. /\ DOMAIN c = ChatFields /\ c.turns = u /\ c.asked = chat.asked /\ c.requests = chat.requests /\ c.typewriter = chat.typewriter
        /\ c.clearedAsking = chat.clearedAsking /\ c.stoppedAsking = chat.stoppedAsking
        /\ c.compareRows = chat.compareRows /\ c.comparing = chat.comparing
    <3> HIDE DEF u
    <3> QED BY <1>0 DEF ChatFields
  <2> HIDE DEF c
  <2>2. chat' = [c EXCEPT !.status = "queued", !.asked = @ + 1, !.turns = Chat!Updated(@, k, patch), !.requests = @ \cup {new}]
    BY <1>0, <2>1 DEF Chat!runRequest
  <2> HIDE DEF patch, new, u
  <2> QED BY <2>1, <2>2 DEF ChatFields
<1>2. IsList(u) /\ k \notin DOMAIN s /\ DOMAIN u = DOMAIN s \cup {k} /\ u[k] = turn /\ \A i \in DOMAIN s : u[i] = s[i]
  <2> HIDE DEF turn
  <2> QED BY <1>0, AppendAt
<1>3. DOMAIN turn = TurnFields /\ turn.question = a /\ turn.full = Chat!NoAnswer /\ turn.content = Chat!Nothing /\ turn.reqHistory = Chat!NoAnswer
  BY DEF Chat!Turn, TurnFields
<1> HIDE DEF turn, u, k
<1>4. \A i \in DOMAIN u : DOMAIN u[i] = TurnFields
  BY <1>0, <1>2, <1>3
<1>5. Retold(u, t, k) /\ t[k] = Chat!++(patch, u[k])
  <2>1. DOMAIN patch \subseteq TurnFields \ {"question"}
    BY DEF TurnFields
  <2> HIDE DEF patch
  <2> QED BY <1>1, <1>2, <1>4, <2>1, PatchedIsRetold
<1>6. /\ t[k].status = "queued" /\ t[k].full = Chat!NoAnswer /\ t[k].content = Chat!Nothing
      /\ t[k].reqHistory = Chat!NoAnswer /\ t[k].question = a
  BY <1>2, <1>3, <1>5 DEF Chat!++, TurnFields
<1>7. DOMAIN t = DOMAIN s \cup {k} /\ \A i \in DOMAIN s : t[i] = s[i]
  BY <1>2, <1>5 DEF Retold
<1>8. DOMAIN new = {"n", "idx", "history", "phase"} /\ new.idx = k /\ new.history = a
  OBVIOUS
<1> HIDE DEF new, patch
<1>9. ChatType'
  <2>1. IsList(t) /\ \A i \in DOMAIN t : DOMAIN t[i] = TurnFields
    BY <1>2, <1>5 DEF IsList, Retold
  <2>2. \A q \in chat'.requests : DOMAIN q = {"n", "idx", "history", "phase"}
    BY <1>0, <1>1, <1>8 DEF ChatType
  <2>3. \A w \in chat'.typewriter : DOMAIN w = {"idx", "full", "pos"}
    BY <1>0, <1>1 DEF ChatType
  <2> QED BY <1>1, <2>1, <2>2, <2>3 DEF ChatType
<1>10. InPlace'
  <2> SUFFICES ASSUME ~chat.clearedAsking
               PROVE  /\ \A i \in DOMAIN t : Mine(t[i])
                      /\ \A r \in chat'.requests : r.idx \in DOMAIN t /\ r.history = t[r.idx].question
                      /\ \A w \in chat'.typewriter : w.idx \in DOMAIN t /\ w.full = t[w.idx].question
    BY <1>1 DEF InPlace
  <2>1. /\ \A i \in DOMAIN s : Mine(s[i])
        /\ \A r \in chat.requests : r.idx \in DOMAIN s /\ r.history = s[r.idx].question
        /\ \A w \in chat.typewriter : w.idx \in DOMAIN s /\ w.full = s[w.idx].question
    BY DEF ChatInv, InPlace
  <2>2. Mine(t[k])
    BY <1>6 DEF Mine, Chat!Nothing
  <2>3. \A i \in DOMAIN t : Mine(t[i])
    BY <1>7, <2>1, <2>2
  <2>4. \A r \in chat'.requests : r.idx \in DOMAIN t /\ r.history = t[r.idx].question
    BY <1>1, <1>6, <1>7, <1>8, <2>1
  <2>5. \A w \in chat'.typewriter : w.idx \in DOMAIN t /\ w.full = t[w.idx].question
    BY <1>1, <1>7, <2>1
  <2> QED BY <2>3, <2>4, <2>5
<1>11. OneAtATime'
  <2> SUFFICES ASSUME ~(chat.stoppedAsking \/ chat.clearedAsking)
               PROVE  /\ \A x, y \in UnderWay' : x = y
                      /\ (chat'.status = "idle") <=> (UnderWay' = {})
                      /\ \A i \in DOMAIN t : t[i].status \in Chat!Unfinished <=> \E x \in UnderWay' : x.idx = i
                      /\ \A i \in DOMAIN t : Whole(t[i])
    BY <1>1 DEF OneAtATime
  <2>1. /\ UnderWay = {}
        /\ \A i \in DOMAIN s : s[i].status \notin Chat!Unfinished /\ Whole(s[i])
    BY <1>0 DEF ChatInv, OneAtATime
  <2>2. UnderWay' = {new}
    BY <1>1, <2>1 DEF UnderWay
  <2>3. t[k].status \in Chat!Unfinished /\ Whole(t[k])
    BY <1>6 DEF Chat!Unfinished, Whole
  <2>4. \A i \in DOMAIN t : (t[i].status \in Chat!Unfinished <=> \E x \in UnderWay' : x.idx = i) /\ Whole(t[i])
    <3> TAKE i \in DOMAIN t
    <3>1. CASE i = k
      BY <1>8, <2>2, <2>3, <3>1
    <3>2. CASE i # k
      BY <1>7, <1>8, <2>1, <2>2, <3>2
    <3> QED BY <3>1, <3>2
  <2> QED BY <1>1, <2>2, <2>4
<1>12. ComparesOrNot'
  BY <1>1 DEF ComparesOrNot, ChatInv
<1> QED BY <1>9, <1>10, <1>11, <1>12 DEF ChatInv

\* What stopping makes of a conversation.
LEMMA StoppedTurns ==
    ASSUME ChatType, NEW c, c = Chat!Stopped(chat)
    PROVE  /\ DOMAIN c = ChatFields /\ c.status = "idle" /\ c.typewriter = {} /\ c.requests = chat.requests
           /\ c.clearedAsking = chat.clearedAsking /\ c.stoppedAsking = chat.stoppedAsking
           /\ c.compareRows = chat.compareRows /\ c.comparing = chat.comparing
           /\ DOMAIN c.turns = DOMAIN chat.turns /\ IsList(c.turns)
           /\ \A i \in DOMAIN chat.turns :
                  /\ DOMAIN c.turns[i] = TurnFields /\ c.turns[i].question = chat.turns[i].question
                  /\ c.turns[i].full = chat.turns[i].full /\ c.turns[i].content = chat.turns[i].content
                  /\ c.turns[i].reqHistory = chat.turns[i].reqHistory /\ c.turns[i].status \notin Chat!Unfinished
                  /\ c.turns[i].status = "complete" => chat.turns[i].status = "complete"
<1> DEFINE s == chat.turns
           u == [i \in DOMAIN s |-> IF s[i].status \in Chat!Unfinished THEN [s[i] EXCEPT !.status = "stopped"] ELSE s[i]]
<1>0. DOMAIN chat = ChatFields /\ IsList(s) /\ \A i \in DOMAIN s : DOMAIN s[i] = TurnFields
  BY DEF ChatType
<1>1. c = [chat EXCEPT !.status = "idle", !.typewriter = {}, !.turns = u]
  BY DEF Chat!Stopped
<1>2. /\ DOMAIN c = ChatFields /\ c.status = "idle" /\ c.typewriter = {} /\ c.requests = chat.requests
      /\ c.clearedAsking = chat.clearedAsking /\ c.stoppedAsking = chat.stoppedAsking
      /\ c.compareRows = chat.compareRows /\ c.comparing = chat.comparing /\ c.turns = u
  <2> HIDE DEF u
  <2> QED BY <1>0, <1>1 DEF ChatFields
<1>3. DOMAIN u = DOMAIN s /\ IsList(u)
  BY <1>0 DEF IsList
<1>4. ASSUME NEW i \in DOMAIN s
      PROVE  /\ DOMAIN u[i] = TurnFields /\ u[i].question = s[i].question
             /\ u[i].full = s[i].full /\ u[i].content = s[i].content
             /\ u[i].reqHistory = s[i].reqHistory /\ u[i].status \notin Chat!Unfinished
             /\ u[i].status = "complete" => s[i].status = "complete"
  <2>1. u[i] = IF s[i].status \in Chat!Unfinished THEN [s[i] EXCEPT !.status = "stopped"] ELSE s[i]
    OBVIOUS
  <2> HIDE DEF u
  <2> QED BY <1>0, <2>1 DEF TurnFields, Chat!Unfinished
<1> HIDE DEF u
<1> QED BY <1>2, <1>3, <1>4

\* Stopping ends the drawing and leaves the request.
LEMMA stopKeeps ==
    ASSUME ChatInv, Chat!stop PROVE ChatInv'
<1> DEFINE c == Chat!Stopped(chat)  s == chat.turns  t == chat'.turns
<1>0. ChatType
  BY DEF ChatInv
<1>1. /\ DOMAIN chat' = ChatFields /\ t = c.turns /\ chat'.status = "idle" /\ chat'.typewriter = {} /\ chat'.requests = chat.requests
      /\ chat'.clearedAsking = chat.clearedAsking /\ chat'.stoppedAsking = (chat.stoppedAsking \/ chat.requests # {})
      /\ chat'.compareRows = chat.compareRows /\ chat'.comparing = chat.comparing
  <2>1. chat' = [c EXCEPT !.stoppedAsking = @ \/ chat.requests # {}]
    BY DEF Chat!stop
  <2>2. /\ DOMAIN c = ChatFields /\ c.status = "idle" /\ c.typewriter = {} /\ c.requests = chat.requests
        /\ c.clearedAsking = chat.clearedAsking /\ c.stoppedAsking = chat.stoppedAsking
        /\ c.compareRows = chat.compareRows /\ c.comparing = chat.comparing
    BY <1>0, StoppedTurns
  <2> HIDE DEF c
  <2> QED BY <2>1, <2>2 DEF ChatFields
<1>2. /\ DOMAIN t = DOMAIN s /\ IsList(t)
      /\ \A i \in DOMAIN s :
             /\ DOMAIN t[i] = TurnFields /\ t[i].question = s[i].question
             /\ t[i].full = s[i].full /\ t[i].content = s[i].content
             /\ t[i].reqHistory = s[i].reqHistory /\ t[i].status \notin Chat!Unfinished
             /\ t[i].status = "complete" => s[i].status = "complete"
  BY <1>0, <1>1, StoppedTurns
<1> HIDE DEF c
<1>3. ChatType'
  BY <1>0, <1>1, <1>2 DEF ChatType
<1>4. InPlace'
  BY <1>1, <1>2 DEF ChatInv, InPlace, Mine
<1>5. OneAtATime'
  <2> SUFFICES ASSUME ~(chat'.stoppedAsking \/ chat'.clearedAsking)
               PROVE  /\ UnderWay' = {}
                      /\ \A i \in DOMAIN t : t[i].status \notin Chat!Unfinished /\ Whole(t[i])
    BY <1>1 DEF OneAtATime
  <2>1. ~(chat.stoppedAsking \/ chat.clearedAsking) /\ chat.requests = {}
    BY <1>1
  <2>2. \A i \in DOMAIN s : Whole(s[i])
    BY <2>1 DEF ChatInv, OneAtATime
  <2> QED BY <1>1, <1>2, <2>1, <2>2 DEF UnderWay, Whole
<1>6. ComparesOrNot'
  BY <1>1 DEF ComparesOrNot, ChatInv
<1> QED BY <1>3, <1>4, <1>5, <1>6 DEF ChatInv

\* Clearing leaves nothing to stand under.
LEMMA ClearKeeps ==
    ASSUME ChatInv, Chat!Clear PROVE ChatInv'
<1> DEFINE c == Chat!Stopped(chat)
<1>0. ChatType
  BY DEF ChatInv
<1>1. /\ DOMAIN chat' = ChatFields /\ chat'.turns = <<>> /\ chat'.status = "idle" /\ chat'.typewriter = {} /\ chat'.requests = chat.requests
      /\ chat'.stoppedAsking = chat.stoppedAsking /\ chat'.clearedAsking = (chat.clearedAsking \/ chat.requests # {})
      /\ chat'.compareRows = chat.compareRows /\ chat'.comparing = chat.comparing
  <2>1. chat' = [c EXCEPT !.turns = <<>>, !.clearedAsking = @ \/ chat.requests # {}]
    BY DEF Chat!Clear
  <2>2. /\ DOMAIN c = ChatFields /\ c.status = "idle" /\ c.typewriter = {} /\ c.requests = chat.requests
        /\ c.clearedAsking = chat.clearedAsking /\ c.stoppedAsking = chat.stoppedAsking
        /\ c.compareRows = chat.compareRows /\ c.comparing = chat.comparing
    BY <1>0, StoppedTurns
  <2> HIDE DEF c
  <2> QED BY <2>1, <2>2 DEF ChatFields
<1>2. IsList(<<>>) /\ DOMAIN chat'.turns = {}
  <2>1. DOMAIN <<>> = 1 .. 0 /\ <<>> = [i \in 1 .. 0 |-> <<>>[i]]
    OBVIOUS
  <2>2. DOMAIN chat'.turns = {}
    BY <1>1
  <2> QED BY <2>1, <2>2 DEF IsList
<1>3. ChatType'
  BY <1>0, <1>1, <1>2 DEF ChatType
<1>4. InPlace'
  BY <1>1, <1>2 DEF InPlace
<1>5. OneAtATime'
  BY <1>1, <1>2 DEF OneAtATime, UnderWay
<1>6. ComparesOrNot'
  BY <1>1 DEF ComparesOrNot, ChatInv
<1> QED BY <1>3, <1>4, <1>5, <1>6 DEF ChatInv

\* The comparison is beside the conversation.
LEMMA ComparingKeeps ==
    ASSUME ChatInv, Chat!compare \/ Chat!Compared \/ Chat!CloseRows PROVE ChatInv'
<1>0. ChatType /\ DOMAIN chat = ChatFields
  BY DEF ChatInv, ChatType
<1>1. /\ DOMAIN chat' = ChatFields /\ chat'.turns = chat.turns /\ chat'.status = chat.status /\ chat'.typewriter = chat.typewriter
      /\ chat'.requests = chat.requests /\ chat'.stoppedAsking = chat.stoppedAsking /\ chat'.clearedAsking = chat.clearedAsking
      /\ chat'.compareRows = {"blank"} => chat'.comparing
  BY <1>0, Zenon DEF ChatFields, Chat!compare, Chat!Compared, Chat!CloseRows
<1>2. ChatType' /\ InPlace' /\ ComparesOrNot'
  BY <1>0, <1>1 DEF ChatType, InPlace, ComparesOrNot, ChatInv
<1>3. OneAtATime'
  BY <1>1 DEF OneAtATime, UnderWay, ChatInv
<1> QED BY <1>2, <1>3 DEF ChatInv

\* Every step of the client keeps the invariant of the chat.
LEMMA ChatKeeps == ChatInv /\ [Next]_vars => ChatInv'
<1> SUFFICES ASSUME ChatInv, [Next]_vars PROVE ChatInv'
  OBVIOUS
<1>1. CASE chat' = chat
  BY <1>1 DEF ChatInv, ChatType, InPlace, OneAtATime, ComparesOrNot, UnderWay
<1>2. CASE chat' # chat
  <2>1. Chat!ChatNext
    BY <1>2 DEF Next, vars
  <2> QED BY <2>1, ThinkKeeps, RefuseKeeps, AnswerKeeps, TickKeeps, ResumeKeeps, RegenerateKeeps, RetryKeeps, SendKeeps, stopKeeps,
             ClearKeeps, ComparingKeeps DEF Chat!ChatNext
<1> QED BY <1>1, <1>2

(* An answer stands under the question it answers, the controls are open   *)
(* when nothing is asked or drawn, and one thing is under way for each     *)
(* exchange that waits (send, the typewriter and stop of the playground).  *)
THEOREM AnswersStandUnderTheirQuestion == Spec => []AnswersFindTheirQuestion
<1>1. ChatInv => AnswersFindTheirQuestion
  <2> SUFFICES ASSUME ChatInv PROVE Chat!AnswersFindTheirQuestion
    BY DEF AnswersFindTheirQuestion
  <2> DEFINE turns == chat.turns  Busy(i) == {x \in UnderWay : x.idx = i}
  <2>1. ~chat.clearedAsking => \A i \in DOMAIN turns : {turns[i].full, turns[i].content.to} \subseteq {Chat!NoAnswer, turns[i].question}
    BY DEF ChatInv, InPlace, Mine
  <2>2. ASSUME ~(chat.stoppedAsking \/ chat.clearedAsking)
        PROVE  /\ (chat.status = "idle") <=> (UnderWay = {})
               /\ \A i \in DOMAIN turns : turns[i].status = "complete" => turns[i].content = [to |-> turns[i].question, len |-> Full]
    BY <2>2 DEF ChatInv, OneAtATime, Whole
  <2>3. ASSUME ~(chat.stoppedAsking \/ chat.clearedAsking), NEW i \in DOMAIN turns
        PROVE  turns[i].status \in Chat!Unfinished <=> \E x \in Busy(i) : Busy(i) = {x}
    <3>1. turns[i].status \in Chat!Unfinished <=> \E x \in UnderWay : x.idx = i
      BY <2>3 DEF ChatInv, OneAtATime
    <3>2. \A x, y \in UnderWay : x = y
      BY <2>3 DEF ChatInv, OneAtATime
    <3>3. CASE \E x \in UnderWay : x.idx = i
      <4>1. PICK x \in UnderWay : x.idx = i
        BY <3>3
      <4>2. Busy(i) = {x}
        BY <3>2, <4>1
      <4> QED BY <3>1, <4>1, <4>2
    <3>4. CASE ~\E x \in UnderWay : x.idx = i
      BY <3>1, <3>4
    <3> QED BY <3>3, <3>4
  <2>4. chat.compareRows = {"blank"} => chat.comparing
    BY DEF ChatInv, ComparesOrNot
  <2>5. ~(chat.stoppedAsking \/ chat.clearedAsking) =>
            /\ (chat.status = "idle") <=> (UnderWay = {})
            /\ \A i \in DOMAIN turns :
                   /\ turns[i].status \in Chat!Unfinished <=> \E x \in Busy(i) : Busy(i) = {x}
                   /\ turns[i].status = "complete" => turns[i].content = [to |-> turns[i].question, len |-> Full]
    BY <2>2, <2>3
  <2>6. UnderWay = chat.requests \cup chat.typewriter
    BY DEF UnderWay
  <2> QED BY <2>1, <2>4, <2>5, <2>6, Zenon DEF Chat!AnswersFindTheirQuestion
<1> QED BY <1>1, ChatInit, ChatKeeps, PTL DEF Spec

-----------------------------------------------------------------------------
(* The screens with a report.                                              *)

PageFields == {"at", "query", "past", "period", "moves", "view", "typed", "adrift", "shown", "error", "loading", "sent", "calls",
               "overtaken", "sel", "content", "asking", "strayed"}
ReportCallFields == {"n", "asks", "signal", "live"}
PageType ==
    /\ DOMAIN page = PageFields /\ page.at \in DOMAIN Reports!Pages
    /\ DOMAIN page.view = DOMAIN Reports!Choices(Reports!Screen)
    /\ page.past # <<>> => Head(page.past).at \in DOMAIN Reports!Pages
    /\ \A c \in page.calls \cup page.asking : DOMAIN c = ReportCallFields

\* What the URL gives back is what was written to it.
Returns(field, v) == Reports!parse(field, Reports!serialize(field, v)) = v
UrlHoldsTheView ==
    /\ \A k \in DOMAIN Reports!Screen.schema : Returns(Reports!Screen.schema[k], page.view[k])
    /\ ~page.typed /\ ~page.adrift =>
           \A k \in DOMAIN Reports!Screen.schema : Reports!parse(Reports!Screen.schema[k], page.query[k]) = page.view[k]

\* A call that its effect has not cut off asks what is chosen, and one is on its way if the report is not of the choices.
Awaited == \E c \in page.calls : c.live /\ c.asks = Reports!Wanted
ReportIsAwaited ==
    /\ \A c \in page.calls : c.live /\ c.signal => c.asks = Reports!Wanted
    /\ ~page.error /\ (~page.overtaken \/ page.shown = {}) => page.shown = {Reports!Wanted} \/ Awaited

\* What is asked for a panel is for the row it is open on.
PanelIsOfItsRow ==
    /\ \A c \in page.asking : c.signal = Reports!Screen.cut
    /\ ~page.strayed =>
           /\ page.content \in {Reports!None, page.sel}
           /\ \A c \in page.asking : c.live => c.asks \in {Reports!None, page.sel}

ReportInv == PageType /\ UrlHoldsTheView /\ ReportIsAwaited /\ PanelIsOfItsRow

\* What the screens have in common.
ScreenFacts(s) ==
    /\ \A k \in DOMAIN s.schema : \A v \in s.schema[k].offers : Returns(s.schema[k], v)
    /\ \A k \in s.byRow : k \in DOMAIN s.schema /\ s.schema[k].free
    /\ s.panel = "button" => s.cut = FALSE
    /\ \A link \in s.links \cup s.leaves : link.to \in DOMAIN Reports!Pages
AllScreens == \A at \in DOMAIN Reports!Pages : ScreenFacts(Reports!Pages[at])

\* A screen as it mounts.
FreshOf(p) ==
    LET on == Reports!Pages[p.at]
        asks == Reports!Asks(on, p.view, p.period)
    IN  /\ DOMAIN p = PageFields /\ p.at \in DOMAIN Reports!Pages /\ (p.past # <<>> => Head(p.past).at \in DOMAIN Reports!Pages)
        /\ DOMAIN p.view = DOMAIN Reports!Choices(on)
        /\ \A k \in DOMAIN on.schema : p.view[k] = Reports!parse(on.schema[k], p.query[k])
        /\ p.error = FALSE /\ p.asking = {} /\ p.content = Reports!None
        /\ \/ p.calls = {} /\ p.shown = {asks}
           \/ p.calls = {Reports!Call(1, asks, TRUE)}
Fresh == FreshOf(page)

\* What a screen is as it mounts.
LEMMA MountedIsFresh ==
    ASSUME NEW at \in DOMAIN Reports!Pages, NEW query, NEW past, NEW period, NEW moves, NEW p, p = Reports!Mounted(at, query, past, period, moves),
           past # <<>> => Head(past).at \in DOMAIN Reports!Pages
    PROVE  FreshOf(p)
<1> DEFINE on == Reports!Pages[at]
           view == Reports!++(Reports!decodeState(on.schema, query), [k \in DOMAIN on.own |-> on.own[k].default])
           asks == Reports!Asks(on, view, period)
<1>1. /\ DOMAIN p = PageFields /\ p.at = at /\ p.past = past /\ p.view = view /\ p.query = query /\ p.period = period
      /\ p.error = FALSE /\ p.asking = {} /\ p.content = Reports!None
      /\ \/ p.calls = {} /\ p.shown = {asks}
         \/ p.calls = {Reports!Call(1, asks, TRUE)}
  <2> DEFINE here == at # "elsewhere"
  <2>1. p = [at |-> at, query |-> query, past |-> past, period |-> period, moves |-> moves, view |-> view, typed |-> FALSE, adrift |-> FALSE,
         shown |-> IF here THEN {} ELSE {asks}, error |-> FALSE, loading |-> here, sent |-> 1,
         calls |-> IF here THEN {Reports!Call(1, asks, TRUE)} ELSE {}, overtaken |-> FALSE,
         sel |-> Reports!None, content |-> Reports!None, asking |-> {}, strayed |-> FALSE]
    BY Zenon DEF Reports!Mounted
  <2> HIDE DEF view, asks, here
  <2>2. CASE here
    BY <2>1, <2>2 DEF PageFields
  <2>3. CASE ~here
    BY <2>1, <2>3 DEF PageFields
  <2> QED BY <2>2, <2>3
<1>2. /\ DOMAIN view = DOMAIN Reports!Choices(on)
      /\ \A k \in DOMAIN on.schema : view[k] = Reports!parse(on.schema[k], query[k])
  BY DEF Reports!++, Reports!Choices, Reports!decodeState
<1> HIDE DEF view
<1> QED BY <1>1, <1>2 DEF FreshOf

\* A parsed text is written back as it was read.
LEMMA ParsedReturns == \A field, raw : Returns(field, Reports!parse(field, raw))
BY DEF Returns, Reports!parse, Reports!serialize

\* The fields of a call.
LEMMA ReportCallIs ==
    ASSUME NEW n, NEW asks, NEW signal, NEW c, c = Reports!Call(n, asks, signal)
    PROVE  DOMAIN c = ReportCallFields /\ c.asks = asks /\ c.signal = signal /\ c.live = TRUE
BY DEF Reports!Call, ReportCallFields

\* A screen as it mounts satisfies the invariant.
LEMMA FreshInv == Fresh => ReportInv
<1> SUFFICES ASSUME Fresh PROVE ReportInv
  OBVIOUS
<1> DEFINE asks == Reports!Asks(Reports!Screen, page.view, page.period)
<1>1. /\ DOMAIN page = PageFields /\ page.at \in DOMAIN Reports!Pages /\ (page.past # <<>> => Head(page.past).at \in DOMAIN Reports!Pages)
      /\ DOMAIN page.view = DOMAIN Reports!Choices(Reports!Screen)
      /\ \A k \in DOMAIN Reports!Screen.schema : page.view[k] = Reports!parse(Reports!Screen.schema[k], page.query[k])
      /\ page.error = FALSE /\ page.asking = {} /\ page.content = Reports!None
      /\ \/ page.calls = {} /\ page.shown = {asks}
         \/ page.calls = {Reports!Call(1, asks, TRUE)}
  BY DEF Fresh, FreshOf, Reports!Screen
<1>2. asks = Reports!Wanted
  BY DEF Reports!Wanted
<1> HIDE DEF asks
<1>3. ASSUME NEW c \in page.calls PROVE DOMAIN c = ReportCallFields /\ c.asks = Reports!Wanted /\ c.live
  <2>1. c = Reports!Call(1, Reports!Wanted, TRUE)
    BY <1>1, <1>2, <1>3
  <2>2. DOMAIN c = ReportCallFields /\ c.asks = Reports!Wanted /\ c.live = TRUE
    BY <2>1 DEF Reports!Call, ReportCallFields
  <2> QED BY <2>2
<1>4. PageType
  BY <1>1, <1>3 DEF PageType
<1>5. UrlHoldsTheView
  BY <1>1, ParsedReturns DEF UrlHoldsTheView
<1>6. ReportIsAwaited
  <2>1. page.shown = {Reports!Wanted} \/ Awaited
    BY <1>1, <1>2, <1>3 DEF Awaited
  <2> QED BY <1>3, <2>1 DEF ReportIsAwaited
<1>7. PanelIsOfItsRow
  BY <1>1 DEF PanelIsOfItsRow
<1> QED BY <1>4, <1>5, <1>6, <1>7 DEF ReportInv

\* So does one that mounts in a step.
LEMMA FreshAgain == Fresh' => ReportInv'
BY FreshInv, PTL

\* The application starts on a screen that mounts.
LEMMA ReportInit == Init => ReportInv
<1> SUFFICES ASSUME Init PROVE Fresh
  BY FreshInv
<1>1. \E at \in DOMAIN Reports!Pages : page = Reports!Started(at)
  <2>1. CASE live = "reports"
    BY <2>1 DEF Init
  <2>2. CASE live # "reports"
    <3>1. page \in {Reports!Started("elsewhere")}
      BY <2>2 DEF Init
    <3>2. "elsewhere" \in DOMAIN Reports!Pages
      BY DEF Reports!Pages
    <3> QED BY <3>1, <3>2
  <2> QED BY <2>1, <2>2
<1>2. PICK at \in DOMAIN Reports!Pages : page = Reports!Mounted(at, Reports!NoQuery, <<>>, "24h", 0)
  BY <1>1 DEF Reports!Started
<1> QED BY <1>2, MountedIsFresh DEF Fresh

\* The calls after the cleanup of an effect.
LEMMA AbortedCalls ==
    ASSUME NEW calls, \A c \in calls : DOMAIN c = ReportCallFields
    PROVE  \A c \in Reports!Aborted(calls) :
               /\ DOMAIN c = ReportCallFields /\ ~(c.live /\ c.signal) /\ (c.live => c \in calls)
               /\ \E b \in calls : c.signal = b.signal
<1> SUFFICES ASSUME NEW c \in Reports!Aborted(calls)
             PROVE  /\ DOMAIN c = ReportCallFields /\ ~(c.live /\ c.signal) /\ (c.live => c \in calls)
                    /\ \E b \in calls : c.signal = b.signal
  OBVIOUS
<1>1. PICK b \in calls : c = IF b.signal THEN [b EXCEPT !.live = FALSE] ELSE b
  BY DEF Reports!Aborted
<1>2. CASE b.signal
  BY <1>1, <1>2 DEF ReportCallFields
<1>3. CASE ~b.signal
  BY <1>1, <1>3
<1> QED BY <1>2, <1>3

\* The effect of a load: what it leaves alone, and that what is chosen is asked.
LoadingFrame(p, q) ==
    /\ DOMAIN q = PageFields /\ q.at = p.at /\ q.query = p.query /\ q.past = p.past /\ q.period = p.period /\ q.view = p.view
    /\ q.typed = p.typed /\ q.adrift = p.adrift /\ q.error = p.error /\ q.overtaken = p.overtaken /\ q.sel = p.sel
    /\ q.content = p.content /\ q.asking = p.asking /\ q.strayed = p.strayed
\* The effect keeps what the invariant says of the report and of the panel.
LEMMA LoadingKeeps ==
    ASSUME ReportInv, NEW p, DOMAIN p = PageFields, p.at = page.at, p.calls = page.calls, p.shown = page.shown, p.error = page.error,
           p.overtaken = page.overtaken, p.sel = page.sel, p.content = page.content, p.asking = page.asking, p.strayed = page.strayed,
           page' = Reports!Loading(p)
    PROVE  LoadingFrame(p, page') /\ ReportIsAwaited' /\ PanelIsOfItsRow' /\ \A c \in page'.calls \cup page'.asking : DOMAIN c = ReportCallFields
<1> DEFINE asks == Reports!Asks(Reports!Pages[p.at], p.view, p.period)  new == Reports!Call(p.sent + 1, asks, TRUE)
           emptied == Reports!Pages[p.at].clears
           loading == [p EXCEPT !.loading = TRUE, !.sent = @ + 1, !.shown = IF emptied THEN {} ELSE @,
                          !.calls = Reports!Aborted(@) \cup {new}]
<1>0. /\ \A c \in page.calls \cup page.asking : DOMAIN c = ReportCallFields
      /\ \A c \in page.calls : c.live /\ c.signal => c.asks = Reports!Wanted
      /\ ~page.error /\ (~page.overtaken \/ page.shown = {}) => page.shown = {Reports!Wanted} \/ Awaited
  BY DEF ReportInv, PageType, ReportIsAwaited
<1>1. page' = IF asks = Reports!Wanted THEN p ELSE loading
  BY DEF Reports!Loading
<1>2. DOMAIN new = ReportCallFields /\ new.asks = asks /\ new.signal = TRUE /\ new.live = TRUE
  BY ReportCallIs
<1> HIDE DEF new, asks
<1>3. LoadingFrame(p, page')
  <2>1. LoadingFrame(p, p)
    BY DEF LoadingFrame
  <2>2. LoadingFrame(p, loading)
    <3> HIDE DEF emptied
    <3> QED BY DEF LoadingFrame, PageFields
  <2> QED BY <1>1, <2>1, <2>2
<1>4. Reports!Wanted' = asks
  <2>1. Reports!Wanted' = Reports!Asks(Reports!Pages[page'.at], page'.view, page'.period)
    BY DEF Reports!Wanted, Reports!Screen
  <2> QED BY <1>3, <2>1 DEF LoadingFrame, asks
<1>5. PanelIsOfItsRow'
  <2>1. Reports!Screen' = Reports!Screen
    BY <1>3 DEF Reports!Screen, LoadingFrame
  <2> QED BY <1>3, <2>1 DEF PanelIsOfItsRow, ReportInv, LoadingFrame
<1>6. CASE asks = Reports!Wanted
  <2>1. page' = p
    BY <1>1, <1>6
  <2>2. page'.calls = page.calls /\ page'.shown = page.shown /\ page'.error = page.error /\ page'.overtaken = page.overtaken
    BY <2>1
  <2>3. ReportIsAwaited'
    BY <1>0, <1>4, <1>6, <2>2 DEF ReportIsAwaited, Awaited
  <2>4. \A c \in page'.calls \cup page'.asking : DOMAIN c = ReportCallFields
    BY <1>0, <1>3, <2>2 DEF LoadingFrame
  <2> QED BY <1>3, <1>5, <2>3, <2>4
<1>7. CASE asks # Reports!Wanted
  <2>1. page'.calls = Reports!Aborted(page.calls) \cup {new}
    BY <1>1, <1>7 DEF PageFields
  <2>2. \A c \in Reports!Aborted(page.calls) : DOMAIN c = ReportCallFields /\ ~(c.live /\ c.signal)
    BY <1>0, AbortedCalls
  <2>3. ReportIsAwaited'
    <3>1. Awaited'
      BY <1>2, <1>4, <2>1 DEF Awaited
    <3>2. \A c \in page'.calls : c.live /\ c.signal => c.asks = Reports!Wanted'
      BY <1>2, <1>4, <2>1, <2>2
    <3> QED BY <3>1, <3>2 DEF ReportIsAwaited
  <2>4. \A c \in page'.calls \cup page'.asking : DOMAIN c = ReportCallFields
    BY <1>0, <1>2, <1>3, <2>1, <2>2 DEF LoadingFrame
  <2> QED BY <1>3, <1>5, <2>3, <2>4
<1> QED BY <1>6, <1>7

\* A value that is offered and has a text comes back from the URL, and so does the default.
LEMMA OfferedReturns ==
    ASSUME NEW field, NEW v, v = field.default \/ (v # Reports!Missing /\ (field.free \/ v \in field.offers))
    PROVE  Returns(field, v)
BY DEF Returns, Reports!parse, Reports!serialize

\* What a field offers has a text, if it is not the default.
FieldHasTexts(field) ==
    \A v \in field.offers : v = field.default \/ (v # Reports!Missing /\ (field.free \/ v \in field.offers))
HasTexts(schema) == \A k \in DOMAIN schema : FieldHasTexts(schema[k])
\* What such a schema offers comes back from the URL.
LEMMA SchemasReturn ==
    ASSUME NEW schema, HasTexts(schema)
    PROVE  \A k \in DOMAIN schema : \A v \in schema[k].offers : Returns(schema[k], v)
BY OfferedReturns DEF HasTexts, FieldHasTexts

\* The two kinds of fields, of offers with texts.
LEMMA FieldsHaveTexts ==
    ASSUME NEW default, NEW offers, \A v \in offers : v = default \/ v # ""
    PROVE  FieldHasTexts(Reports!strField(default, offers)) /\ FieldHasTexts(Reports!enumField(default, offers))
BY DEF FieldHasTexts, Reports!strField, Reports!enumField, Reports!Missing

\* Links lead to screens.
LEMMA LinksLead ==
    /\ {"traces", "usage", "traffic", "guard", "gpu", "elsewhere"} \subseteq DOMAIN Reports!Pages
    /\ \A to, carries : Reports!Link(to, carries).to = to
BY DEF Reports!Pages, Reports!Link

\* Every screen is one the proofs below are about.
LEMMA ScreensAgree == \A at \in DOMAIN Reports!Pages : ScreenFacts(Reports!Pages[at])
<1>1. ScreenFacts(Reports!Traces)
  <2> DEFINE s == Reports!Traces
  <2>1. /\ s.schema = Reports!TracesSchema /\ s.byRow = {"app"} /\ s.panel = "call" /\ s.cut = TRUE
        /\ s.links = {}
        /\ s.leaves = {Reports!Link("elsewhere", {"host"}), Reports!Link("elsewhere", {"model"})}
    BY DEF Reports!Traces, Reports!TracesChoices, Reports!TracesLoad, Reports!TracesView, Reports!TracesPanel, Reports!TraceDetail, Reports!Shows, Reports!Plain, Reports!None, Reports!++
  <2>2. HasTexts(Reports!TracesSchema)
    <3>1. FieldHasTexts(Reports!rangeField)
      BY FieldsHaveTexts DEF Reports!rangeField, Reports!Periods
    <3>2. FieldHasTexts(Reports!strField("all", {"all", "a"}))
      BY FieldsHaveTexts
    <3>3. FieldHasTexts(Reports!strField("", {"", "x"}))
      BY FieldsHaveTexts
    <3>4. LET sc == Reports!TracesSchema
          IN  /\ DOMAIN sc = {"range", "model", "app", "q"} /\ sc["range"] = Reports!rangeField /\ sc["q"] = Reports!strField("", {"", "x"})
              /\ sc["model"] = Reports!strField("all", {"all", "a"}) /\ sc["app"] = Reports!strField("all", {"all", "a"})
      BY DEF Reports!TracesSchema
    <3> QED BY <3>1, <3>2, <3>3, <3>4 DEF HasTexts
  <2>3. "app" \in DOMAIN Reports!TracesSchema /\ Reports!TracesSchema["app"].free
    BY DEF Reports!TracesSchema, Reports!strField
  <2> HIDE DEF s
  <2>4. \A link \in s.links \cup s.leaves : link.to \in DOMAIN Reports!Pages
    BY <2>1, LinksLead
  <2>5. \A k \in DOMAIN s.schema : \A v \in s.schema[k].offers : Returns(s.schema[k], v)
    BY <2>1, <2>2, SchemasReturn
  <2> QED BY <2>1, <2>3, <2>4, <2>5 DEF ScreenFacts, s
<1>2. ScreenFacts(Reports!Sessions)
  <2> DEFINE s == Reports!Sessions
  <2>1. /\ s.schema = Reports!SessionsSchema /\ s.byRow = {} /\ s.panel = "call" /\ s.cut = TRUE
        /\ s.links = {}
        /\ s.leaves = {}
    BY DEF Reports!Sessions, Reports!SessionsLoad, Reports!SessionsView, Reports!SessionsDetail, Reports!Shows, Reports!Plain, Reports!None, Reports!++
  <2>2. HasTexts(Reports!SessionsSchema)
    <3>1. FieldHasTexts(Reports!rangeField)
      BY FieldsHaveTexts DEF Reports!rangeField, Reports!Periods
    <3>2. FieldHasTexts(Reports!strField("all", {"all", "a"}))
      BY FieldsHaveTexts
    <3> QED BY <3>1, <3>2 DEF HasTexts, Reports!SessionsSchema
  <2> HIDE DEF s
  <2>4. \A link \in s.links \cup s.leaves : link.to \in DOMAIN Reports!Pages
    BY <2>1, LinksLead
  <2>5. \A k \in DOMAIN s.schema : \A v \in s.schema[k].offers : Returns(s.schema[k], v)
    BY <2>1, <2>2, SchemasReturn
  <2> QED BY <2>1, <2>4, <2>5 DEF ScreenFacts, s
<1>3. ScreenFacts(Reports!Guard)
  <2> DEFINE s == Reports!Guard
  <2>1. /\ s.schema = Reports!GuardSchema /\ s.byRow = {} /\ s.panel = "button" /\ s.cut = FALSE
        /\ s.links = {}
        /\ s.leaves = {}
    BY DEF Reports!Guard, Reports!GuardLoad, Reports!GuardView, Reports!GuardContent, Reports!GuardPanel, Reports!Shows, Reports!Plain, Reports!None, Reports!++
  <2>2. HasTexts(Reports!GuardSchema)
    <3>1. FieldHasTexts(Reports!enumField("overview", {"overview", "audit"}))
      BY FieldsHaveTexts
    <3>2. FieldHasTexts(Reports!rangeField)
      BY FieldsHaveTexts DEF Reports!rangeField, Reports!Periods
    <3>3. FieldHasTexts(Reports!enumField("all", {"all", "pii"}))
      BY FieldsHaveTexts
    <3> QED BY <3>1, <3>2, <3>3 DEF HasTexts, Reports!GuardSchema
  <2> HIDE DEF s
  <2>4. \A link \in s.links \cup s.leaves : link.to \in DOMAIN Reports!Pages
    BY <2>1, LinksLead
  <2>5. \A k \in DOMAIN s.schema : \A v \in s.schema[k].offers : Returns(s.schema[k], v)
    BY <2>1, <2>2, SchemasReturn
  <2> QED BY <2>1, <2>4, <2>5 DEF ScreenFacts, s
<1>4. ScreenFacts(Reports!Usage)
  <2> DEFINE s == Reports!Usage
  <2>1. /\ s.schema = Reports!UsageSchema /\ s.byRow = {} /\ s.panel = "row" /\ s.cut = FALSE
        /\ s.links = {Reports!Link("traces", {"range", "model"}), Reports!Link("traces", {"range"}), Reports!Link("elsewhere", {})}
        /\ s.leaves = {}
    BY DEF Reports!Usage, Reports!UsageLoad, Reports!UsageView, Reports!UsagePanel, Reports!Shows, Reports!Plain, Reports!None, Reports!++
  <2>2. HasTexts(Reports!UsageSchema)
    <3>1. FieldHasTexts(Reports!enumField("model", {"model", "dept"}))
      BY FieldsHaveTexts
    <3> QED BY <3>1 DEF HasTexts, Reports!UsageSchema
  <2> HIDE DEF s
  <2>4. \A link \in s.links \cup s.leaves : link.to \in DOMAIN Reports!Pages
    BY <2>1, LinksLead
  <2>5. \A k \in DOMAIN s.schema : \A v \in s.schema[k].offers : Returns(s.schema[k], v)
    BY <2>1, <2>2, SchemasReturn
  <2> QED BY <2>1, <2>4, <2>5 DEF ScreenFacts, s
<1>5. ScreenFacts(Reports!Dashboard)
  <2> DEFINE s == Reports!Dashboard
  <2>1. /\ s.schema = <<>> /\ s.byRow = {} /\ s.panel = "row" /\ s.cut = FALSE
        /\ s.links = {Reports!Link("elsewhere", {"entity"})} \cup Reports!DashboardWidgets
        /\ s.leaves = {Reports!Link("usage", {})}
    BY DEF Reports!Dashboard, Reports!DashboardLoad, Reports!DashboardTimer, Reports!DashboardView, Reports!DashboardPanel, Reports!Shows, Reports!Plain, Reports!None, Reports!++
  <2>2. HasTexts(<<>>)
    BY DEF HasTexts
  <2> HIDE DEF s
  <2>4. \A link \in s.links \cup s.leaves : link.to \in DOMAIN Reports!Pages
    BY <2>1, LinksLead DEF Reports!DashboardWidgets
  <2>5. \A k \in DOMAIN s.schema : \A v \in s.schema[k].offers : Returns(s.schema[k], v)
    BY <2>1, <2>2, SchemasReturn
  <2> QED BY <2>1, <2>4, <2>5 DEF ScreenFacts, s
<1>6. ScreenFacts(Reports!Traffic)
  <2> DEFINE s == Reports!Traffic
  <2>1. /\ s.schema = <<>> /\ s.byRow = {} /\ s.panel = "row" /\ s.cut = FALSE
        /\ s.links = {}
        /\ s.leaves = {}
    BY DEF Reports!Traffic, Reports!TrafficLoad, Reports!TrafficTimer, Reports!TrafficView, Reports!TrafficPanel, Reports!Shows, Reports!Plain, Reports!None, Reports!++
  <2>2. HasTexts(<<>>)
    BY DEF HasTexts
  <2> HIDE DEF s
  <2>4. \A link \in s.links \cup s.leaves : link.to \in DOMAIN Reports!Pages
    BY <2>1, LinksLead
  <2>5. \A k \in DOMAIN s.schema : \A v \in s.schema[k].offers : Returns(s.schema[k], v)
    BY <2>1, <2>2, SchemasReturn
  <2> QED BY <2>1, <2>4, <2>5 DEF ScreenFacts, s
<1>7. ScreenFacts(Reports!Gpu)
  <2> DEFINE s == Reports!Gpu
  <2>1. /\ s.schema = <<>> /\ s.byRow = {} /\ s.panel = "call" /\ s.cut = FALSE
        /\ s.links = {}
        /\ s.leaves = {}
    BY DEF Reports!Gpu, Reports!GpuDetail, Reports!GpuTimer, Reports!GpuView, Reports!GpuPanel, Reports!Shows, Reports!Plain, Reports!None, Reports!++
  <2>2. HasTexts(<<>>)
    BY DEF HasTexts
  <2> HIDE DEF s
  <2>4. \A link \in s.links \cup s.leaves : link.to \in DOMAIN Reports!Pages
    BY <2>1, LinksLead
  <2>5. \A k \in DOMAIN s.schema : \A v \in s.schema[k].offers : Returns(s.schema[k], v)
    BY <2>1, <2>2, SchemasReturn
  <2> QED BY <2>1, <2>4, <2>5 DEF ScreenFacts, s
<1>8. ScreenFacts(Reports!MetricSources)
  <2> DEFINE s == Reports!MetricSources
  <2>1. /\ s.schema = <<>> /\ s.byRow = {} /\ s.panel = Reports!None /\ s.cut = FALSE
        /\ s.links = Reports!SourcesGaps
        /\ s.leaves = {}
    BY DEF Reports!MetricSources, Reports!SourcesLoad, Reports!SourcesView, Reports!Shows, Reports!Plain, Reports!None, Reports!++
  <2>2. HasTexts(<<>>)
    BY DEF HasTexts
  <2> HIDE DEF s
  <2>4. \A link \in s.links \cup s.leaves : link.to \in DOMAIN Reports!Pages
    BY <2>1, LinksLead DEF Reports!SourcesGaps
  <2>5. \A k \in DOMAIN s.schema : \A v \in s.schema[k].offers : Returns(s.schema[k], v)
    BY <2>1, <2>2, SchemasReturn
  <2> QED BY <2>1, <2>4, <2>5 DEF ScreenFacts, s
<1>9. ScreenFacts(Reports!Models)
  <2> DEFINE s == Reports!Models
  <2>1. /\ s.schema = <<>> /\ s.byRow = {} /\ s.panel = "row" /\ s.cut = FALSE
        /\ s.links = {Reports!Link("elsewhere", {}), Reports!Link("elsewhere", {"model"})}
        /\ s.leaves = {Reports!Link("elsewhere", {"model"})}
    BY DEF Reports!Models, Reports!ModelsLoad, Reports!ModelsView, Reports!Shows, Reports!Plain, Reports!None, Reports!++
  <2>2. HasTexts(<<>>)
    BY DEF HasTexts
  <2> HIDE DEF s
  <2>4. \A link \in s.links \cup s.leaves : link.to \in DOMAIN Reports!Pages
    BY <2>1, LinksLead
  <2>5. \A k \in DOMAIN s.schema : \A v \in s.schema[k].offers : Returns(s.schema[k], v)
    BY <2>1, <2>2, SchemasReturn
  <2> QED BY <2>1, <2>4, <2>5 DEF ScreenFacts, s
<1>10. ScreenFacts(Reports!MetricExplorer)
  <2> DEFINE s == Reports!MetricExplorer
  <2>1. /\ s.schema = <<>> /\ s.byRow = {} /\ s.panel = Reports!None /\ s.cut = FALSE
        /\ s.links = {}
        /\ s.leaves = {}
    BY DEF Reports!MetricExplorer, Reports!ExplorerLoad, Reports!ExplorerView, Reports!Shows, Reports!Plain, Reports!None, Reports!++
  <2>2. HasTexts(<<>>)
    BY DEF HasTexts
  <2> HIDE DEF s
  <2>4. \A link \in s.links \cup s.leaves : link.to \in DOMAIN Reports!Pages
    BY <2>1, LinksLead
  <2>5. \A k \in DOMAIN s.schema : \A v \in s.schema[k].offers : Returns(s.schema[k], v)
    BY <2>1, <2>2, SchemasReturn
  <2> QED BY <2>1, <2>4, <2>5 DEF ScreenFacts, s
<1>11. ScreenFacts(Reports!Elsewhere)
  <2> DEFINE s == Reports!Elsewhere
  <2>1. /\ s.schema = <<>> /\ s.byRow = {} /\ s.panel = Reports!None /\ s.cut = FALSE
        /\ s.links = {}
        /\ s.leaves = {}
    BY DEF Reports!Elsewhere, Reports!Shows, Reports!Plain, Reports!None, Reports!++
  <2>2. HasTexts(<<>>)
    BY DEF HasTexts
  <2> HIDE DEF s
  <2>4. \A link \in s.links \cup s.leaves : link.to \in DOMAIN Reports!Pages
    BY <2>1, LinksLead
  <2>5. \A k \in DOMAIN s.schema : \A v \in s.schema[k].offers : Returns(s.schema[k], v)
    BY <2>1, <2>2, SchemasReturn
  <2> QED BY <2>1, <2>4, <2>5 DEF ScreenFacts, s
<1> QED BY <1>1, <1>2, <1>3, <1>4, <1>5, <1>6, <1>7, <1>8, <1>9, <1>10, <1>11 DEF Reports!Pages

\* What was written to the URL of the choices.
LEMMA WrittenReads ==
    ASSUME NEW query, NEW schema, NEW view, NEW k \in DOMAIN schema
    PROVE  Reports!mergeSearch(query, Reports!encodeState(schema, view))[k] = Reports!serialize(schema[k], view[k])
BY DEF Reports!mergeSearch, Reports!encodeState, Reports!++

\* A choice is made, and written to the URL or typed.
LEMMA PatchKeeps ==
    ASSUME ReportInv, NEW view, NEW later \in BOOLEAN, DOMAIN view = DOMAIN page.view, Reports!patch(view, later),
           \A k \in DOMAIN Reports!Screen.schema : Returns(Reports!Screen.schema[k], view[k])
    PROVE  ReportInv'
<1> DEFINE chosen == [page EXCEPT !.view = view]  schema == Reports!Screen.schema
           query == Reports!mergeSearch(page.query, Reports!encodeState(schema, view))
           p == IF later THEN [chosen EXCEPT !.typed = TRUE] ELSE Reports!Written(chosen)
<1>0. PageType /\ DOMAIN page = PageFields
  BY DEF ReportInv, PageType
<1>1. /\ DOMAIN chosen = PageFields /\ chosen.at = page.at /\ chosen.past = page.past /\ chosen.calls = page.calls
      /\ chosen.shown = page.shown /\ chosen.error = page.error /\ chosen.overtaken = page.overtaken /\ chosen.sel = page.sel
      /\ chosen.content = page.content /\ chosen.asking = page.asking /\ chosen.strayed = page.strayed
      /\ chosen.view = view /\ chosen.query = page.query
  BY <1>0 DEF PageFields
<1>2. Reports!Written(chosen) = [chosen EXCEPT !.query = query, !.typed = FALSE, !.adrift = FALSE]
  <2> HIDE DEF chosen
  <2> QED BY <1>1 DEF Reports!Written, Reports!Screen
<1>3. page' = Reports!Loading(p)
  BY DEF Reports!patch
<1> HIDE DEF chosen, query
<1>4. /\ DOMAIN p = PageFields /\ p.at = page.at /\ p.past = page.past /\ p.calls = page.calls /\ p.shown = page.shown
      /\ p.error = page.error /\ p.overtaken = page.overtaken /\ p.sel = page.sel /\ p.content = page.content
      /\ p.asking = page.asking /\ p.strayed = page.strayed /\ p.view = view
      /\ p.typed = FALSE => p.query = query
      /\ p.typed = TRUE \/ p.typed = FALSE
  <2>1. CASE later
    BY <1>1, <2>1 DEF PageFields
  <2>2. CASE ~later
    <3>1. p = [chosen EXCEPT !.query = query, !.typed = FALSE, !.adrift = FALSE]
      BY <1>2, <2>2
    <3> HIDE DEF p
    <3> QED BY <1>1, <3>1 DEF PageFields
  <2> QED BY <2>1, <2>2
<1> HIDE DEF p
<1>5. /\ LoadingFrame(p, page') /\ ReportIsAwaited' /\ PanelIsOfItsRow'
      /\ \A c \in page'.calls \cup page'.asking : DOMAIN c = ReportCallFields
  BY <1>3, <1>4, LoadingKeeps
<1>6. Reports!Screen' = Reports!Screen
  BY <1>4, <1>5 DEF Reports!Screen, LoadingFrame
<1>7. PageType'
  BY <1>0, <1>4, <1>5, <1>6 DEF PageType, LoadingFrame
<1>8. UrlHoldsTheView'
  <2>1. \A k \in DOMAIN schema : query[k] = Reports!serialize(schema[k], view[k])
    BY WrittenReads DEF query
  <2>2. \A k \in DOMAIN schema : Reports!parse(schema[k], query[k]) = view[k]
    BY <2>1 DEF Returns
  <2>3. page'.view = view /\ (~page'.typed => page'.query = query)
    BY <1>4, <1>5 DEF LoadingFrame
  <2> QED BY <1>6, <2>2, <2>3 DEF UrlHoldsTheView
<1> QED BY <1>5, <1>7, <1>8 DEF ReportInv

\* A choice among those offered.
LEMMA ChooseKeeps ==
    ASSUME ReportInv, NEW k \in DOMAIN page.view, NEW v \in Reports!Choices(Reports!Screen)[k].offers, Reports!Choose(k, v)
    PROVE  ReportInv'
<1> DEFINE view == [page.view EXCEPT ![k] = v]  schema == Reports!Screen.schema  later == k \in Reports!Screen.debounced
<1>1. ScreenFacts(Reports!Screen)
  BY ScreensAgree DEF ReportInv, PageType, Reports!Screen
<1>2. DOMAIN view = DOMAIN page.view /\ DOMAIN page.view = DOMAIN Reports!Choices(Reports!Screen)
  BY DEF ReportInv, PageType
<1>3. DOMAIN schema \subseteq DOMAIN page.view
  BY <1>2 DEF Reports!Choices, Reports!++
<1>4. \A j \in DOMAIN schema : Returns(schema[j], page.view[j])
  BY DEF ReportInv, UrlHoldsTheView
<1>5. \A j \in DOMAIN schema : Returns(schema[j], view[j])
  <2> TAKE j \in DOMAIN schema
  <2>1. CASE j = k
    <3>1. Reports!Choices(Reports!Screen)[k] = schema[k]
      BY <2>1 DEF Reports!Choices, Reports!++
    <3>2. view[k] = v /\ v \in schema[k].offers
      BY <3>1
    <3> QED BY <1>1, <2>1, <3>2 DEF ScreenFacts
  <2>2. CASE j # k
    <3>1. view[j] = page.view[j]
      BY <1>3, <2>2
    <3> QED BY <1>4, <3>1
  <2> QED BY <2>1, <2>2
<1>6. Reports!patch(view, later)
  BY DEF Reports!Choose
<1>7. later \in BOOLEAN
  OBVIOUS
<1> HIDE DEF view, later
<1> QED BY <1>2, <1>5, <1>6, <1>7, PatchKeeps

\* A saved view sets all choices, as if read from a URL.
LEMMA ApplyViewKeeps ==
    ASSUME ReportInv, NEW query, Reports!applyView(query)
    PROVE  ReportInv'
<1> DEFINE schema == Reports!Screen.schema  view == Reports!++(Reports!decodeState(schema, query), page.view)
<1>1. DOMAIN schema \subseteq DOMAIN page.view
  BY DEF ReportInv, PageType, Reports!Choices, Reports!++
<1>2. DOMAIN view = DOMAIN page.view
  BY <1>1 DEF Reports!++, Reports!decodeState
<1>3. \A k \in DOMAIN schema : view[k] = Reports!parse(schema[k], query[k])
  BY DEF Reports!++, Reports!decodeState
<1>4. Reports!patch(view, FALSE)
  BY DEF Reports!applyView
<1> HIDE DEF view
<1>5. \A k \in DOMAIN schema : Returns(schema[k], view[k])
  BY <1>3, ParsedReturns
<1> QED BY <1>2, <1>4, <1>5, PatchKeeps

\* A row's button filters by its value, which has a text.
LEMMA FilterByRowKeeps ==
    ASSUME ReportInv, NEW k \in Reports!Screen.byRow, NEW row \in Rows, Reports!FilterByRow(k, row)
    PROVE  ReportInv'
<1> DEFINE schema == Reports!Screen.schema  view == [page.view EXCEPT ![k] = row]
<1>1. k \in DOMAIN schema /\ schema[k].free
  BY ScreensAgree DEF ReportInv, PageType, Reports!Screen, ScreenFacts
<1>2. DOMAIN view = DOMAIN page.view /\ DOMAIN schema \subseteq DOMAIN page.view
  BY DEF ReportInv, PageType, Reports!Choices, Reports!++
<1>3. \A j \in DOMAIN schema : Returns(schema[j], page.view[j])
  BY DEF ReportInv, UrlHoldsTheView
<1>4. Returns(schema[k], row)
  BY <1>1, RowsHaveNames, OfferedReturns
<1>5. \A j \in DOMAIN schema : view[j] = IF j = k THEN row ELSE page.view[j]
  BY <1>2
<1>6. Reports!patch(view, FALSE)
  BY DEF Reports!FilterByRow
<1> HIDE DEF view
<1>7. \A j \in DOMAIN schema : Returns(schema[j], view[j])
  BY <1>3, <1>4, <1>5
<1> QED BY <1>2, <1>6, <1>7, PatchKeeps

\* A step that leaves the choices and the URL as they are.
ChoicesStay ==
    /\ DOMAIN page' = PageFields /\ page'.at = page.at /\ page'.view = page.view /\ page'.period = page.period
    /\ page'.query = page.query /\ page'.typed = page.typed /\ page'.adrift = page.adrift /\ page'.past = page.past
\* What the invariant says of the URL is kept.
LEMMA ChoicesKeep ==
    ASSUME ReportInv, ChoicesStay, \A c \in page'.calls \cup page'.asking : DOMAIN c = ReportCallFields
    PROVE  PageType' /\ UrlHoldsTheView' /\ Reports!Wanted' = Reports!Wanted /\ Reports!Screen' = Reports!Screen
<1>1. Reports!Screen' = Reports!Screen
  BY DEF Reports!Screen, ChoicesStay
<1>2. Reports!Wanted' = Reports!Wanted
  BY <1>1 DEF Reports!Wanted, ChoicesStay
<1>3. PageType'
  BY <1>1 DEF PageType, ReportInv, ChoicesStay
<1>4. UrlHoldsTheView'
  BY <1>1 DEF UrlHoldsTheView, ReportInv, ChoicesStay
<1> QED BY <1>1, <1>2, <1>3, <1>4

\* The period that screens share changes.
LEMMA SetPeriodKeeps ==
    ASSUME ReportInv, NEW period, Reports!SetPeriod(period) PROVE ReportInv'
<1> DEFINE p == [page EXCEPT !.period = period]
<1>0. PageType /\ DOMAIN page = PageFields
  BY DEF ReportInv, PageType
<1>1. /\ DOMAIN p = PageFields /\ p.at = page.at /\ p.past = page.past /\ p.calls = page.calls /\ p.shown = page.shown
      /\ p.error = page.error /\ p.overtaken = page.overtaken /\ p.sel = page.sel /\ p.content = page.content
      /\ p.asking = page.asking /\ p.strayed = page.strayed /\ p.view = page.view
      /\ p.query = page.query /\ p.typed = page.typed /\ p.adrift = page.adrift
  BY <1>0 DEF PageFields
<1>2. page' = Reports!Loading(p)
  BY DEF Reports!SetPeriod
<1> HIDE DEF p
<1>3. /\ LoadingFrame(p, page') /\ ReportIsAwaited' /\ PanelIsOfItsRow'
      /\ \A c \in page'.calls \cup page'.asking : DOMAIN c = ReportCallFields
  BY <1>1, <1>2, LoadingKeeps
<1>4. Reports!Screen' = Reports!Screen
  BY <1>1, <1>3 DEF Reports!Screen, LoadingFrame
<1>5. PageType'
  BY <1>0, <1>1, <1>3, <1>4 DEF PageType, LoadingFrame
<1>6. UrlHoldsTheView'
  BY <1>1, <1>3, <1>4 DEF UrlHoldsTheView, ReportInv, LoadingFrame
<1> QED BY <1>3, <1>5, <1>6 DEF ReportInv

\* The text that was typed goes to the URL.
LEMMA WriteUrlKeeps ==
    ASSUME ReportInv, Reports!WriteUrl PROVE ReportInv'
<1> DEFINE schema == Reports!Screen.schema  query == Reports!mergeSearch(page.query, Reports!encodeState(schema, page.view))
<1>0. PageType /\ DOMAIN page = PageFields
  BY DEF ReportInv, PageType
<1>1. /\ DOMAIN page' = PageFields /\ page'.at = page.at /\ page'.past = page.past /\ page'.calls = page.calls /\ page'.shown = page.shown
      /\ page'.error = page.error /\ page'.overtaken = page.overtaken /\ page'.sel = page.sel /\ page'.content = page.content
      /\ page'.asking = page.asking /\ page'.strayed = page.strayed /\ page'.view = page.view /\ page'.period = page.period
      /\ page'.query = query
  <2>1. page' = [page EXCEPT !.query = query, !.typed = FALSE, !.adrift = FALSE]
    BY DEF Reports!WriteUrl, Reports!Written, Reports!Screen
  <2> HIDE DEF query
  <2> QED BY <1>0, <2>1 DEF PageFields
<1> HIDE DEF query
<1>2. Reports!Screen' = Reports!Screen
  BY <1>1 DEF Reports!Screen
<1>3. Reports!Wanted' = Reports!Wanted
  BY <1>1, <1>2 DEF Reports!Wanted
<1>4. PageType'
  BY <1>0, <1>1, <1>2 DEF PageType
<1>5. UrlHoldsTheView'
  <2>1. \A k \in DOMAIN schema : Returns(schema[k], page.view[k])
    BY DEF ReportInv, UrlHoldsTheView
  <2>2. \A k \in DOMAIN schema : query[k] = Reports!serialize(schema[k], page.view[k])
    BY WrittenReads DEF query
  <2>3. \A k \in DOMAIN schema : Reports!parse(schema[k], query[k]) = page.view[k]
    BY <2>1, <2>2 DEF Returns
  <2> QED BY <1>1, <1>2, <2>1, <2>3 DEF UrlHoldsTheView
<1>6. ReportIsAwaited'
  BY <1>1, <1>3 DEF ReportInv, ReportIsAwaited, Awaited
<1>7. PanelIsOfItsRow'
  BY <1>1, <1>2 DEF ReportInv, PanelIsOfItsRow
<1> QED BY <1>4, <1>5, <1>6, <1>7 DEF ReportInv

\* A way to another screen mounts it; a way to this one only leaves its query.
LEMMA NavigateKeeps ==
    ASSUME ReportInv, NEW to \in DOMAIN Reports!Pages, NEW params, Reports!navigate(to, params) PROVE ReportInv'
<1> DEFINE query == Reports!pathForPage(params)  moved == to # page.at \/ query # page.query
           past == IF moved THEN <<[at |-> page.at, query |-> page.query]>> ELSE page.past
<1>0. PageType /\ DOMAIN page = PageFields
  BY DEF ReportInv, PageType
<1>1. past # <<>> => Head(past).at \in DOMAIN Reports!Pages
  <2>1. Head(<<[at |-> page.at, query |-> page.query]>>).at = page.at
    OBVIOUS
  <2> HIDE DEF moved
  <2> QED BY <1>0, <2>1 DEF PageType
<1>2. page' = IF to # page.at THEN Reports!Mounted(to, query, past, page.period, page.moves + 1)
              ELSE [page EXCEPT !.query = query, !.past = past, !.moves = @ + 1, !.adrift = @ \/ moved]
  BY Zenon DEF Reports!navigate
<1> HIDE DEF past, query
<1>3. CASE to # page.at
  <2>1. page' = Reports!Mounted(to, query, past, page.period, page.moves + 1)
    BY <1>2, <1>3
  <2>2. FreshOf(page')
    BY <1>1, <2>1, MountedIsFresh
  <2> QED BY <2>2, FreshAgain DEF Fresh
<1>4. CASE to = page.at
  <2>0. page' = [page EXCEPT !.query = query, !.past = past, !.moves = @ + 1, !.adrift = @ \/ moved]
    BY <1>2, <1>4
  <2>1. /\ DOMAIN page' = PageFields /\ page'.at = page.at /\ page'.calls = page.calls /\ page'.shown = page.shown
        /\ page'.error = page.error /\ page'.overtaken = page.overtaken /\ page'.sel = page.sel /\ page'.content = page.content
        /\ page'.asking = page.asking /\ page'.strayed = page.strayed /\ page'.view = page.view /\ page'.period = page.period
        /\ page'.typed = page.typed /\ page'.query = query /\ page'.past = past
    <3> HIDE DEF moved
    <3> QED BY <1>0, <2>0 DEF PageFields
  <2>2. ~page'.adrift => ~page.adrift /\ query = page.query
    <3>1. page'.adrift = (page.adrift \/ moved)
      <4> HIDE DEF moved
      <4> QED BY <1>0, <2>0 DEF PageFields
    <3> QED BY <3>1
  <2>3. Reports!Screen' = Reports!Screen
    BY <2>1 DEF Reports!Screen
  <2>4. Reports!Wanted' = Reports!Wanted
    BY <2>1, <2>3 DEF Reports!Wanted
  <2>5. PageType'
    BY <1>0, <1>1, <2>1, <2>3 DEF PageType
  <2>6. UrlHoldsTheView'
    BY <2>1, <2>2, <2>3 DEF UrlHoldsTheView, ReportInv
  <2>7. ReportIsAwaited'
    BY <2>1, <2>4 DEF ReportInv, ReportIsAwaited, Awaited
  <2>8. PanelIsOfItsRow'
    BY <2>1, <2>3 DEF ReportInv, PanelIsOfItsRow
  <2> QED BY <2>5, <2>6, <2>7, <2>8 DEF ReportInv
<1> QED BY <1>3, <1>4

\* The browser's way back mounts the screen it left, or restores the choices of this one.
LEMMA BackKeeps ==
    ASSUME ReportInv, Reports!Back PROVE ReportInv'
<1> DEFINE to == Head(page.past)  schema == Reports!Screen.schema  view == Reports!++(Reports!decodeState(schema, to.query), page.view)
           p == [page EXCEPT !.query = to.query, !.past = <<>>, !.adrift = FALSE, !.view = view]
<1>0. PageType /\ DOMAIN page = PageFields /\ page.past # <<>> /\ to.at \in DOMAIN Reports!Pages
  BY DEF ReportInv, PageType, Reports!Back
<1>1. page' = IF to.at # page.at THEN Reports!Mounted(to.at, to.query, <<>>, page.period, page.moves) ELSE Reports!Loading(p)
  BY Zenon DEF Reports!Back
<1>2. CASE to.at # page.at
  <2>1. page' = Reports!Mounted(to.at, to.query, <<>>, page.period, page.moves)
    BY <1>1, <1>2
  <2> HIDE DEF to
  <2>2. FreshOf(page')
    BY <1>0, <2>1, MountedIsFresh
  <2> QED BY <2>2, FreshAgain DEF Fresh
<1>3. CASE to.at = page.at
  <2>1. page' = Reports!Loading(p)
    BY <1>1, <1>3
  <2>2. DOMAIN schema \subseteq DOMAIN page.view
    BY DEF ReportInv, PageType, Reports!Choices, Reports!++
  <2>3. DOMAIN view = DOMAIN page.view
    BY <2>2 DEF Reports!++, Reports!decodeState
  <2>4. \A k \in DOMAIN schema : view[k] = Reports!parse(schema[k], to.query[k])
    BY DEF Reports!++, Reports!decodeState
  <2> HIDE DEF view, to
  <2>5. /\ DOMAIN p = PageFields /\ p.at = page.at /\ p.past = <<>> /\ p.calls = page.calls /\ p.shown = page.shown
        /\ p.error = page.error /\ p.overtaken = page.overtaken /\ p.sel = page.sel /\ p.content = page.content
        /\ p.asking = page.asking /\ p.strayed = page.strayed /\ p.view = view /\ p.query = to.query
    BY <1>0 DEF PageFields
  <2> HIDE DEF p
  <2>6. /\ LoadingFrame(p, page') /\ ReportIsAwaited' /\ PanelIsOfItsRow'
        /\ \A c \in page'.calls \cup page'.asking : DOMAIN c = ReportCallFields
    BY <2>1, <2>5, LoadingKeeps
  <2>7. Reports!Screen' = Reports!Screen
    BY <2>5, <2>6 DEF Reports!Screen, LoadingFrame
  <2>8. PageType'
    BY <1>0, <2>3, <2>5, <2>6, <2>7 DEF PageType, LoadingFrame
  <2>9. UrlHoldsTheView'
    <3>1. \A k \in DOMAIN schema : Returns(schema[k], view[k])
      BY <2>4, ParsedReturns
    <3>2. page'.view = view /\ page'.query = to.query
      BY <2>5, <2>6 DEF LoadingFrame
    <3> QED BY <2>4, <2>7, <3>1, <3>2 DEF UrlHoldsTheView
  <2> QED BY <2>6, <2>8, <2>9 DEF ReportInv
<1> QED BY <1>2, <1>3

\* A link leads to a screen.
LEMMA FollowKeeps ==
    ASSUME ReportInv, NEW link \in Reports!Screen.links \cup Reports!Screen.leaves, NEW row, Reports!Follow(link, row) PROVE ReportInv'
<1>1. link.to \in DOMAIN Reports!Pages
  BY ScreensAgree DEF ReportInv, PageType, Reports!Screen, ScreenFacts
<1>2. Reports!navigate(link.to, Reports!Params(link, row))
  BY DEF Reports!Follow
<1> QED BY <1>1, <1>2, NavigateKeeps

\* The screen's own entry of the menu.
LEMMA ClickOwnKeeps ==
    ASSUME ReportInv, Reports!ClickOwn PROVE ReportInv'
<1>1. Reports!navigate(page.at, <<>>) /\ page.at \in DOMAIN Reports!Pages
  BY DEF Reports!ClickOwn, ReportInv, PageType
<1> QED BY <1>1, NavigateKeeps

\* A load of the button or the timer asks what is chosen.
LEMMA ReloadKeeps ==
    ASSUME ReportInv, Reports!Reload PROVE ReportInv'
<1> DEFINE new == Reports!Call(page.sent + 1, Reports!Wanted, FALSE)  waits == Reports!Screen.waits
<1>0. PageType /\ DOMAIN page = PageFields
  BY DEF ReportInv, PageType
<1>1. /\ ChoicesStay /\ page'.calls = page.calls \cup {new} /\ page'.shown = page.shown
      /\ page'.error = page.error /\ page'.overtaken = page.overtaken /\ page'.sel = page.sel
      /\ page'.content = page.content /\ page'.asking = page.asking /\ page'.strayed = page.strayed
  <2>1. page' = [page EXCEPT !.sent = @ + 1, !.loading = @ \/ waits, !.calls = @ \cup {new}]
    BY DEF Reports!Reload
  <2> HIDE DEF new, waits
  <2> QED BY <1>0, <2>1 DEF ChoicesStay, PageFields
<1>2. DOMAIN new = ReportCallFields /\ new.asks = Reports!Wanted /\ new.signal = FALSE /\ new.live = TRUE
  BY DEF Reports!Call, ReportCallFields
<1> HIDE DEF new
<1>3. \A c \in page'.calls \cup page'.asking : DOMAIN c = ReportCallFields
  BY <1>0, <1>1, <1>2 DEF PageType
<1>4. PageType' /\ UrlHoldsTheView' /\ Reports!Wanted' = Reports!Wanted /\ Reports!Screen' = Reports!Screen
  BY <1>1, <1>3, ChoicesKeep
<1>5. ReportIsAwaited'
  BY <1>1, <1>2, <1>4 DEF ReportInv, ReportIsAwaited, Awaited
<1>6. PanelIsOfItsRow'
  BY <1>1, <1>4 DEF ReportInv, PanelIsOfItsRow
<1> QED BY <1>4, <1>5, <1>6 DEF ReportInv

\* An answer shows the report it brings, and a call cut off shows nothing.
LEMMA ReportAnswerKeeps ==
    ASSUME ReportInv, NEW c \in page.calls, NEW ok \in BOOLEAN, Reports!Answer(c, ok) PROVE ReportInv'
<1>0. PageType /\ DOMAIN page = PageFields
  BY DEF ReportInv, PageType
<1>1. /\ ChoicesStay /\ page'.calls = page.calls \ {c} /\ page'.sel = page.sel
      /\ page'.content = page.content /\ page'.asking = page.asking /\ page'.strayed = page.strayed
      /\ page'.shown = IF c.live /\ ok THEN {c.asks} ELSE page.shown
      /\ page'.error = IF c.live THEN ~ok ELSE page.error \/ (~ok /\ Reports!CutJustNow(c))
      /\ page'.overtaken = IF c.live /\ ok THEN ~c.signal /\ c.asks # Reports!Wanted ELSE page.overtaken
  <2> DEFINE shown == IF c.live /\ ok THEN {c.asks} ELSE page.shown
             error == IF c.live THEN ~ok ELSE page.error \/ (~ok /\ Reports!CutJustNow(c))
             overtaken == IF c.live /\ ok THEN ~c.signal /\ c.asks # Reports!Wanted ELSE page.overtaken
  <2>1. page' = [page EXCEPT !.calls = @ \ {c}, !.loading = FALSE, !.shown = shown, !.error = error, !.overtaken = overtaken]
    BY DEF Reports!Answer
  <2> HIDE DEF shown, error, overtaken
  <2>2. /\ ChoicesStay /\ page'.calls = page.calls \ {c} /\ page'.sel = page.sel
        /\ page'.content = page.content /\ page'.asking = page.asking /\ page'.strayed = page.strayed
        /\ page'.shown = shown /\ page'.error = error /\ page'.overtaken = overtaken
    BY <1>0, <2>1 DEF ChoicesStay, PageFields
  <2> QED BY <2>2 DEF shown, error, overtaken
<1>2. \A b \in page'.calls \cup page'.asking : DOMAIN b = ReportCallFields
  BY <1>0, <1>1 DEF PageType
<1>3. PageType' /\ UrlHoldsTheView' /\ Reports!Wanted' = Reports!Wanted /\ Reports!Screen' = Reports!Screen
  BY <1>1, <1>2, ChoicesKeep
<1>4. /\ \A b \in page.calls : b.live /\ b.signal => b.asks = Reports!Wanted
      /\ ~page.error /\ (~page.overtaken \/ page.shown = {}) => page.shown = {Reports!Wanted} \/ Awaited
  BY DEF ReportInv, ReportIsAwaited
<1>5. ReportIsAwaited'
  <2>1. \A b \in page'.calls : b.live /\ b.signal => b.asks = Reports!Wanted'
    BY <1>1, <1>3, <1>4
  <2>2. CASE c.live /\ ok
    <3>1. page'.shown = {c.asks} /\ (~page'.overtaken => c.asks = Reports!Wanted)
      BY <1>1, <1>4, <2>2
    <3>2. page'.shown # {}
      BY <3>1
    <3> QED BY <1>3, <2>1, <3>1, <3>2 DEF ReportIsAwaited
  <2>3. CASE c.live /\ ~ok
    <3>1. page'.error
      BY <1>1, <2>3
    <3> QED BY <2>1, <3>1 DEF ReportIsAwaited
  <2>4. CASE ~c.live
    <3>1. page'.shown = page.shown /\ (page.error => page'.error) /\ page'.overtaken = page.overtaken
      BY <1>1, <2>4
    <3>2. Awaited => Awaited'
      BY <1>1, <1>3, <2>4 DEF Awaited
    <3> QED BY <1>3, <1>4, <2>1, <3>1, <3>2 DEF ReportIsAwaited
  <2> QED BY <2>2, <2>3, <2>4
<1>6. PanelIsOfItsRow'
  BY <1>1, <1>3 DEF ReportInv, PanelIsOfItsRow
<1> QED BY <1>3, <1>5, <1>6 DEF ReportInv

\* A step of the panel leaves the report to itself.
ReportStays ==
    ChoicesStay /\ page'.calls = page.calls /\ page'.shown = page.shown /\ page'.error = page.error /\ page'.overtaken = page.overtaken
\* Such a step keeps the invariant if it keeps the part of the panel.
LEMMA PanelStepKeeps ==
    ASSUME ReportInv, ReportStays, \A c \in page'.asking : DOMAIN c = ReportCallFields, PanelIsOfItsRow'
    PROVE  ReportInv'
<1>1. \A c \in page'.calls \cup page'.asking : DOMAIN c = ReportCallFields
  BY DEF ReportInv, PageType, ReportStays
<1>2. PageType' /\ UrlHoldsTheView' /\ Reports!Wanted' = Reports!Wanted
  BY <1>1, ChoicesKeep DEF ReportStays
<1>3. ReportIsAwaited'
  BY <1>2 DEF ReportInv, ReportIsAwaited, Awaited, ReportStays
<1> QED BY <1>2, <1>3 DEF ReportInv

\* A panel opens on a row and asks for it.
LEMMA OpenKeeps ==
    ASSUME ReportInv, NEW row, Reports!Open(row) PROVE ReportInv'
<1> DEFINE new == Reports!Call(page.sent + 1, row, Reports!Screen.cut)
<1>0. PageType /\ DOMAIN page = PageFields /\ page.sel = Reports!None
  BY DEF ReportInv, PageType, Reports!Open
<1>1. /\ ReportStays /\ page'.strayed = page.strayed /\ page'.sel = row
      /\ \/ page'.asking = page.asking /\ page'.content \in {row, page.content}
         \/ page'.asking = page.asking \cup {new} /\ page'.content = Reports!None
  <2>1. CASE Reports!Screen.panel = "row"
    <3>1. page' = [page EXCEPT !.sel = row, !.content = row]
      BY <2>1 DEF Reports!Open
    <3> QED BY <1>0, <3>1 DEF ReportStays, ChoicesStay, PageFields
  <2>2. CASE Reports!Screen.panel = "button"
    <3>1. page' = [page EXCEPT !.sel = row]
      BY <2>2 DEF Reports!Open
    <3> QED BY <1>0, <3>1 DEF ReportStays, ChoicesStay, PageFields
  <2>3. CASE Reports!Screen.panel \notin {"row", "button"}
    <3>1. page' = [page EXCEPT !.sel = row, !.content = Reports!None, !.sent = @ + 1, !.asking = @ \cup {new}]
      BY <2>3 DEF Reports!Open
    <3> HIDE DEF new
    <3> QED BY <1>0, <3>1 DEF ReportStays, ChoicesStay, PageFields
  <2> QED BY <2>1, <2>2, <2>3
<1>2. DOMAIN new = ReportCallFields /\ new.asks = row /\ new.signal = Reports!Screen.cut
  BY DEF Reports!Call, ReportCallFields
<1> HIDE DEF new
<1>3. \A c \in page'.asking : DOMAIN c = ReportCallFields
  BY <1>0, <1>1, <1>2 DEF PageType
<1>4. Reports!Screen' = Reports!Screen
  BY <1>1 DEF Reports!Screen, ReportStays, ChoicesStay
<1>5. PanelIsOfItsRow'
  <2>1. \A c \in page'.asking : c.signal = Reports!Screen.cut
    BY <1>1, <1>2 DEF ReportInv, PanelIsOfItsRow
  <2>2. ASSUME ~page.strayed
        PROVE  /\ page'.content \in {Reports!None, page'.sel}
               /\ \A c \in page'.asking : c.live => c.asks \in {Reports!None, page'.sel}
    BY <1>0, <1>1, <1>2, <2>2 DEF ReportInv, PanelIsOfItsRow
  <2> QED BY <1>1, <1>4, <2>1, <2>2 DEF PanelIsOfItsRow
<1> QED BY <1>1, <1>3, <1>5, PanelStepKeeps

\* The button of a panel asks for its row, and nothing cuts that call off.
LEMMA AskContentKeeps ==
    ASSUME ReportInv, Reports!AskContent PROVE ReportInv'
<1> DEFINE new == Reports!Call(page.sent + 1, page.sel, FALSE)
<1>0. PageType /\ DOMAIN page = PageFields
  BY DEF ReportInv, PageType
<1>1. ReportStays /\ page'.strayed = page.strayed /\ page'.sel = page.sel /\ page'.asking = {new} /\ page'.content = page.content
  <2>1. page' = [page EXCEPT !.sent = @ + 1, !.asking = {new}]
    BY DEF Reports!AskContent
  <2> HIDE DEF new
  <2> QED BY <1>0, <2>1 DEF ReportStays, ChoicesStay, PageFields
<1>2. DOMAIN new = ReportCallFields /\ new.asks = page.sel /\ new.signal = FALSE
  BY DEF Reports!Call, ReportCallFields
<1> HIDE DEF new
<1>3. Reports!Screen' = Reports!Screen
  BY <1>1 DEF Reports!Screen, ReportStays, ChoicesStay
<1>4. Reports!Screen.cut = FALSE
  BY ScreensAgree DEF ReportInv, PageType, Reports!Screen, ScreenFacts, Reports!AskContent
<1>5. PanelIsOfItsRow'
  BY <1>1, <1>2, <1>3, <1>4 DEF ReportInv, PanelIsOfItsRow
<1>6. \A c \in page'.asking : DOMAIN c = ReportCallFields
  BY <1>1, <1>2
<1> QED BY <1>1, <1>5, <1>6, PanelStepKeeps

\* A panel that closes cuts its calls off, or is known to have left one under way.
LEMMA CloseKeeps ==
    ASSUME ReportInv, Reports!Close PROVE ReportInv'
<1> DEFINE strayed == ~Reports!Screen.cut /\ page.asking # {}
<1>0. PageType /\ DOMAIN page = PageFields /\ \A c \in page.asking : DOMAIN c = ReportCallFields /\ c.signal = Reports!Screen.cut
  BY DEF ReportInv, PageType, PanelIsOfItsRow
<1>1. /\ ReportStays /\ page'.strayed = strayed /\ page'.sel = Reports!None /\ page'.content = Reports!None
      /\ page'.asking = Reports!Aborted(page.asking)
  <2>1. page' = [page EXCEPT !.sel = Reports!None, !.content = Reports!None, !.asking = Reports!Aborted(@), !.strayed = strayed]
    BY DEF Reports!Close
  <2> HIDE DEF strayed
  <2> QED BY <1>0, <2>1 DEF ReportStays, ChoicesStay, PageFields
<1>2. \A c \in page'.asking : /\ DOMAIN c = ReportCallFields /\ ~(c.live /\ c.signal) /\ (c.live => c \in page.asking)
                              /\ \E b \in page.asking : c.signal = b.signal
  BY <1>0, <1>1, AbortedCalls
<1>3. Reports!Screen' = Reports!Screen
  BY <1>1 DEF Reports!Screen, ReportStays, ChoicesStay
<1>4. \A c \in page'.asking : c.signal = Reports!Screen.cut
  BY <1>0, <1>2
<1>5. ~page'.strayed => \A c \in page'.asking : ~c.live
  BY <1>0, <1>1, <1>2
<1>6. PanelIsOfItsRow'
  BY <1>1, <1>3, <1>4, <1>5 DEF PanelIsOfItsRow
<1> QED BY <1>1, <1>2, <1>6, PanelStepKeeps

\* A call that was not cut off brings the content of its row, and one that was brings nothing.
LEMMA AnswerPanelKeeps ==
    ASSUME ReportInv, NEW c \in page.asking, NEW ok \in BOOLEAN, Reports!AnswerPanel(c, ok) PROVE ReportInv'
<1>0. PageType /\ DOMAIN page = PageFields
  BY DEF ReportInv, PageType
<1>1. /\ ReportStays /\ page'.strayed = page.strayed /\ page'.sel = page.sel /\ page'.asking = page.asking \ {c}
      /\ page'.content = page.content \/ page'.content = Reports!None \/ (c.live /\ page'.content = c.asks)
  <2> DEFINE content == IF c.live THEN (IF ok THEN c.asks ELSE Reports!None) ELSE IF Reports!Screen.quiet THEN page.content ELSE Reports!None
  <2>1. page' = [page EXCEPT !.asking = @ \ {c}, !.content = content]
    BY DEF Reports!AnswerPanel
  <2>2. content = page.content \/ content = Reports!None \/ (c.live /\ content = c.asks)
    OBVIOUS
  <2> HIDE DEF content
  <2> QED BY <1>0, <2>1, <2>2 DEF ReportStays, ChoicesStay, PageFields
<1>2. Reports!Screen' = Reports!Screen
  BY <1>1 DEF Reports!Screen, ReportStays, ChoicesStay
<1>3. PanelIsOfItsRow'
  BY <1>1, <1>2 DEF ReportInv, PanelIsOfItsRow
<1>4. \A b \in page'.asking : DOMAIN b = ReportCallFields
  BY <1>0, <1>1 DEF PageType
<1> QED BY <1>1, <1>3, <1>4, PanelStepKeeps

\* Every step of the client keeps the invariant of the reports.
LEMMA ReportKeeps == ReportInv /\ [Next]_vars => ReportInv'
<1> SUFFICES ASSUME ReportInv, [Next]_vars PROVE ReportInv'
  OBVIOUS
<1>1. CASE page' = page
  <2>1. Reports!Screen' = Reports!Screen
    BY <1>1 DEF Reports!Screen
  <2>2. Reports!Wanted' = Reports!Wanted
    BY <1>1, <2>1 DEF Reports!Wanted
  <2> QED BY <1>1, <2>1, <2>2 DEF ReportInv, PageType, UrlHoldsTheView, ReportIsAwaited, Awaited, PanelIsOfItsRow
<1>2. CASE page' # page
  <2>1. Reports!ReportNext
    BY <1>2 DEF Next, vars
  <2> QED BY <2>1, ChooseKeeps, ApplyViewKeeps, FilterByRowKeeps, SetPeriodKeeps, FollowKeeps, WriteUrlKeeps, ClickOwnKeeps, BackKeeps,
             ReloadKeeps, ReportAnswerKeeps, OpenKeeps, AskContentKeeps, CloseKeeps, AnswerPanelKeeps DEF Reports!ReportNext
<1> QED BY <1>1, <1>2

(* Once nothing is under way and nothing failed, the report on the screen  *)
(* is the one of the choices on it, unless an answer of a button's or      *)
(* timer's load overtook a change of them; the URL says what the choices   *)
(* are, unless a text is being typed or the screen's own entry was         *)
(* clicked; a blank screen has a call under way; and a panel shows its own *)
(* row, unless one was closed with a call under way that nothing cuts off  *)
(* (the loads and their cleanups in web/src/pages, urlState.ts).           *)
THEOREM ReportsAreOfTheChoices == Spec => []ReportIsOfTheChoices
<1>1. ReportInv => ReportIsOfTheChoices
  <2> SUFFICES ASSUME ReportInv PROVE Reports!ReportIsOfTheChoices
    BY DEF ReportIsOfTheChoices
  <2>1. ~page.error /\ (~page.overtaken \/ page.shown = {}) => page.shown = {Reports!Wanted} \/ page.calls # {}
    BY DEF ReportInv, ReportIsAwaited, Awaited
  <2>2. ~page.typed /\ ~page.adrift =>
            \A k \in DOMAIN Reports!Screen.schema : Reports!decodeState(Reports!Screen.schema, page.query)[k] = page.view[k]
    BY DEF ReportInv, UrlHoldsTheView, Reports!decodeState
  <2>3. page.content \in {Reports!None, page.sel} \/ page.strayed
    BY DEF ReportInv, PanelIsOfItsRow
  <2>4. Reports!OnScreen = {} => page.shown = {} /\ ~page.error
    BY DEF Reports!OnScreen
  <2>5. Reports!OnScreen = {} => page.calls # {}
    BY <2>1, <2>4
  <2> QED BY <2>1, <2>2, <2>3, <2>5 DEF Reports!ReportIsOfTheChoices
<1> QED BY <1>1, ReportInit, ReportKeeps, PTL DEF Spec
=============================================================================
