----------------------------- MODULE MCWebClient -----------------------------
(***************************************************************************)
(* The screens of the web client; the one that is live is on the screen    *)
(* from beginning to end, the others are at rest.                          *)
(***************************************************************************)
EXTENDS WriteScreens, Sequences
LOCAL INSTANCE TLC

CONSTANTS Rows, MaxCalls, MaxMoves,    \* of the screens with a report
          Texts, MaxAsked,             \* of the cards with one value
          Picks, Fields, MaxRuns,      \* of the wizard
          Deps, MaxLoads,              \* of those that poll
          MAX_RETRY,                   \* of a read
          MaxRequests, Full,           \* of the playground
          Healths, MaxHops, MaxActions,  \* of the panel of an object
          MAX_STACK, DEFAULT_DURATION, MaxToasts \* of the notices

VARIABLES live, page, card, stored, wizard, poll, http, chat, panel, ontology, toasts

Reports == INSTANCE ReportScreens
Cards == INSTANCE DraftScreens
Wizard == INSTANCE EndpointWizard
Polls == INSTANCE Polling
Reads == INSTANCE Transport
Chat == INSTANCE Playground
Notices == INSTANCE Toasts
Panel == INSTANCE ObjectPanel

ASSUME RowsHaveNames == Reports!Missing \notin Rows
ASSUME ThereIsAPick == Picks # {}
ASSUME RetriesAreANumber == MAX_RETRY \in Nat
ASSUME NoticesAreNumbers == MAX_STACK \in Nat /\ DEFAULT_DURATION \in Nat

vars == <<live, page, screen, server, card, stored, wizard, poll, http, chat, panel, ontology, toasts>>

FirstPick == CHOOSE pick \in Picks : TRUE
FirstStatus == CHOOSE status \in Healths : TRUE

Init ==
    /\ live \in {"reports", "writes", "drafts", "wizard", "polls", "reads", "chat", "panel", "trails", "toasts"}
    /\ page \in IF live = "reports" THEN {Reports!Started(at) : at \in DOMAIN Reports!Pages} ELSE {Reports!Started("elsewhere")}
    /\ screen \in IF live = "writes" THEN {Visit(on, caps) : on \in Pages, caps \in {"manage", "observe"}}
                  ELSE {Visit(Keys, "manage")}
    /\ server \in IF live = "writes" THEN [Things -> Levels] ELSE {[t \in Things |-> "absent"]}
    /\ card \in IF live = "drafts" THEN {Cards!Visit(of) : of \in Cards!Cards} ELSE {Cards!Visit(Cards!LocalModelCard)}
    /\ stored = Cards!Stored
    /\ wizard = Wizard!Closed(FirstPick)
    /\ poll \in IF live = "polls" THEN {Polls!Mounted(on, deps, sel) : on \in Polls!Screens, deps \in Deps, sel \in Rows \cup {"none"}}
                ELSE {Polls!Mounted(Polls!Topology, "1h", "none")}
    /\ http = Reads!getJSON
    /\ chat \in IF live = "chat" THEN {Chat!Arrived(reduced) : reduced \in BOOLEAN} ELSE {Chat!Arrived(FALSE)}
    /\ panel \in IF live = "panel" THEN {Panel!Arrived(verb, caps, url) : verb \in {"restartModel", "resolve"},
                                              caps \in {{"models.write", "incident.write"}, {}}, url \in {url \in Panel!Urls : Len(Panel!Trail(url)) <= 1}}
                 ELSE IF live = "trails" THEN {Panel!Arrived("resolve", {}, url) : url \in Panel!Urls}
                 ELSE {Panel!Arrived("resolve", {}, Panel!Closed)}
    /\ toasts = Notices!Arrived
    /\ ontology = Panel!Founded([id \in Things |-> FirstStatus])

\* The panel twice: one object after the other and actions on them, and trails of objects and the palette without actions.
ActOnObjects == Panel!PanelNext /\ Len(panel'.stack) <= 1 /\ Len(Panel!Trail(panel'.address)) <= 1 /\ ~panel'.astray
WalkTrails == Panel!PanelNext /\ ontology'.actions = 0

Next ==
    \/ live = "reports" /\ Reports!ReportNext /\ UNCHANGED <<live, screen, server, card, stored, wizard, poll, http, chat, panel, ontology, toasts>>
    \/ live = "writes" /\ WriteNext /\ UNCHANGED <<live, page, card, stored, wizard, poll, http, chat, panel, ontology, toasts>>
    \/ live = "drafts" /\ Cards!DraftNext /\ UNCHANGED <<live, page, screen, server, wizard, poll, http, chat, panel, ontology, toasts>>
    \/ live = "wizard" /\ Wizard!WizardNext /\ UNCHANGED <<live, page, screen, server, card, stored, poll, http, chat, panel, ontology, toasts>>
    \/ live = "polls" /\ Polls!PollNext /\ UNCHANGED <<live, page, screen, server, card, stored, wizard, http, chat, panel, ontology, toasts>>
    \/ live = "reads" /\ Reads!TransportNext /\ UNCHANGED <<live, page, screen, server, card, stored, wizard, poll, chat, panel, ontology, toasts>>
    \/ live = "chat" /\ Chat!ChatNext /\ UNCHANGED <<live, page, screen, server, card, stored, wizard, poll, http, panel, ontology, toasts>>
    \/ live = "panel" /\ ActOnObjects /\ UNCHANGED <<live, page, screen, server, card, stored, wizard, poll, http, chat, toasts>>
    \/ live = "trails" /\ WalkTrails /\ UNCHANGED <<live, page, screen, server, card, stored, wizard, poll, http, chat, toasts>>
    \/ live = "toasts" /\ Notices!ToastNext /\ UNCHANGED <<live, page, screen, server, card, stored, wizard, poll, http, chat, panel, ontology>>

Spec == Init /\ [][Next]_vars

\* Nothing tells the things apart.
ThingsAreAlike == Permutations(Things)

\* What the other modules say of their screens.
ReportIsOfTheChoices == Reports!ReportIsOfTheChoices
CleanMeansSaved == Cards!CleanMeansSaved
CreatedWasDryRun == Wizard!CreatedWasDryRun
DataIsCurrent == Polls!DataIsCurrent
AbortIsQuiet == Reads!AbortIsQuiet
AnswersFindTheirQuestion == Chat!AnswersFindTheirQuestion
ActionsAreAsShown == Panel!ActionsAreAsShown
PanelIsOfTheUrl == Panel!PanelIsOfTheUrl
ToastsKeepTheirTime == Notices!ToastsKeepTheirTime

\* What the comments of the client say, and the screens do not do.
NoticesHaveTheirTime == Notices!NoticesHaveTheirTime
ClientErrorIsFinal == Reads!ClientErrorIsFinal
=============================================================================
