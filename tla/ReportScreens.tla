---------------------------- MODULE ReportScreens ----------------------------
(***************************************************************************)
(* A visit to the screens that show a report: what is chosen is asked of   *)
(* the server, again when the choice changes, by a button and by a timer;  *)
(* the choices go to the URL, which the browser's way back restores; a row *)
(* opens a panel that may ask for more; links lead on with parameters.     *)
(* Answers arrive in any order.  A call that carries the signal of its     *)
(* effect is cut off when the choice changes, the panel closes or the      *)
(* screen is left; the calls of buttons and timers carry none.             *)
(***************************************************************************)
EXTENDS ReportPages, Sequences, FiniteSets

CONSTANTS Rows,       \* the rows a panel opens on
          MaxCalls,   \* calls on one screen at most
          MaxMoves    \* times a screen is left at most

VARIABLE page

Screen == Pages[page.at]
Choices(screen) == screen.schema ++ screen.own
\* What a load sends, and so what its answer is about.
Asks(screen, view, period) ==
    [k \in screen.asks \cup (IF screen.period THEN {"period"} ELSE {}) |-> IF k = "period" THEN period ELSE view[k]]
Wanted == Asks(Screen, page.view, page.period)

Call(n, asks, signal) == [n |-> n, asks |-> asks, signal |-> signal, live |-> TRUE]
\* What an effect's cleanup does to the calls that carry its signal.
Aborted(calls) == {IF c.signal THEN [c EXCEPT !.live = FALSE] ELSE c : c \in calls}

(* A screen as it mounts: its choices read from the URL, its first load    *)
(* sent.  overtaken: an answer of a button's or timer's load came after    *)
(* the choices had changed; adrift: the screen's own entry of the menu was *)
(* clicked, which empties the query and leaves the choices; strayed: a     *)
(* panel was closed with a call under way that nothing cuts off.  A call   *)
(* that was cut off ends at once, or late if it waited for another try.    *)
Mounted(at, query, past, period, moves) ==
    LET screen == Pages[at]
        view == decodeState(screen.schema, query) ++ [k \in DOMAIN screen.own |-> screen.own[k].default]
        asks == Asks(screen, view, period)
        here == at # "elsewhere"
    IN  [at |-> at, query |-> query, past |-> past, period |-> period, moves |-> moves, view |-> view, typed |-> FALSE, adrift |-> FALSE,
         shown |-> IF here THEN {} ELSE {asks}, error |-> FALSE, loading |-> here, sent |-> 1,
         calls |-> IF here THEN {Call(1, asks, TRUE)} ELSE {}, overtaken |-> FALSE,
         sel |-> None, content |-> None, asking |-> {}, strayed |-> FALSE]

\* The application starts: it replaces the URL it was opened with by the path alone while its screen is being
\* fetched, so that no choice of an opened link is seen.
Started(at) == Mounted(at, NoQuery, <<>>, "24h", 0)

OnScreen ==
    (IF page.error THEN {"error"} ELSE IF page.loading /\ page.shown = {} THEN {"spinner"} ELSE {})
    \cup (IF page.shown # {} /\ ~(page.error /\ Screen.hides) THEN {"report"} ELSE {})
RowsAreThere == "report" \in OnScreen /\ \A k \in DOMAIN Screen.under : page.view[k] = Screen.under[k]

\* The effect without its cleanup: the load of the earlier choice may still answer.
Loading_NoCleanup(p) ==
    LET asks == Asks(Pages[p.at], p.view, p.period)
    IN  IF asks = Wanted THEN p
        ELSE [p EXCEPT !.loading = TRUE, !.sent = @ + 1, !.shown = IF Pages[p.at].clears THEN {} ELSE @,
                  !.calls = @ \cup {Call(p.sent + 1, asks, TRUE)}]
\* The effect of a load runs again when what it asks with has changed.
Loading(p) ==
    LET asks == Asks(Pages[p.at], p.view, p.period)
    IN  IF asks = Wanted THEN p
        ELSE [p EXCEPT !.loading = TRUE, !.sent = @ + 1, !.shown = IF Pages[p.at].clears THEN {} ELSE @,
                  !.calls = Aborted(@) \cup {Call(p.sent + 1, asks, TRUE)}]
Written(p) ==
    [p EXCEPT !.query = mergeSearch(p.query, encodeState(Pages[p.at].schema, p.view)), !.typed = FALSE, !.adrift = FALSE]

\* Choices are made on the screen: all of them go to the URL, at once unless the one made is a text being typed.
patch(view, later) ==
    /\ page.sent < MaxCalls /\ view # page.view
    /\ LET chosen == [page EXCEPT !.view = view]
       IN  page' = Loading(IF later THEN [chosen EXCEPT !.typed = TRUE] ELSE Written(chosen))
Choose(k, v) == page.sel = None /\ patch([page.view EXCEPT ![k] = v], k \in Screen.debounced)
\* All at once: the filters' reset, and a saved view, which may name what is not offered any more.
applyView(query) == page.sel = None /\ patch(decodeState(Screen.schema, query) ++ page.view, FALSE)
FilterByRow(k, row) == RowsAreThere /\ page.sel = None /\ patch([page.view EXCEPT ![k] = row], FALSE)
SetPeriod(period) ==
    /\ page.sent < MaxCalls /\ Screen.period /\ page.sel = None
    /\ page' = Loading([page EXCEPT !.period = period])
\* The timer of the text runs out.
WriteUrl ==
    /\ page.typed
    /\ page' = Written(page)

navigate(to, params) ==
    /\ page.moves < MaxMoves
    /\ LET query == pathForPage(params)
           moved == to # page.at \/ query # page.query
           past == IF moved THEN <<[at |-> page.at, query |-> page.query]>> ELSE page.past
       IN  page' = IF to # page.at THEN Mounted(to, query, past, page.period, page.moves + 1)
                   ELSE [page EXCEPT !.query = query, !.past = past, !.moves = @ + 1, !.adrift = @ \/ moved]
Params(link, row) == [k \in link.carries |-> IF k = "range" THEN page.period ELSE row]
Follow(link, row) ==
    /\ \/ link \in Screen.links /\ page.sel = None /\ "report" \in OnScreen
       \/ link \in Screen.leaves /\ page.content = row
    /\ navigate(link.to, Params(link, row))
\* The screen's own entry of the menu or, over a panel too, of the palette.
ClickOwn == navigate(page.at, <<>>)
Back ==
    /\ page.past # <<>>
    /\ LET to == Head(page.past)
       IN  /\ to.at = page.at => page.sent < MaxCalls
           /\ page' = IF to.at # page.at THEN Mounted(to.at, to.query, <<>>, page.period, page.moves)
                      ELSE Loading([page EXCEPT !.query = to.query, !.past = <<>>, !.adrift = FALSE,
                                        !.view = decodeState(Screen.schema, to.query) ++ @])

\* The button and the timer: a load without a signal.
Reload ==
    /\ page.sent < MaxCalls /\ page.at # "elsewhere"
    /\ \/ Screen.timer
       \/ Screen.button /\ page.sel = None /\ ~(Screen.waits /\ page.loading)
    /\ page' = [page EXCEPT !.sent = @ + 1, !.loading = @ \/ Screen.waits, !.calls = @ \cup {Call(page.sent + 1, Wanted, FALSE)}]

\* The load that cut a call off is under way itself.
CutJustNow(c) == \E d \in page.calls : d.signal /\ d.n > c.n
\* An answer.  That of a call cut off ends the spinner, and is an error on the screen if a refusal's text was being read.
Answer(c, ok) ==
    /\ c \in page.calls
    /\ page' = [page EXCEPT !.calls = @ \ {c}, !.loading = FALSE,
                    !.shown = IF c.live /\ ok THEN {c.asks} ELSE @,
                    !.error = IF c.live THEN ~ok ELSE @ \/ (~ok /\ CutJustNow(c)),
                    !.overtaken = IF c.live /\ ok THEN ~c.signal /\ c.asks # Wanted ELSE @]

\* A panel opens on a row; it lies over the screen, so another row needs it closed first.
Open(row) ==
    /\ page.sel = None /\ RowsAreThere /\ Screen.panel # None /\ page.sent < MaxCalls
    /\ page' = CASE Screen.panel = "row" -> [page EXCEPT !.sel = row, !.content = row]
                 [] Screen.panel = "button" -> [page EXCEPT !.sel = row]
                 [] OTHER -> [page EXCEPT !.sel = row, !.content = None, !.sent = @ + 1,
                                 !.asking = @ \cup {Call(page.sent + 1, row, Screen.cut)}]
\* The button in the panel waits for whichever call is under way.
AskContent ==
    /\ Screen.panel = "button" /\ page.sel # None /\ page.content = None /\ page.asking = {} /\ page.sent < MaxCalls
    /\ page' = [page EXCEPT !.sent = @ + 1, !.asking = {Call(page.sent + 1, page.sel, FALSE)}]
\* A panel that closes and lets its call go on.
Close_NoCleanup ==
    /\ page.sel # None
    /\ page' = [page EXCEPT !.sel = None, !.content = None, !.strayed = ~Screen.cut /\ page.asking # {}]
Close ==
    /\ page.sel # None
    /\ page' = [page EXCEPT !.sel = None, !.content = None, !.asking = Aborted(@), !.strayed = ~Screen.cut /\ page.asking # {}]
\* An answer in the panel; that of a call cut off, which can come late, clears a panel that takes it for a failure.
AnswerPanel(c, ok) ==
    /\ c \in page.asking
    /\ page' = [page EXCEPT !.asking = @ \ {c},
                    !.content = IF c.live THEN (IF ok THEN c.asks ELSE None) ELSE IF Screen.quiet THEN @ ELSE None]

\* What a saved view may hold: what a schema writes, and what it no longer offers.
SavedViews == {NoQuery, [NoQuery EXCEPT !["range"] = "30d", !["app"] = "a", !["type"] = "pii"]}

ReportNext ==
    \/ \E k \in DOMAIN page.view : \E v \in Choices(Screen)[k].offers : Choose(k, v)
    \/ \E query \in SavedViews : Screen.schema # <<>> /\ applyView(query)
    \/ \E k \in Screen.byRow, row \in Rows : FilterByRow(k, row)
    \/ \E period \in Periods : SetPeriod(period)
    \/ \E link \in Screen.links \cup Screen.leaves, row \in Rows : Follow(link, row)
    \/ WriteUrl \/ ClickOwn \/ Back \/ Reload
    \/ \E c \in page.calls, ok \in BOOLEAN : Answer(c, ok)
    \/ \E row \in Rows : Open(row)
    \/ AskContent \/ Close
    \/ \E c \in page.asking, ok \in BOOLEAN : AnswerPanel(c, ok)

-----------------------------------------------------------------------------
(* Once nothing is under way and nothing failed, the report on the screen  *)
(* is the one of the choices on it, unless an answer overtook a change of  *)
(* the choices; the URL says what those choices are, unless a text is      *)
(* still being typed or the screen's own entry was clicked, so that the    *)
(* way back to it restores them; and a blank screen has a call under way.  *)
(* A panel never shows what another row's call brought, unless one was     *)
(* closed while a call nothing cuts off was under way.                     *)
ReportIsOfTheChoices ==
    /\ page.calls = {} /\ ~page.error /\ ~page.overtaken => page.shown = {Wanted}
    /\ ~page.typed /\ ~page.adrift => \A k \in DOMAIN Screen.schema : decodeState(Screen.schema, page.query)[k] = page.view[k]
    /\ OnScreen = {} => page.calls # {}
    /\ page.content \in {None, page.sel} \/ page.strayed
=============================================================================
