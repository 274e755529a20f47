-------------------------------- MODULE Lists --------------------------------
(***************************************************************************)
(* What the console computes of lists before it draws them: the window of  *)
(* a long table (web/src/hooks/useRowWindow.ts, VirtualRows.tsx), the bars *)
(* of a trace (components/spanWaterfall.ts) and the layout of the          *)
(* dashboard (dashboardLayout.ts).                                         *)
(***************************************************************************)
EXTENDS Integers, Sequences, FiniteSets, SequencesExt

Larger(a, b) == IF a > b THEN a ELSE b
Smaller(a, b) == IF a < b THEN a ELSE b
CeilDiv(a, b) == (a + b - 1) \div b

(* useRowWindow.  top and height are what was last measured of the scroll  *)
(* container; a height of 0 means it was not measured yet.                 *)
RowWindow(total, top, height, view) ==
    LET seen == IF height > 0 THEN height ELSE view.fallback
        first == top \div view.rowHeight
        start == Larger(0, first - view.overscan)
        end == Smaller(total, first + CeilDiv(seen, view.rowHeight) + view.overscan)
    IN  IF total <= view.threshold
        THEN [start |-> 0, end |-> total, topPad |-> 0, bottomPad |-> 0, windowed |-> FALSE]
        ELSE [start |-> start, end |-> end, topPad |-> start * view.rowHeight,
              bottomPad |-> Larger(0, (total - end) * view.rowHeight), windowed |-> TRUE]

\* VirtualRows: the rows drawn between the spacers, counted from 0.
RowsDrawn(w) == w.start .. w.end - 1
DrawnHeight(w, view) == w.topPad + Cardinality(RowsDrawn(w)) * view.rowHeight + w.bottomPad

(* spanWaterfall.ts.  A span is [parent, start, duration]; parent 0 is none. *)
SpanGeometry(span, total) ==
    LET t == IF total > 0 THEN total ELSE 1
        left == Smaller(100, (span.start * 100) \div t)
        room == IF left = 100 THEN 1 ELSE 100 - left
    IN  [left |-> left, width |-> Smaller(Larger((span.duration * 100) \div t, 1), room)]
\* Up the chain of parents, not round it.
SpanDepth(spans, i) ==
    LET Up[k \in 0 .. Len(spans)] ==
            IF k = 0 THEN <<i>>
            ELSE LET path == Up[k - 1]
                     parent == spans[Last(path)].parent
                 IN  IF Len(path) < k \/ parent \notin DOMAIN spans \/ parent \in ToSet(path) THEN path
                     ELSE Append(path, parent)
    IN  Len(Up[Len(spans)]) - 1
SumOf(f, S) == FoldLeft(LAMBDA a, x : a + f[x], 0, SetToSeq(S))
SelfTime(spans, i) ==
    Larger(0, spans[i].duration
                - SumOf([j \in DOMAIN spans |-> spans[j].duration], {j \in DOMAIN spans : spans[j].parent = i}))

\* A stored order is taken as it is, a widget it names twice as well.
NormalizeLayout_Repeats(raw, widgets) ==
    LET known(s) == SelectSeq(s, LAMBDA w : w \in ToSet(widgets))
        order == known(raw.order) \o SelectSeq(widgets, LAMBDA w : w \notin ToSet(raw.order))
    IN  [order |-> order, hidden |-> SelectSeq(order, LAMBDA w : w \in ToSet(raw.hidden))]
(* dashboardLayout.ts.  Whatever is stored, a layout is an order of all    *)
(* widgets and the ones of them that are hidden.                           *)
NormalizeLayout(raw, widgets) ==
    LET known(s) == SelectSeq(s, LAMBDA w : w \in ToSet(widgets))
        once == FoldLeft(LAMBDA s, w : IF w \in ToSet(s) THEN s ELSE Append(s, w), <<>>, known(raw.order))
        order == once \o SelectSeq(widgets, LAMBDA w : w \notin ToSet(once))
    IN  [order |-> order, hidden |-> SelectSeq(order, LAMBDA w : w \in ToSet(raw.hidden))]
ToggleWidget(layout, w) ==
    [layout EXCEPT !.hidden = IF w \in ToSet(@) THEN SelectSeq(@, LAMBDA x : x # w) ELSE Append(@, w)]
MoveWidget(layout, w, dir) ==
    LET i == CHOOSE k \in DOMAIN layout.order : layout.order[k] = w
        j == IF dir = "up" THEN i - 1 ELSE i + 1
    IN  IF w \notin ToSet(layout.order) \/ j \notin DOMAIN layout.order THEN layout
        ELSE [layout EXCEPT !.order = [@ EXCEPT ![i] = layout.order[j], ![j] = w]]

-----------------------------------------------------------------------------
(* Wherever the browser lets the scroll position rest, which is within     *)
(* what is drawn, the rows in sight are drawn and the spacers keep the     *)
(* table as tall as all its rows, so that the scroll bar does not jump: a  *)
(* table that shrank while it was scrolled further down does not stay      *)
(* blank.                                                                  *)
WindowCoversSight(total, top, height, view) ==
    LET w == RowWindow(total, top, height, view)
        inSight == {r \in 0 .. total - 1 : r * view.rowHeight < top + height /\ (r + 1) * view.rowHeight > top}
    IN  top <= Larger(0, DrawnHeight(w, view) - height) =>
            inSight \subseteq RowsDrawn(w) /\ DrawnHeight(w, view) = total * view.rowHeight

(* The bars of a trace stay in the picture, and where the children of each *)
(* span fit into it the self times add up to the roots' durations.         *)
SelfTimesAddUp(spans, total) ==
    LET self == [i \in DOMAIN spans |-> SelfTime(spans, i)]
        duration == [i \in DOMAIN spans |-> spans[i].duration]
        children(i) == {j \in DOMAIN spans : spans[j].parent = i}
        acyclic == \A i \in DOMAIN spans : \A j \in children(i) : SpanDepth(spans, j) = SpanDepth(spans, i) + 1
        fits == acyclic /\ \A i \in DOMAIN spans : SumOf(duration, children(i)) <= duration[i]
    IN  /\ \A i \in DOMAIN spans : LET bar == SpanGeometry(spans[i], total) IN
              bar.width >= 1 /\ bar.left + bar.width <= 101
        /\ \A i \in DOMAIN spans : SpanDepth(spans, i) < Len(spans)
        /\ fits => SumOf(self, DOMAIN spans) = SumOf(duration, {i \in DOMAIN spans : spans[i].parent = 0})

(* Any stored value and any edit leaves an order of all widgets; a widget  *)
(* moved down and up again is where it was, unless it was the last.        *)
LayoutStaysWhole(raw, widgets) ==
    LET layout == NormalizeLayout(raw, widgets)
        whole(l) == /\ IsInjective(l.order) /\ ToSet(l.order) = ToSet(widgets)
                    /\ IsInjective(l.hidden) /\ ToSet(l.hidden) \subseteq ToSet(widgets)
    IN  /\ whole(layout) /\ NormalizeLayout(layout, widgets) = layout
        /\ \A w \in ToSet(widgets) :
              /\ whole(ToggleWidget(layout, w)) /\ whole(MoveWidget(layout, w, "up"))
              /\ ToSet(ToggleWidget(ToggleWidget(layout, w), w).hidden) = ToSet(layout.hidden)
              /\ w # Last(layout.order) => MoveWidget(MoveWidget(layout, w, "down"), w, "up") = layout
=============================================================================
