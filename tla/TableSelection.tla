---------------------------- MODULE TableSelection ----------------------------
(***************************************************************************)
(* The grid of a result table in a results view: its cells are selected,   *)
(* its rows sorted and paged, its columns reordered with the mouse.  The   *)
(* selection is kept three times: positions of the page (selectedCells),   *)
(* the cells drawn as selected, and, in the host (DataTableView), the rows *)
(* and columns of the data they stand for, which is what is copied.        *)
(*                                                                         *)
(* Concurrency.  The handlers of mousedown, mousemove, mouseup, click and  *)
(* the drag events share flags: what one prevents or arms another consumes *)
(* later, or never, when the button is released elsewhere.                 *)
(*                                                                         *)
(* Abstractions.  <<r, c>> is a place of the grid: row 0 is the header,    *)
(* column 0 the gutter, <<0, 0>> the corner.  Sorting reverses the rows; a *)
(* search is a page like another.  Widths are left out.  A click follows   *)
(* its mouseup at once, and the host is told at once.                      *)
(***************************************************************************)
EXTENDS Client, Integers, SequencesExt

CONSTANTS
    RowCount,       \* rows of the table
    ColCount,       \* data columns, dataColCount
    PageSize        \* rows of a page

VARIABLES
    down,           \* the rows are sorted downwards
    page,           \* the page shown
    colOrder,       \* columns of the data in the order shown
    selected,       \* selectedCells
    anchor,         \* selAnchor
    lit,            \* cells drawn as selected
    dragging,       \* dragSelecting: "cell", "row", "col" or None
    press,          \* where the button is held, and how it was pressed
    armedCol,       \* pendingColDrag
    headerSelect,   \* pendingHeaderSelect
    cornerSelect,   \* pendingCornerSelect
    swallow,        \* suppressNextClick
    keepRow,        \* suppressNextToggle
    carrying,       \* the browser drags: a column (reorderSourceCol), or 0 for cells
    hostSelection,  \* currentSelection of the host
    turned,         \* history: the page was turned under the selection
    strayed         \* history: a button was released outside of the grid, its click to be swallowed

shape == <<down, page, colOrder>>
selection == <<selected, anchor, lit, turned>>
armed == <<armedCol, headerSelect, cornerSelect, swallow, keepRow>>
selVars == <<shape, selection, dragging, press, armed, carrying, hostSelection, strayed>>

LastPage == (RowCount + PageSize - 1) \div PageSize
Columns == 1 .. ColCount
Outside == <<PageSize + 1, 0>>
Places == ((0 .. PageSize) \X (0 .. ColCount)) \union {Outside}
HeldButton == [at: Places, shift: BOOLEAN, edge: BOOLEAN]
DragKinds == {"cell", "row", "col"}

ASSUME SelectionAssumption ==
    /\ RowCount \in Nat \ {0} /\ ColCount \in Nat \ {0} /\ PageSize \in Nat \ {0}
    /\ None \notin Nat /\ None \notin HeldButton /\ None \notin DragKinds

\* The rows of the data on the page, in the order shown.
Shown == LET all == [i \in 1 .. RowCount |-> IF down THEN RowCount + 1 - i ELSE i] IN
         SubSeq(all, (page - 1) * PageSize + 1, Min({page * PageSize, RowCount}))
Height == Len(Shown)
DataCells == (1 .. PageSize) \X Columns
OnGrid(t) == t[1] \in 0 .. Height
IsCell(t) == t[1] \in 1 .. Height

SelTypeOK ==
    /\ down \in BOOLEAN /\ page \in 1 .. LastPage
    /\ Len(colOrder) = ColCount /\ ToSet(colOrder) = Columns
    /\ selected \subseteq DataCells /\ lit \subseteq DataCells /\ anchor \in DataCells \union {None}
    /\ dragging \in DragKinds \union {None}
    /\ press \in HeldButton \union {None}
    /\ armedCol \in Columns \union {None} /\ headerSelect \in Columns \union {None}
    /\ carrying \in {0, None} \union Columns
    /\ hostSelection = None \/ hostSelection \in [rows: SUBSET (1 .. RowCount), cols: SUBSET Columns]
    /\ {cornerSelect, swallow, keepRow, turned, strayed} \subseteq BOOLEAN

\* The order a saved view of the table gives its columns, those it lacks last.
SavedOrders == {o \in [Columns -> Columns] : IsInjective(o)}

SelInit ==
    /\ down = FALSE /\ page = 1 /\ colOrder \in SavedOrders
    /\ selected = {} /\ anchor = None /\ lit = {} /\ dragging = None /\ press = None
    /\ armedCol = None /\ headerSelect = None /\ cornerSelect = FALSE
    /\ swallow = FALSE /\ keepRow = FALSE
    /\ carrying = None /\ hostSelection = None /\ turned = FALSE /\ strayed = FALSE
-----------------------------------------------------------------------------
Between(a, b) == Min({a, b}) .. Max({a, b})

\* selectRect.
Rect(r1, c1, r2, c2) == Between(r1, r2) \X Between(c1, c2)
Row(r) == Rect(r, 1, r, ColCount)
RowOf(S) == {p[1] : p \in S}
ColOf(S) == {p[2] : p \in S}

\* selectedCells, selAnchor and applySelection.
Selects(S, a) == selected' = S /\ lit' = S /\ anchor' = a /\ turned' = FALSE

\* currentSelectionIndices, in the layout and of the selection after the step.
Indices(S, rows, cols) ==
    LET r == (Min(RowOf(S)) .. Max(RowOf(S))) \cap DOMAIN rows
        c == (Min(ColOf(S)) .. Max(ColOf(S))) \cap DOMAIN cols IN
    IF S = {} \/ r = {} \/ c = {} THEN None
    ELSE [rows |-> {rows[i] : i \in r}, cols |-> {cols[i] : i \in c}]

\* postSelectionChange, and setSelection of the host.
Posts == hostSelection' = Indices(selected', Shown', colOrder')

\* The browser draws the rows anew.
Redraws == lit' = {} /\ UNCHANGED <<selected, anchor>>

\* Fault: the selection outlives a change of the places it names.
ClearsNothing == Redraws /\ UNCHANGED <<turned, hostSelection>>

\* The selection is dropped, and the host told if there was one.
Clears ==
    IF selected # {} \/ anchor # None THEN Selects({}, None) /\ Posts
    ELSE Redraws /\ UNCHANGED <<turned, hostSelection>>
-----------------------------------------------------------------------------
(* mousedown *)

Presses(t, shift, edge) ==
    /\ press = None /\ carrying = None
    /\ press' = [at |-> t, shift |-> shift, edge |-> edge]

\* The right edge of a header: a resize, whose click is to be swallowed.
PressEdge(c) ==
    /\ Presses(<<0, c>>, FALSE, TRUE) /\ swallow' = TRUE
    /\ UNCHANGED <<shape, selection, dragging, armedCol, headerSelect, cornerSelect, keepRow,
                   carrying, hostSelection, strayed>>

PressHeader(c, shift) ==
    /\ Presses(<<0, c>>, shift, FALSE)
    /\ IF shift
       THEN /\ swallow' = TRUE
            /\ IF c = 0 THEN cornerSelect' = TRUE /\ UNCHANGED <<armedCol, headerSelect>>
               ELSE armedCol' = c /\ headerSelect' = c /\ UNCHANGED cornerSelect
       ELSE UNCHANGED <<armedCol, headerSelect, cornerSelect, swallow>>
    /\ UNCHANGED <<shape, selection, dragging, keepRow, carrying, hostSelection, strayed>>

PressGutter(r, shift) ==
    /\ IsCell(<<r, 0>>) /\ Presses(<<r, 0>>, shift, FALSE)
    /\ \/ /\ shift /\ anchor # None /\ dragging' = "row" /\ UNCHANGED <<selection, keepRow>>
       \/ /\ ~(shift /\ anchor # None) /\ Row(r) \subseteq selected
          /\ UNCHANGED <<selection, dragging, keepRow>>
       \/ /\ ~(shift /\ anchor # None) /\ ~(Row(r) \subseteq selected)
          /\ Selects(Row(r), <<r, 1>>) /\ dragging' = "row" /\ keepRow' = TRUE
    /\ UNCHANGED <<shape, armedCol, headerSelect, cornerSelect, swallow, carrying, hostSelection, strayed>>

PressCell(t, shift) ==
    /\ IsCell(t) /\ t[2] # 0 /\ Presses(t, shift, FALSE)
    /\ \/ shift /\ anchor # None /\ dragging' = "cell" /\ UNCHANGED anchor
       \/ ~(shift /\ anchor # None) /\ t \in selected /\ UNCHANGED <<anchor, dragging>>
       \/ ~(shift /\ anchor # None) /\ t \notin selected /\ anchor' = t /\ dragging' = "cell"
    /\ UNCHANGED <<shape, selected, lit, turned, armed, carrying, hostSelection, strayed>>
-----------------------------------------------------------------------------
(* mousemove *)

\* onCellDragMove: a shift-press on a header becomes a drag of columns.
ArmedMove(t) ==
    /\ press # None /\ armedCol # None /\ dragging = None
    /\ LET a == IF anchor = None \/ anchor[1] # 1 THEN <<1, armedCol>> ELSE anchor
           c == IF OnGrid(t) /\ t[2] # 0 THEN t[2] ELSE armedCol IN
       Selects(Rect(1, a[2], Height, c), a)
    /\ dragging' = "col" /\ armedCol' = None /\ headerSelect' = None /\ swallow' = TRUE
    /\ UNCHANGED <<shape, press, cornerSelect, keepRow, carrying, hostSelection, strayed>>

DragMove(t) ==
    /\ press # None /\ dragging # None /\ anchor # None
    /\ \/ /\ dragging = "col" /\ OnGrid(t) /\ t[2] # 0
          /\ Selects(Rect(1, anchor[2], Height, t[2]), anchor)
       \/ /\ dragging = "row" /\ IsCell(t)
          /\ Selects(Rect(anchor[1], 1, t[1], ColCount), anchor)
       \/ /\ dragging = "cell" /\ IsCell(t)
          /\ Selects(Rect(anchor[1], anchor[2], t[1], Max({t[2], 1})), anchor)
    /\ UNCHANGED <<shape, dragging, press, armed, carrying, hostSelection, strayed>>
-----------------------------------------------------------------------------
(* mouseup, and the click it makes *)

\* onCellDragEnd.
DragEnds == dragging' = None /\ armedCol' = None

Releases(t) == press # None /\ press' = None /\ DragEnds /\ UNCHANGED carrying

\* What the release of a drag tells the host when no click changes the selection.
DragPosts == IF dragging # None THEN Posts ELSE UNCHANGED hostSelection

\* The button is released elsewhere: no click, or one of the grid as a whole.
ReleaseElsewhere(t) ==
    /\ Releases(t) /\ t # press.at /\ (t = Outside \/ ~swallow)
    /\ strayed' = (strayed \/ swallow)
    /\ UNCHANGED <<shape, selection, headerSelect, cornerSelect, swallow, keepRow>> /\ DragPosts

\* A click that was to be swallowed: it selects what its press asked for.
SelectsHeader(c) ==
    IF selected # {} /\ ColOf(selected) = {c} THEN Selects({}, None)
    ELSE IF selected # {} /\ anchor # None
         THEN Selects(Rect(1, anchor[2], Height, c), anchor)
         ELSE Selects(Rect(1, c, Height, c), <<1, c>>)

SelectsAll ==
    IF Cardinality(selected) = Height * ColCount THEN Selects({}, None)
    ELSE Selects(Rect(1, 1, Height, ColCount), <<1, 1>>)

ReleaseSwallowed(t) ==
    /\ Releases(t) /\ t # Outside /\ swallow /\ swallow' = FALSE
    /\ IF cornerSelect
       THEN SelectsAll /\ cornerSelect' = FALSE /\ UNCHANGED headerSelect
       ELSE /\ headerSelect' = None /\ UNCHANGED cornerSelect
            /\ IF headerSelect # None THEN SelectsHeader(headerSelect) ELSE UNCHANGED selection
    /\ UNCHANGED <<shape, keepRow, strayed>>
    /\ IF cornerSelect \/ headerSelect # None THEN Posts ELSE DragPosts

Clicks(t) == Releases(t) /\ t = press.at /\ ~swallow /\ UNCHANGED <<headerSelect, cornerSelect, swallow, strayed>>

\* A header, or the corner: the library sorts.
ClickHeader(t) ==
    /\ Clicks(t) /\ t[1] = 0
    /\ down' = ~down /\ page' \in {1, page} /\ UNCHANGED <<colOrder, keepRow>>
    /\ Clears

ClickGutter(t) ==
    /\ Clicks(t) /\ IsCell(t) /\ t[2] = 0 /\ UNCHANGED shape
    /\ IF press.shift /\ anchor # None
       THEN Selects(Rect(anchor[1], 1, t[1], ColCount), anchor) /\ UNCHANGED keepRow
       ELSE /\ keepRow' = FALSE
            /\ IF ~keepRow /\ selected = Row(t[1]) THEN Selects({}, None)
               ELSE Selects(Row(t[1]), <<t[1], 1>>)
    /\ Posts

ClickSelects(t) == IF selected = {t} THEN Selects({}, None) ELSE Selects({t}, t)

ClickCell(t) ==
    /\ Clicks(t) /\ IsCell(t) /\ t[2] # 0 /\ UNCHANGED <<shape, keepRow>>
    /\ IF press.shift /\ anchor # None
       THEN Selects(Rect(anchor[1], anchor[2], t[1], t[2]), anchor) ELSE ClickSelects(t)
    /\ Posts
-----------------------------------------------------------------------------
(* Pages, and columns dragged *)

TurnPage(p) ==
    /\ press = None /\ p # page /\ page' = p /\ Redraws
    /\ turned' = (turned \/ selected # {} \/ anchor # None)
    /\ UNCHANGED <<down, colOrder, dragging, press, armed, carrying, hostSelection, strayed>>

\* The default of the press was not prevented: the browser drags a column, or
\* the whole table, the selection of a column or of its cells.
StartDrag ==
    /\ press # None /\ dragging = None /\ ~press.shift /\ ~press.edge
    /\ press' = None
    /\ LET c == press.at[2] IN
       carrying' = IF press.at[1] = 0 /\ c # 0 /\ ~(Rect(1, c, Height, c) \subseteq selected)
                   THEN colOrder[c] ELSE 0
    /\ UNCHANGED <<shape, selection, dragging, armed, hostSelection, strayed>>

\* colOrder without src, then with it before or after the column dropped on.
ColumnsWithout(src) == RemoveAt(colOrder, CHOOSE k \in DOMAIN colOrder : colOrder[k] = src)
Reordered(src, i) == InsertAt(ColumnsWithout(src), i, src)

DropColumn(tgt, after) ==
    /\ carrying \in Columns /\ carrying' = None
    /\ IF tgt = carrying THEN UNCHANGED <<shape, selection, hostSelection>>
       ELSE LET rest == ColumnsWithout(carrying)
                i == CHOOSE k \in DOMAIN rest : rest[k] = tgt IN
            /\ colOrder' = Reordered(carrying, IF after THEN i + 1 ELSE i)
            /\ UNCHANGED <<down, page>>
            /\ IF selected # {} \/ anchor # None THEN Clears ELSE UNCHANGED <<selection, hostSelection>>
    /\ UNCHANGED <<dragging, press, armed, strayed>>

EndDrag ==
    /\ carrying # None /\ carrying' = None
    /\ UNCHANGED <<shape, selection, dragging, press, armed, hostSelection, strayed>>

SelNext ==
    \/ \E c \in Columns : PressEdge(c)
    \/ \E c \in 0 .. ColCount, shift \in BOOLEAN : PressHeader(c, shift)
    \/ \E r \in 1 .. PageSize, shift \in BOOLEAN : PressGutter(r, shift)
    \/ \E t \in DataCells, shift \in BOOLEAN : PressCell(t, shift)
    \/ \E t \in Places : ArmedMove(t) \/ DragMove(t)
    \/ \E t \in {u \in Places : u = Outside \/ OnGrid(u)} :
        ReleaseElsewhere(t) \/ ReleaseSwallowed(t) \/ ClickHeader(t) \/ ClickGutter(t) \/ ClickCell(t)
    \/ \E p \in 1 .. LastPage : TurnPage(p)
    \/ StartDrag \/ EndDrag
    \/ \E c \in Columns, after \in BOOLEAN : DropColumn(c, after)

SelSpec == SelInit /\ [][SelNext]_selVars
-----------------------------------------------------------------------------
\* "Selection is always rectangular and contiguous": the host takes its first
\* and last row and column for the whole of it.
SelectionIsRectangular ==
    selected # {} => selected = (Min(RowOf(selected)) .. Max(RowOf(selected)))
                                \X (Min(ColOf(selected)) .. Max(ColOf(selected)))

\* With no button held, what is copied (the host's selection) is what is drawn as
\* selected, wherever sorting and reordering have moved it, unless the page was
\* turned under it.
SelectionAgrees ==
    press = None /\ ~turned => hostSelection = Indices(selected, Shown, colOrder) /\ lit = selected

\* A press that was answered by its release leaves nothing behind that a later
\* click would be taken for, unless the button was released outside.
NothingStaysArmed ==
    press = None /\ ~strayed =>
        armedCol = None /\ headerSelect = None /\ ~cornerSelect /\ ~swallow

\* The three copies of the selection agree, and no flag outlives its press (see
\* the parts above).
SelectionIsSound == SelTypeOK /\ SelectionIsRectangular /\ SelectionAgrees /\ NothingStaysArmed
===============================================================================
