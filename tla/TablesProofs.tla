----------------------------- MODULE TablesProofs -----------------------------
(***************************************************************************)
(* Proofs about what a results view does with its tables, and about the    *)
(* form of a chart.                                                        *)
(***************************************************************************)
EXTENDS ResultTables, ChartEditor, SequenceLemmas

-----------------------------------------------------------------------------
(* Cells that are selected *)

\* What lies between two rows and two columns.
Rectangle(S) == \E a, b, c, d \in Nat : a <= b /\ c <= d /\ S = (a .. b) \X (c .. d)

\* What a handler may select: nothing, or what lies between two cells.
Selectable(S, a) ==
    \/ S = {} /\ a = None
    \/ /\ a \in DataCells
       /\ \E r1, r2 \in 1 .. PageSize, c1, c2 \in Columns : S = Rect(r1, c1, r2, c2)

SelectsSome == \E S, a : Selectable(S, a) /\ Selects(S, a)

Permutes(o) == o \in Seq(Columns) /\ Len(o) = ColCount /\ ToSet(o) = Columns

ShapeFits == down \in BOOLEAN /\ page \in 1 .. LastPage /\ Permutes(colOrder)

\* The cells selected are a rectangle of the page.
CellsFit ==
    /\ selected \subseteq DataCells /\ lit \subseteq DataCells /\ anchor \in DataCells \union {None}
    /\ selected = {} \/ Rectangle(selected)

FlagsFit ==
    /\ dragging \in DragKinds \union {None} /\ press \in HeldButton \union {None}
    /\ armedCol \in Columns \union {None} /\ headerSelect \in Columns \union {None}
    /\ carrying \in {0, None} \union Columns
    /\ {cornerSelect, swallow, keepRow, turned, strayed} \subseteq BOOLEAN

Told == [rows: SUBSET (1 .. RowCount), cols: SUBSET Columns] \union {None}

\* What a held button armed is released with it, or swallows its click.
ArmedWithThePress ==
    /\ press = None => dragging = None /\ armedCol = None
    /\ press # None /\ armedCol # None => press.shift /\ swallow
    /\ press # None /\ dragging # None /\ press.at[1] = 0 => swallow

\* A click is swallowed for the press that asked for it.
SwallowsItsOwn ==
    ~strayed =>
        /\ swallow => press # None /\ (press.shift \/ press.edge)
        /\ headerSelect # None => swallow
        /\ cornerSelect => swallow /\ headerSelect = None

\* What is drawn is what is selected, and the host has it, or a drag will tell it.
CopiesAgree ==
    ~turned => /\ lit = selected
               /\ dragging = None => hostSelection = Indices(selected, Shown, colOrder)

SelInd ==
    /\ ShapeFits /\ CellsFit /\ FlagsFit /\ hostSelection \in Told
    /\ ArmedWithThePress /\ SwallowsItsOwn /\ CopiesAgree

ShownAt(d, p) ==
    SubSeq([i \in 1 .. RowCount |-> IF d THEN RowCount + 1 - i ELSE i],
           (p - 1) * PageSize + 1, Min({p * PageSize, RowCount}))
-----------------------------------------------------------------------------
LEMMA LastPageFits ==
  LastPage \in Nat /\ LastPage >= 1 /\ \A p \in 1 .. LastPage : (p - 1) * PageSize < RowCount
<1>1. RowCount \in Nat \ {0} /\ PageSize \in Nat \ {0}
  BY SelectionAssumption
<1>2. LastPage \in Int /\ LastPage >= 1
  BY <1>1, Z3 DEF LastPage
<1>3. ASSUME NEW p \in Int, p <= (RowCount + PageSize - 1) \div PageSize
      PROVE  (p - 1) * PageSize < RowCount
  BY <1>1, <1>3
<1> QED
  BY <1>2, <1>3 DEF LastPage

\* A page is never empty, nor longer than a page.
LEMMA PageFits ==
  ASSUME NEW d \in BOOLEAN, NEW p \in 1 .. LastPage
  PROVE  ShownAt(d, p) \in Seq(1 .. RowCount) /\ Len(ShownAt(d, p)) \in 1 .. PageSize
<1> DEFINE all == [i \in 1 .. RowCount |-> IF d THEN RowCount + 1 - i ELSE i]
           m == (p - 1) * PageSize
           e == Min({p * PageSize, RowCount})
<1>1. RowCount \in Nat \ {0} /\ PageSize \in Nat \ {0} /\ p \in Nat /\ p >= 1
  BY SelectionAssumption, LastPageFits
<1>2. m \in Nat /\ m < RowCount
  <2>1. m < RowCount
    BY LastPageFits
  <2>2. p - 1 \in Nat
    BY <1>1
  <2> QED
    BY <1>1, <2>1, <2>2
<1>3. p * PageSize \in Nat /\ p * PageSize = m + PageSize
  BY <1>1
<1> DEFINE pp == p * PageSize
<1>4. e \in Int /\ e <= RowCount /\ m + 1 <= e /\ e <= m + PageSize
  <2>1. e = IF pp <= RowCount THEN pp ELSE RowCount
    BY <1>1, <1>3, MinOfTwo
  <2> HIDE DEF m, pp, e
  <2>2. pp \in Nat /\ pp = m + PageSize
    BY <1>3 DEF pp
  <2> QED
    BY <1>1, <1>2, <2>1, <2>2
<1>5. ASSUME NEW i \in 1 .. RowCount PROVE all[i] \in 1 .. RowCount
  BY <1>1, <1>5
<1>6. ShownAt(d, p) = SubSeq(all, m + 1, e)
  BY DEF ShownAt
<1> HIDE DEF m, e, all
<1>7. m + 1 \in Int /\ \A i \in (m + 1) .. e : all[i] \in 1 .. RowCount
  <2>1. \A i \in (m + 1) .. e : i \in 1 .. RowCount
    BY <1>1, <1>2, <1>4
  <2> QED
    BY <1>2, <1>5, <2>1
<1>8. /\ SubSeq(all, m + 1, e) \in Seq(1 .. RowCount)
      /\ Len(SubSeq(all, m + 1, e)) = IF m + 1 <= e THEN e - (m + 1) + 1 ELSE 0
  BY <1>4, <1>7, SubSeqProperties
<1>9. e - (m + 1) + 1 \in 1 .. PageSize
  BY <1>1, <1>2, <1>4
<1> QED
  BY <1>4, <1>6, <1>8, <1>9

LEMMA ShownFits ==
  ASSUME ShapeFits
  PROVE  Shown \in Seq(1 .. RowCount) /\ Height \in 1 .. PageSize
<1>1. Shown = ShownAt(down, page)
  BY DEF Shown, ShownAt
<1> QED
  BY <1>1, PageFits DEF ShapeFits, Height

LEMMA ShownFitsNext ==
  ASSUME ShapeFits'
  PROVE  Shown' \in Seq(1 .. RowCount)
<1>1. Shown' = ShownAt(down', page')
  BY DEF Shown, ShownAt
<1> QED
  BY <1>1, PageFits DEF ShapeFits

LEMMA BetweenIsAnInterval ==
  ASSUME NEW a \in Int, NEW b \in Int
  PROVE  \E x, y \in {a, b} : x <= y /\ Between(a, b) = x .. y
<1>1. Min({a, b}) = (IF a <= b THEN a ELSE b) /\ Max({a, b}) = IF a >= b THEN a ELSE b
  BY MinOfTwo, MaxOfTwo
<1>2. CASE a <= b
  <2>1. Max({a, b}) = b /\ Min({a, b}) = a
    BY <1>1, <1>2
  <2> QED
    BY <1>2, <2>1 DEF Between
<1>3. CASE ~(a <= b)
  <2>1. Max({a, b}) = a /\ Min({a, b}) = b /\ b <= a
    BY <1>1, <1>3
  <2> QED
    BY <2>1 DEF Between
<1> QED
  BY <1>2, <1>3

LEMMA SelectableFits ==
  ASSUME NEW S, NEW a, Selectable(S, a)
  PROVE  S \subseteq DataCells /\ a \in DataCells \union {None} /\ (S = {} \/ Rectangle(S))
<1>1. CASE S = {} /\ a = None
  BY <1>1
<1>2. ASSUME a \in DataCells, NEW r1 \in 1 .. PageSize, NEW r2 \in 1 .. PageSize,
             NEW c1 \in Columns, NEW c2 \in Columns, S = Rect(r1, c1, r2, c2)
      PROVE  S \subseteq DataCells /\ Rectangle(S)
  <2>0. PageSize \in Nat /\ ColCount \in Nat
    BY SelectionAssumption
  <2>1. PICK x \in {r1, r2}, y \in {r1, r2} : x <= y /\ Between(r1, r2) = x .. y
    BY BetweenIsAnInterval, <2>0
  <2>2. PICK u \in {c1, c2}, v \in {c1, c2} : u <= v /\ Between(c1, c2) = u .. v
    BY BetweenIsAnInterval, <2>0 DEF Columns
  <2>3. S = (x .. y) \X (u .. v)
    BY <1>2, <2>1, <2>2 DEF Rect
  <2>4. x \in Nat /\ y \in Nat /\ u \in Nat /\ v \in Nat
    BY <2>0 DEF Columns
  <2>5. x .. y \subseteq 1 .. PageSize /\ u .. v \subseteq Columns
    BY <2>0 DEF Columns
  <2> QED
    BY <2>1, <2>2, <2>3, <2>4, <2>5 DEF Rectangle, DataCells
<1> QED
  BY <1>1, <1>2 DEF Selectable

LEMMA RectangleSpans ==
  ASSUME NEW S, Rectangle(S)
  PROVE  S = (Min(RowOf(S)) .. Max(RowOf(S))) \X (Min(ColOf(S)) .. Max(ColOf(S)))
<1>1. PICK a \in Nat, b \in Nat, c \in Nat, d \in Nat :
          a <= b /\ c <= d /\ S = (a .. b) \X (c .. d)
  BY DEF Rectangle
<1>2. RowOf(S) = a .. b
  <2>1. ASSUME NEW x \in a .. b PROVE x \in RowOf(S)
    <3>1. <<x, c>> \in S /\ <<x, c>>[1] = x
      BY <1>1
    <3> QED
      BY <3>1 DEF RowOf
  <2> QED
    BY <1>1, <2>1 DEF RowOf
<1>3. ColOf(S) = c .. d
  <2>1. ASSUME NEW x \in c .. d PROVE x \in ColOf(S)
    <3>1. <<a, x>> \in S /\ <<a, x>>[2] = x
      BY <1>1
    <3> QED
      BY <3>1 DEF ColOf
  <2> QED
    BY <1>1, <2>1 DEF ColOf
<1>4. Min(RowOf(S)) = a /\ Max(RowOf(S)) = b /\ Min(ColOf(S)) = c /\ Max(ColOf(S)) = d
  BY <1>1, <1>2, <1>3, EndsOfInterval
<1> QED
  BY <1>1, <1>4

\* What the host is told are rows and columns of the table.
LEMMA IndicesFit ==
  ASSUME NEW S, NEW rows \in Seq(1 .. RowCount), NEW cols \in Seq(Columns)
  PROVE  Indices(S, rows, cols) \in Told /\ Indices({}, rows, cols) = None
<1> DEFINE r == (Min(RowOf(S)) .. Max(RowOf(S))) \cap DOMAIN rows
           c == (Min(ColOf(S)) .. Max(ColOf(S))) \cap DOMAIN cols
<1>1. /\ \A i \in DOMAIN rows : rows[i] \in 1 .. RowCount
      /\ \A i \in DOMAIN cols : cols[i] \in Columns
  BY ElementOfSeq, LenProperties
<1>2. Indices({}, rows, cols) = None
  BY DEF Indices
<1>3. Indices(S, rows, cols) \in {None, [rows |-> {rows[i] : i \in r}, cols |-> {cols[i] : i \in c}]}
  BY DEF Indices
<1>4. {rows[i] : i \in r} \subseteq 1 .. RowCount /\ {cols[i] : i \in c} \subseteq Columns
  BY <1>1
<1> QED
  BY <1>2, <1>3, <1>4 DEF Told

LEMMA CellsKept ==
  ASSUME CellsFit, UNCHANGED selection \/ SelectsSome \/ Redraws
  PROVE  CellsFit'
<1>1. CASE UNCHANGED selection
  BY <1>1 DEF CellsFit, selection
<1>2. CASE SelectsSome
  <2>1. PICK S, a : Selectable(S, a) /\ Selects(S, a)
    BY <1>2 DEF SelectsSome
  <2>2. S \subseteq DataCells /\ a \in DataCells \union {None} /\ (S = {} \/ Rectangle(S))
    BY <2>1, SelectableFits
  <2>3. selected' = S /\ lit' = S /\ anchor' = a
    BY <2>1 DEF Selects
  <2> QED
    BY <2>2, <2>3 DEF CellsFit
<1>3. CASE Redraws
  BY <1>3 DEF CellsFit, Redraws
<1> QED
  BY <1>1, <1>2, <1>3

LEMMA HostKept ==
  ASSUME ShapeFits', hostSelection \in Told, Posts \/ UNCHANGED hostSelection
  PROVE  hostSelection' \in Told
<1>1. Shown' \in Seq(1 .. RowCount) /\ colOrder' \in Seq(Columns)
  BY ShownFitsNext DEF ShapeFits, Permutes
<1> QED
  BY <1>1, IndicesFit DEF Posts

-----------------------------------------------------------------------------
LEMMA SavedOrdersPermute ==
  ASSUME NEW o \in SavedOrders
  PROVE  Permutes(o)
<1>1. o \in [Columns -> Columns] /\ IsInjective(o) /\ ColCount \in Nat
  BY SelectionAssumption DEF SavedOrders
<1>2. IsFiniteSet(Columns)
  BY <1>1, FS_Interval DEF Columns
<1>3. o \in Injection(Columns, Columns)
  BY <1>1 DEF Injection, IsInjective
<1>4. o \in Surjection(Columns, Columns)
  BY <1>2, <1>3, FS_Injection
<1>5. o \in Seq(Columns) /\ Len(o) = ColCount /\ DOMAIN o = Columns
  BY <1>1 DEF Columns
<1>6. ToSet(o) = Columns
  BY <1>4, <1>5 DEF Surjection, ToSet
<1> QED
  BY <1>5, <1>6 DEF Permutes

\* A column dropped on another one: none is lost, and none shown twice.
LEMMA ReorderingPermutes ==
  ASSUME Permutes(colOrder), NEW src \in Columns, NEW tgt \in Columns, tgt # src
  PROVE  /\ \E k \in DOMAIN ColumnsWithout(src) : ColumnsWithout(src)[k] = tgt
         /\ \A k \in DOMAIN ColumnsWithout(src) :
               Permutes(Reordered(src, k)) /\ Permutes(Reordered(src, k + 1))
<1> DEFINE at == CHOOSE k \in DOMAIN colOrder : colOrder[k] = src
           rest == ColumnsWithout(src)
<1>1. /\ colOrder \in Seq(Columns) /\ Len(colOrder) = ColCount /\ ColCount \in Nat
      /\ DOMAIN colOrder = 1 .. ColCount /\ ToSet(colOrder) = Columns
      /\ \A c \in Columns : \E k \in 1 .. ColCount : colOrder[k] = c
  BY SelectionAssumption DEF Permutes, ToSet
<1>2. at \in 1 .. ColCount /\ colOrder[at] = src
  BY <1>1
<1> HIDE DEF at
<1>3. rest = RemoveAt(colOrder, at)
  BY DEF ColumnsWithout, at
<1> HIDE DEF rest
<1>4. /\ rest \in Seq(Columns) /\ Len(rest) = ColCount - 1
      /\ \A j \in 1 .. ColCount - 1 : rest[j] = IF j < at THEN colOrder[j] ELSE colOrder[j + 1]
  <2>1. colOrder \in Seq(Columns) /\ at \in 1 .. Len(colOrder)
    BY <1>1, <1>2
  <2>2. /\ RemoveAt(colOrder, at) \in Seq(Columns)
        /\ Len(RemoveAt(colOrder, at)) = Len(colOrder) - 1
        /\ \A j \in 1 .. (Len(colOrder) - 1) :
              RemoveAt(colOrder, at)[j] = IF j < at THEN colOrder[j] ELSE colOrder[j + 1]
    BY <2>1, RemoveAtProperties
  <2> QED
    BY <1>1, <1>3, <2>2
<1>5. DOMAIN rest = 1 .. ColCount - 1
  BY <1>1, <1>2, <1>4, LenProperties
<1>6. ASSUME NEW c \in Columns, c # src
      PROVE  \E j \in 1 .. ColCount - 1 : rest[j] = c
  <2>1. PICK k \in 1 .. ColCount : colOrder[k] = c
    BY <1>1
  <2>2. CASE k < at
    <3>1. k \in 1 .. ColCount - 1 /\ rest[k] = colOrder[k]
      BY <1>1, <1>2, <1>4, <2>2
    <3> QED
      BY <2>1, <3>1
  <2>3. CASE k > at
    <3>1. k - 1 \in 1 .. ColCount - 1 /\ ~(k - 1 < at) /\ (k - 1) + 1 = k
      BY <1>1, <1>2, <2>3
    <3>2. rest[k - 1] = colOrder[k]
      BY <1>4, <3>1
    <3> QED
      BY <2>1, <3>1, <3>2
  <2>4. k # at
    BY <1>2, <1>6, <2>1
  <2> QED
    BY <1>1, <1>2, <2>2, <2>3, <2>4
<1>7. ASSUME NEW i \in 1 .. ColCount
      PROVE  Permutes(InsertAt(rest, i, src))
  <2> DEFINE new == InsertAt(rest, i, src)
  <2>1. Len(rest) + 1 = ColCount /\ i \in 1 .. (Len(rest) + 1) /\ src \in Columns
    BY <1>1, <1>4
  <2>2. /\ new \in Seq(Columns) /\ Len(new) = ColCount
        /\ \A j \in 1 .. ColCount :
              new[j] = IF j < i THEN rest[j] ELSE IF j = i THEN src ELSE rest[j - 1]
    <3>1. rest \in Seq(Columns)
      BY <1>4
    <3>2. /\ InsertAt(rest, i, src) \in Seq(Columns)
          /\ Len(InsertAt(rest, i, src)) = Len(rest) + 1
          /\ \A j \in 1 .. (Len(rest) + 1) : InsertAt(rest, i, src)[j]
                = IF j < i THEN rest[j] ELSE IF j = i THEN src ELSE rest[j - 1]
      BY <2>1, <3>1, InsertAtProperties
    <3> QED
      BY <2>1, <3>2
  <2> HIDE DEF new
  <2>3. DOMAIN new = 1 .. ColCount /\ \A j \in 1 .. ColCount : new[j] \in Columns
    BY <1>1, <2>2, LenProperties, ElementOfSeq
  <2>4. ASSUME NEW c \in Columns PROVE \E j \in 1 .. ColCount : new[j] = c
    <3>1. CASE c = src
      BY <2>2, <3>1
    <3>2. CASE c # src
      <4>1. PICK j \in 1 .. ColCount - 1 : rest[j] = c
        BY <1>6, <3>2
      <4>2. CASE j < i
        <5>1. j \in 1 .. ColCount /\ new[j] = rest[j]
          BY <1>1, <2>2, <4>2
        <5> QED
          BY <4>1, <5>1
      <4>3. CASE ~(j < i)
        <5>1. j + 1 \in 1 .. ColCount /\ ~(j + 1 < i) /\ j + 1 # i /\ (j + 1) - 1 = j
          BY <1>1, <4>3
        <5>2. new[j + 1] = rest[j]
          BY <2>2, <5>1
        <5> QED
          BY <4>1, <5>1, <5>2
      <4> QED
        BY <4>2, <4>3
    <3> QED
      BY <3>1, <3>2
  <2>5. ToSet(new) = Columns
    BY <2>3, <2>4 DEF ToSet
  <2> QED
    BY <2>2, <2>5 DEF Permutes, new
<1>8. \E k \in DOMAIN rest : rest[k] = tgt
  BY <1>5, <1>6
<1>9. ASSUME NEW k \in DOMAIN rest
      PROVE  Permutes(Reordered(src, k)) /\ Permutes(Reordered(src, k + 1))
  <2>1. k \in 1 .. ColCount /\ k + 1 \in 1 .. ColCount
    BY <1>1, <1>5
  <2> QED
    BY <1>7, <2>1 DEF Reordered, rest
<1> QED
  BY <1>8, <1>9 DEF rest

LEMMA SelStarts ==
  ASSUME SelInit
  PROVE  SelInd
<1>1. ShapeFits
  <2>1. 1 \in 1 .. LastPage
    BY LastPageFits
  <2>2. Permutes(colOrder)
    BY SavedOrdersPermute DEF SelInit
  <2> QED
    BY <2>1, <2>2 DEF SelInit, ShapeFits
<1>2. Indices({}, Shown, colOrder) = None
  BY DEF Indices
<1> QED
  BY <1>1, <1>2 DEF SelInit, SelInd, CellsFit, FlagsFit, Told, ArmedWithThePress,
     SwallowsItsOwn, CopiesAgree

-----------------------------------------------------------------------------
(* The actions *)

\* A press, and where it may be.
LEMMA PressesFit ==
  ASSUME NEW t \in Places, NEW shift \in BOOLEAN, NEW edge \in BOOLEAN, Presses(t, shift, edge)
  PROVE  /\ press = None /\ carrying = None /\ press' \in HeldButton /\ press' # None
         /\ press'.at = t /\ press'.shift = shift /\ press'.edge = edge
BY SelectionAssumption DEF Presses, HeldButton

LEMMA ShapeKept ==
  ASSUME SelInd, UNCHANGED shape
  PROVE  ShapeFits' /\ Shown' = Shown /\ colOrder' = colOrder
BY DEF SelInd, shape, ShapeFits, Shown

\* A step that leaves the selected cells and what the host has of them.
LEMMA CopiesKept ==
  ASSUME SelInd, UNCHANGED <<shape, selected, lit, turned, hostSelection>>,
         anchor' = anchor \/ anchor' \in DataCells, dragging' = None => dragging = None
  PROVE  ShapeFits' /\ CellsFit' /\ hostSelection' \in Told /\ CopiesAgree' /\ turned' \in BOOLEAN
<1>1. ShapeFits' /\ Shown' = Shown /\ colOrder' = colOrder
  BY ShapeKept
<1>2. UNCHANGED <<selected, lit, turned, hostSelection>> /\ hostSelection' \in Told
  BY DEF SelInd
<1>3. CellsFit'
  BY <1>2 DEF SelInd, CellsFit
<1>4. CopiesAgree'
  BY <1>1, <1>2 DEF SelInd, CopiesAgree
<1> QED
  BY <1>1, <1>2, <1>3, <1>4 DEF SelInd, FlagsFit

\* One that selects, and tells the host, or is part of a drag.
LEMMA CopiesChosen ==
  ASSUME SelInd, UNCHANGED shape, SelectsSome,
         Posts \/ (UNCHANGED hostSelection /\ dragging' # None)
  PROVE  ShapeFits' /\ CellsFit' /\ hostSelection' \in Told /\ CopiesAgree' /\ turned' \in BOOLEAN
<1>1. ShapeFits'
  BY ShapeKept
<1>2. CellsFit' /\ hostSelection' \in Told
  BY <1>1, CellsKept, HostKept DEF SelInd
<1>3. lit' = selected' /\ turned' = FALSE
  BY DEF SelectsSome, Selects
<1>4. CopiesAgree'
  BY <1>3 DEF CopiesAgree, Posts
<1> QED
  BY <1>1, <1>2, <1>3, <1>4

\* One that ends a drag.
LEMMA CopiesPosted ==
  ASSUME SelInd, UNCHANGED <<shape, selection>>, DragPosts
  PROVE  ShapeFits' /\ CellsFit' /\ hostSelection' \in Told /\ CopiesAgree' /\ turned' \in BOOLEAN
<1>1. CASE dragging = None
  BY <1>1, CopiesKept DEF DragPosts, selection
<1>2. CASE dragging # None
  <2>1. ShapeFits' /\ Posts
    BY <1>2, ShapeKept DEF DragPosts
  <2>2. CellsFit' /\ hostSelection' \in Told
    BY <2>1, CellsKept, HostKept DEF SelInd
  <2>3. UNCHANGED <<selected, lit, turned>>
    BY DEF selection
  <2>4. CopiesAgree'
    BY <2>1, <2>3 DEF CopiesAgree, Posts, SelInd
  <2> QED
    BY <2>1, <2>2, <2>3, <2>4 DEF SelInd, FlagsFit
<1> QED
  BY <1>1, <1>2

LEMMA PressEdgeStep ==
  ASSUME SelInd, NEW c \in Columns, PressEdge(c)
  PROVE  SelInd'
<1> USE DEF SelInd
<1>1. <<0, c>> \in Places /\ <<0, c>>[1] = 0
  BY SelectionAssumption DEF Places, Columns
<1>2. /\ press = None /\ press' \in HeldButton /\ press' # None
      /\ press'.at = <<0, c>> /\ press'.edge = TRUE
  BY <1>1, PressesFit DEF PressEdge
<1>3. /\ swallow' = TRUE /\ UNCHANGED <<shape, selection, dragging, armedCol, headerSelect,
            cornerSelect, keepRow, carrying, hostSelection, strayed>>
  BY DEF PressEdge
<1>4. ShapeFits' /\ CellsFit' /\ hostSelection' \in Told /\ CopiesAgree' /\ turned' \in BOOLEAN
  BY <1>3, CopiesKept DEF selection
<1>5. FlagsFit'
  BY <1>2, <1>3, <1>4 DEF FlagsFit
<1>6. ArmedWithThePress' /\ SwallowsItsOwn'
  BY <1>1, <1>2, <1>3 DEF ArmedWithThePress, SwallowsItsOwn
<1> QED
  BY <1>4, <1>5, <1>6

LEMMA PressHeaderStep ==
  ASSUME SelInd, NEW c \in 0 .. ColCount, NEW shift \in BOOLEAN, PressHeader(c, shift)
  PROVE  SelInd'
<1> USE DEF SelInd
<1>1. <<0, c>> \in Places /\ <<0, c>>[1] = 0
  BY SelectionAssumption DEF Places
<1>2. /\ press = None /\ press' \in HeldButton /\ press' # None
      /\ press'.at = <<0, c>> /\ press'.shift = shift
  BY <1>1, PressesFit DEF PressHeader
<1>3. UNCHANGED <<shape, selection, dragging, keepRow, carrying, hostSelection, strayed>>
  BY DEF PressHeader
<1>4. \/ shift /\ swallow' = TRUE /\ c = 0 /\ cornerSelect' = TRUE /\ UNCHANGED <<armedCol, headerSelect>>
      \/ /\ shift /\ swallow' = TRUE /\ c \in Columns /\ armedCol' = c /\ headerSelect' = c
         /\ UNCHANGED cornerSelect
      \/ ~shift /\ UNCHANGED <<armedCol, headerSelect, cornerSelect, swallow>>
  BY SelectionAssumption DEF PressHeader, Columns
<1>5. ShapeFits' /\ CellsFit' /\ hostSelection' \in Told /\ CopiesAgree' /\ turned' \in BOOLEAN
  BY <1>3, CopiesKept DEF selection
<1>6. FlagsFit'
  BY <1>2, <1>3, <1>4, <1>5 DEF FlagsFit
<1>7. ArmedWithThePress' /\ SwallowsItsOwn'
  BY <1>1, <1>2, <1>3, <1>4 DEF ArmedWithThePress, SwallowsItsOwn
<1> QED
  BY <1>5, <1>6, <1>7

LEMMA RowSelectable ==
  ASSUME NEW r \in 1 .. PageSize
  PROVE  Selectable(Row(r), <<r, 1>>)
BY SelectionAssumption DEF Selectable, Row, DataCells, Columns

LEMMA PressGutterStep ==
  ASSUME SelInd, NEW r \in 1 .. PageSize, NEW shift \in BOOLEAN, PressGutter(r, shift)
  PROVE  SelInd'
<1> USE DEF SelInd
<1>1. <<r, 0>> \in Places /\ <<r, 0>>[1] = r /\ r # 0
  BY SelectionAssumption DEF Places
<1>2. press = None /\ press' \in HeldButton /\ press' # None /\ press'.at = <<r, 0>>
  BY <1>1, PressesFit DEF PressGutter
<1>3. UNCHANGED <<shape, armedCol, headerSelect, cornerSelect, swallow, carrying, hostSelection, strayed>>
  BY DEF PressGutter
<1>4. \/ UNCHANGED <<selection, keepRow>> /\ (UNCHANGED dragging \/ dragging' = "row")
      \/ Selects(Row(r), <<r, 1>>) /\ dragging' = "row" /\ keepRow' = TRUE
  BY DEF PressGutter
<1>5. "row" \in DragKinds /\ "row" # None
  BY SelectionAssumption DEF DragKinds
<1>6. ShapeFits' /\ CellsFit' /\ hostSelection' \in Told /\ CopiesAgree' /\ turned' \in BOOLEAN
  <2>1. CASE UNCHANGED selection /\ (UNCHANGED dragging \/ dragging' = "row")
    BY <1>3, <1>5, <2>1, CopiesKept DEF selection
  <2>2. CASE Selects(Row(r), <<r, 1>>) /\ dragging' = "row"
    <3>1. SelectsSome
      BY <2>2, RowSelectable DEF SelectsSome
    <3> QED
      BY <1>3, <1>5, <2>2, <3>1, CopiesChosen
  <2> QED
    BY <1>4, <2>1, <2>2
<1>7. FlagsFit'
  BY <1>2, <1>3, <1>4, <1>5, <1>6 DEF FlagsFit
<1>8. ArmedWithThePress' /\ SwallowsItsOwn'
  BY <1>1, <1>2, <1>3 DEF ArmedWithThePress, SwallowsItsOwn
<1> QED
  BY <1>6, <1>7, <1>8

LEMMA PressCellStep ==
  ASSUME SelInd, NEW t \in DataCells, NEW shift \in BOOLEAN, PressCell(t, shift)
  PROVE  SelInd'
<1> USE DEF SelInd
<1>1. t \in Places /\ t[1] # 0
  BY SelectionAssumption DEF Places, DataCells, Columns
<1>2. press = None /\ press' \in HeldButton /\ press' # None /\ press'.at = t
  BY <1>1, PressesFit DEF PressCell
<1>3. UNCHANGED <<shape, selected, lit, turned, armedCol, headerSelect, cornerSelect, swallow,
                  keepRow, carrying, hostSelection, strayed>>
  BY DEF PressCell, armed
<1>4. /\ anchor' = anchor \/ anchor' = t
      /\ dragging' = dragging \/ dragging' = "cell"
  BY DEF PressCell
<1>5. "cell" \in DragKinds /\ "cell" # None
  BY SelectionAssumption DEF DragKinds
<1>6. ShapeFits' /\ CellsFit' /\ hostSelection' \in Told /\ CopiesAgree' /\ turned' \in BOOLEAN
  BY <1>3, <1>4, <1>5, CopiesKept
<1>7. FlagsFit'
  BY <1>2, <1>3, <1>4, <1>5, <1>6 DEF FlagsFit
<1>8. ArmedWithThePress' /\ SwallowsItsOwn'
  BY <1>1, <1>2, <1>3 DEF ArmedWithThePress, SwallowsItsOwn
<1> QED
  BY <1>6, <1>7, <1>8

\* A place of the grid that the mouse is at.
LEMMA PlaceFits ==
  ASSUME SelInd, NEW t \in Places
  PROVE  /\ Height \in 1 .. PageSize /\ t[2] \in 0 .. ColCount
         /\ t[2] # 0 => t[2] \in Columns
         /\ IsCell(t) => t[1] \in 1 .. PageSize
         /\ Max({t[2], 1}) \in Columns
<1>1. Height \in 1 .. PageSize /\ ColCount \in Nat \ {0} /\ PageSize \in Nat \ {0}
  BY ShownFits, SelectionAssumption DEF SelInd
<1>2. t[2] \in 0 .. ColCount
  BY <1>1 DEF Places, Outside
<1>3. IsCell(t) => t[1] \in 1 .. PageSize
  BY <1>1 DEF IsCell
<1>4. Max({t[2], 1}) = IF t[2] >= 1 THEN t[2] ELSE 1
  BY <1>2, MaxOfTwo
<1>5. (t[2] # 0 => t[2] \in Columns) /\ 1 \in Columns
  BY <1>1, <1>2 DEF Columns
<1>6. t[2] >= 1 => t[2] # 0
  BY <1>2
<1>7. Max({t[2], 1}) \in Columns
  BY <1>4, <1>5, <1>6
<1> QED
  BY <1>1, <1>2, <1>3, <1>5, <1>7

LEMMA AnchorFits ==
  ASSUME SelInd, anchor # None
  PROVE  anchor \in DataCells /\ anchor[1] \in 1 .. PageSize /\ anchor[2] \in Columns
BY DEF SelInd, CellsFit, DataCells

LEMMA RectSelectable ==
  ASSUME NEW a \in DataCells, NEW r1 \in 1 .. PageSize, NEW r2 \in 1 .. PageSize,
         NEW c1 \in Columns, NEW c2 \in Columns, Selects(Rect(r1, c1, r2, c2), a)
  PROVE  SelectsSome
BY DEF SelectsSome, Selectable

LEMMA GridFits ==
  1 \in Columns /\ ColCount \in Columns /\ 1 \in 1 .. PageSize
  /\ \A r \in 1 .. PageSize, c \in Columns : <<r, c>> \in DataCells
BY SelectionAssumption DEF Columns, DataCells

LEMMA ArmedMoveStep ==
  ASSUME SelInd, NEW t \in Places, ArmedMove(t)
  PROVE  SelInd'
<1> USE DEF SelInd
<1> DEFINE a == IF anchor = None \/ anchor[1] # 1 THEN <<1, armedCol>> ELSE anchor
           c == IF OnGrid(t) /\ t[2] # 0 THEN t[2] ELSE armedCol
<1>1. /\ press # None /\ armedCol # None /\ press' = press
      /\ Selects(Rect(1, a[2], Height, c), a) /\ dragging' = "col"
      /\ armedCol' = None /\ headerSelect' = None /\ swallow' = TRUE
      /\ UNCHANGED <<shape, cornerSelect, keepRow, carrying, hostSelection, strayed>>
  BY DEF ArmedMove
<1>2. armedCol \in Columns /\ Height \in 1 .. PageSize
  BY <1>1, PlaceFits DEF FlagsFit
<1>3. a \in DataCells /\ a[2] \in Columns
  <2>1. CASE anchor = None \/ anchor[1] # 1
    <3>1. a = <<1, armedCol>>
      BY <2>1
    <3> QED
      BY <1>2, <3>1, GridFits
  <2>2. CASE ~(anchor = None \/ anchor[1] # 1)
    BY <2>2, AnchorFits
  <2> QED
    BY <2>1, <2>2
<1>4. c \in Columns
  BY <1>2, PlaceFits
<1> HIDE DEF a, c
<1>5. SelectsSome
  BY <1>1, <1>2, <1>3, <1>4, GridFits, RectSelectable
<1>6. "col" \in DragKinds /\ "col" # None
  BY SelectionAssumption DEF DragKinds
<1>7. ShapeFits' /\ CellsFit' /\ hostSelection' \in Told /\ CopiesAgree' /\ turned' \in BOOLEAN
  BY <1>1, <1>5, <1>6, CopiesChosen
<1>8. FlagsFit'
  BY <1>1, <1>6, <1>7 DEF FlagsFit
<1>9. ArmedWithThePress' /\ SwallowsItsOwn'
  BY <1>1 DEF ArmedWithThePress, SwallowsItsOwn
<1> QED
  BY <1>7, <1>8, <1>9

LEMMA DragMoveStep ==
  ASSUME SelInd, NEW t \in Places, DragMove(t)
  PROVE  SelInd'
<1> USE DEF SelInd
<1>1. /\ press # None /\ dragging # None /\ anchor # None
      /\ UNCHANGED <<shape, dragging, press, armedCol, headerSelect, cornerSelect, swallow,
                     keepRow, carrying, hostSelection, strayed>>
  BY DEF DragMove, armed
<1>2. anchor \in DataCells /\ anchor[1] \in 1 .. PageSize /\ anchor[2] \in Columns
  BY <1>1, AnchorFits
<1>3. SelectsSome
  <2>1. CASE t[2] # 0 /\ Selects(Rect(1, anchor[2], Height, t[2]), anchor)
    BY <1>2, <2>1, PlaceFits, GridFits, RectSelectable
  <2>2. CASE IsCell(t) /\ Selects(Rect(anchor[1], 1, t[1], ColCount), anchor)
    BY <1>2, <2>2, PlaceFits, GridFits, RectSelectable
  <2>3. CASE IsCell(t) /\ Selects(Rect(anchor[1], anchor[2], t[1], Max({t[2], 1})), anchor)
    BY <1>2, <2>3, PlaceFits, RectSelectable
  <2> QED
    BY <2>1, <2>2, <2>3 DEF DragMove
<1>4. ShapeFits' /\ CellsFit' /\ hostSelection' \in Told /\ CopiesAgree' /\ turned' \in BOOLEAN
  BY <1>1, <1>3, CopiesChosen
<1>5. FlagsFit'
  BY <1>1, <1>4 DEF FlagsFit
<1>6. ArmedWithThePress' /\ SwallowsItsOwn'
  BY <1>1 DEF ArmedWithThePress, SwallowsItsOwn
<1> QED
  BY <1>4, <1>5, <1>6

-----------------------------------------------------------------------------
LEMMA ReleaseElsewhereStep ==
  ASSUME SelInd, NEW t \in Places, ReleaseElsewhere(t)
  PROVE  SelInd'
<1> USE DEF SelInd
<1>1. /\ press' = None /\ dragging' = None /\ armedCol' = None /\ DragPosts
      /\ UNCHANGED <<shape, selection, headerSelect, cornerSelect, swallow, keepRow, carrying>>
      /\ strayed' = (strayed \/ swallow)
  BY DEF ReleaseElsewhere, Releases, DragEnds
<1>2. ShapeFits' /\ CellsFit' /\ hostSelection' \in Told /\ CopiesAgree' /\ turned' \in BOOLEAN
  BY <1>1, CopiesPosted
<1>3. strayed' \in BOOLEAN /\ (~strayed' => ~strayed /\ ~swallow)
  BY <1>1
<1>4. FlagsFit'
  BY <1>1, <1>2, <1>3 DEF FlagsFit
<1>5. ArmedWithThePress' /\ SwallowsItsOwn'
  BY <1>1, <1>3 DEF ArmedWithThePress, SwallowsItsOwn
<1> QED
  BY <1>2, <1>4, <1>5

LEMMA SelectsAllSelects ==
  ASSUME SelInd, SelectsAll
  PROVE  SelectsSome
<1>1. CASE Selects({}, None)
  BY <1>1 DEF SelectsSome, Selectable
<1>2. CASE Selects(Rect(1, 1, Height, ColCount), <<1, 1>>)
  BY <1>2, GridFits, ShownFits, RectSelectable DEF SelInd
<1> QED
  BY <1>1, <1>2 DEF SelectsAll

LEMMA SelectsHeaderSelects ==
  ASSUME SelInd, NEW c \in Columns, SelectsHeader(c)
  PROVE  SelectsSome
<1>1. CASE Selects({}, None)
  BY <1>1 DEF SelectsSome, Selectable
<1>2. CASE anchor # None /\ Selects(Rect(1, anchor[2], Height, c), anchor)
  BY <1>2, AnchorFits, GridFits, ShownFits, RectSelectable DEF SelInd
<1>3. CASE Selects(Rect(1, c, Height, c), <<1, c>>)
  BY <1>3, GridFits, ShownFits, RectSelectable DEF SelInd
<1> QED
  BY <1>1, <1>2, <1>3 DEF SelectsHeader

LEMMA ReleaseSwallowedStep ==
  ASSUME SelInd, NEW t \in Places, ReleaseSwallowed(t)
  PROVE  SelInd'
<1> USE DEF SelInd
<1>1. /\ press' = None /\ dragging' = None /\ armedCol' = None
      /\ swallow' = FALSE /\ UNCHANGED <<shape, keepRow, strayed, carrying>>
  BY DEF ReleaseSwallowed, Releases, DragEnds
<1>2. \/ cornerSelect /\ SelectsAll /\ cornerSelect' = FALSE /\ headerSelect' = headerSelect /\ Posts
      \/ /\ ~cornerSelect /\ headerSelect # None /\ SelectsHeader(headerSelect)
         /\ headerSelect' = None /\ cornerSelect' = cornerSelect /\ Posts
      \/ /\ ~cornerSelect /\ headerSelect' = None /\ cornerSelect' = cornerSelect
         /\ UNCHANGED selection /\ DragPosts
  BY DEF ReleaseSwallowed
<1>3. ShapeFits' /\ CellsFit' /\ hostSelection' \in Told /\ CopiesAgree' /\ turned' \in BOOLEAN
  <2>1. CASE SelectsAll /\ Posts
    BY <1>1, <2>1, SelectsAllSelects, CopiesChosen
  <2>2. CASE headerSelect # None /\ SelectsHeader(headerSelect) /\ Posts
    <3>1. headerSelect \in Columns
      BY <2>2 DEF FlagsFit
    <3> QED
      BY <1>1, <2>2, <3>1, SelectsHeaderSelects, CopiesChosen
  <2>3. CASE UNCHANGED selection /\ DragPosts
    BY <1>1, <2>3, CopiesPosted
  <2> QED
    BY <1>2, <2>1, <2>2, <2>3
<1>4. /\ headerSelect' \in Columns \union {None} /\ cornerSelect' \in BOOLEAN
      /\ ~strayed => headerSelect' = None /\ ~cornerSelect'
  <2>1. headerSelect \in Columns \union {None} /\ cornerSelect \in BOOLEAN
    BY DEF FlagsFit
  <2>2. ~strayed => (cornerSelect => headerSelect = None)
    BY DEF SwallowsItsOwn
  <2>3. CASE cornerSelect /\ cornerSelect' = FALSE /\ headerSelect' = headerSelect
    BY <2>1, <2>2, <2>3
  <2>4. CASE ~cornerSelect /\ headerSelect' = None /\ cornerSelect' = cornerSelect
    BY <2>1, <2>4
  <2> QED
    BY <1>2, <2>3, <2>4
<1>5. FlagsFit'
  BY <1>1, <1>3, <1>4 DEF FlagsFit
<1>6. ArmedWithThePress' /\ SwallowsItsOwn'
  BY <1>1, <1>4 DEF ArmedWithThePress, SwallowsItsOwn
<1> QED
  BY <1>3, <1>5, <1>6

\* A click releases the button, and disarms what its press armed.
LEMMA ClickFits ==
  ASSUME SelInd, NEW t, Clicks(t), turned' \in BOOLEAN, keepRow' \in BOOLEAN
  PROVE  FlagsFit' /\ ArmedWithThePress' /\ SwallowsItsOwn'
<1>1. /\ press' = None /\ dragging' = None /\ armedCol' = None /\ ~swallow
      /\ UNCHANGED <<headerSelect, cornerSelect, swallow, strayed, carrying>>
  BY DEF Clicks, Releases, DragEnds
<1>2. FlagsFit'
  BY <1>1 DEF SelInd, FlagsFit
<1> QED
  BY <1>1, <1>2 DEF SelInd, ArmedWithThePress, SwallowsItsOwn

\* The selection is dropped when what it names changes places.
LEMMA CopiesCleared ==
  ASSUME SelInd, ShapeFits', Clears, dragging' = None => dragging = None
  PROVE  CellsFit' /\ hostSelection' \in Told /\ CopiesAgree' /\ turned' \in BOOLEAN
<1>1. CASE selected # {} \/ anchor # None
  <2>1. Selects({}, None) /\ Posts
    BY <1>1 DEF Clears
  <2>2. SelectsSome
    BY <2>1 DEF SelectsSome, Selectable
  <2>3. CellsFit' /\ hostSelection' \in Told
    BY <2>1, <2>2, CellsKept, HostKept DEF SelInd
  <2> QED
    BY <2>1, <2>3 DEF Selects, Posts, CopiesAgree
<1>2. CASE selected = {} /\ anchor = None
  <2>1. Redraws /\ UNCHANGED <<turned, hostSelection>>
    BY <1>2 DEF Clears
  <2>2. CellsFit' /\ hostSelection' \in Told
    BY <2>1, CellsKept DEF SelInd
  <2>3. lit' = {} /\ selected' = {}
    BY <1>2, <2>1 DEF Redraws
  <2>4. Indices({}, Shown, colOrder) = None /\ Indices({}, Shown', colOrder') = None
    BY DEF Indices
  <2> QED
    BY <1>2, <2>1, <2>2, <2>3, <2>4 DEF SelInd, CopiesAgree, FlagsFit
<1> QED
  BY <1>1, <1>2

LEMMA ClickHeaderStep ==
  ASSUME SelInd, NEW t \in Places, ClickHeader(t)
  PROVE  SelInd'
<1> USE DEF SelInd
<1>1. /\ Clicks(t) /\ t[1] = 0 /\ down' = ~down /\ page' \in {1, page}
      /\ UNCHANGED <<colOrder, keepRow>> /\ Clears
  BY DEF ClickHeader
<1>2. press # None /\ press.at[1] = 0 /\ ~swallow
  BY <1>1 DEF Clicks, Releases
<1>3. dragging = None
  BY <1>2 DEF ArmedWithThePress
<1>4. ShapeFits'
  BY <1>1, LastPageFits DEF ShapeFits
<1>5. CellsFit' /\ hostSelection' \in Told /\ CopiesAgree' /\ turned' \in BOOLEAN
  BY <1>1, <1>3, <1>4, CopiesCleared
<1>6. FlagsFit' /\ ArmedWithThePress' /\ SwallowsItsOwn'
  <2>1. keepRow' \in BOOLEAN
    BY <1>1 DEF FlagsFit
  <2> QED
    BY <1>1, <1>5, <2>1, ClickFits
<1> QED
  BY <1>4, <1>5, <1>6

\* The click of a cell or a gutter: it selects, and tells the host.
LEMMA ClickSelectsStep ==
  ASSUME SelInd, NEW t, Clicks(t), UNCHANGED shape, keepRow' \in BOOLEAN, SelectsSome, Posts
  PROVE  SelInd'
<1>1. ShapeFits' /\ CellsFit' /\ hostSelection' \in Told /\ CopiesAgree' /\ turned' \in BOOLEAN
  BY CopiesChosen
<1>2. FlagsFit' /\ ArmedWithThePress' /\ SwallowsItsOwn'
  BY <1>1, ClickFits
<1> QED
  BY <1>1, <1>2 DEF SelInd

LEMMA ClickGutterStep ==
  ASSUME SelInd, NEW t \in Places, ClickGutter(t)
  PROVE  SelInd'
<1>1. Clicks(t) /\ IsCell(t) /\ UNCHANGED shape /\ Posts /\ (keepRow' = keepRow \/ keepRow' = FALSE)
  BY DEF ClickGutter
<1>2. keepRow' \in BOOLEAN
  BY <1>1 DEF SelInd, FlagsFit
<1>3. t[1] \in 1 .. PageSize
  BY <1>1, PlaceFits
<1>4. SelectsSome
  <2>1. CASE anchor # None /\ Selects(Rect(anchor[1], 1, t[1], ColCount), anchor)
    BY <1>3, <2>1, AnchorFits, GridFits, RectSelectable
  <2>2. CASE Selects({}, None)
    BY <2>2 DEF SelectsSome, Selectable
  <2>3. CASE Selects(Row(t[1]), <<t[1], 1>>)
    BY <1>3, <2>3, RowSelectable DEF SelectsSome
  <2> QED
    BY <2>1, <2>2, <2>3 DEF ClickGutter
<1> QED
  BY <1>1, <1>2, <1>4, ClickSelectsStep

LEMMA OneCell ==
  ASSUME NEW t \in DataCells
  PROVE  {t} = Rect(t[1], t[2], t[1], t[2])
<1>1. t = <<t[1], t[2]>> /\ t[1] \in Nat /\ t[2] \in Nat
  BY SelectionAssumption DEF DataCells, Columns
<1>2. Between(t[1], t[1]) = {t[1]} /\ Between(t[2], t[2]) = {t[2]}
  <2>1. ASSUME NEW n \in Nat PROVE Between(n, n) = {n}
    BY BetweenIsAnInterval
  <2> QED
    BY <1>1, <2>1
<1> QED
  BY <1>1, <1>2 DEF Rect

LEMMA ClickCellStep ==
  ASSUME SelInd, NEW t \in Places, ClickCell(t)
  PROVE  SelInd'
<1>1. Clicks(t) /\ IsCell(t) /\ t[2] # 0 /\ UNCHANGED shape /\ Posts /\ keepRow' = keepRow
  BY DEF ClickCell
<1>2. keepRow' \in BOOLEAN
  BY <1>1 DEF SelInd, FlagsFit
<1>3. t[1] \in 1 .. PageSize /\ t[2] \in Columns
  BY <1>1, PlaceFits
<1>4. t \in DataCells
  BY <1>3, SelectionAssumption DEF Places, Outside, DataCells
<1>5. SelectsSome
  <2>1. CASE anchor # None /\ Selects(Rect(anchor[1], anchor[2], t[1], t[2]), anchor)
    BY <1>3, <2>1, AnchorFits, RectSelectable
  <2>2. CASE Selects({}, None)
    BY <2>2 DEF SelectsSome, Selectable
  <2>3. CASE Selects({t}, t)
    BY <1>3, <1>4, <2>3, OneCell, RectSelectable
  <2> QED
    BY <2>1, <2>2, <2>3 DEF ClickCell, ClickSelects
<1> QED
  BY <1>1, <1>2, <1>5, ClickSelectsStep

-----------------------------------------------------------------------------
LEMMA TurnPageStep ==
  ASSUME SelInd, NEW p \in 1 .. LastPage, TurnPage(p)
  PROVE  SelInd'
<1> USE DEF SelInd
<1>1. /\ press = None /\ page' = p /\ Redraws
      /\ turned' = (turned \/ selected # {} \/ anchor # None)
      /\ UNCHANGED <<down, colOrder, dragging, press, armedCol, headerSelect, cornerSelect,
                     swallow, keepRow, carrying, hostSelection, strayed>>
  BY DEF TurnPage, armed
<1>2. turned' \in BOOLEAN /\ (~turned' => ~turned /\ selected = {})
  BY <1>1
<1>3. ShapeFits'
  BY <1>1 DEF ShapeFits
<1>4. CellsFit'
  BY <1>1, CellsKept
<1>5. dragging = None
  BY <1>1 DEF ArmedWithThePress
<1>6. CopiesAgree'
  <2>1. Indices({}, Shown, colOrder) = None /\ Indices({}, Shown', colOrder') = None
    BY DEF Indices
  <2>2. lit' = {} /\ selected' = selected
    BY <1>1 DEF Redraws
  <2> QED
    BY <1>1, <1>2, <1>5, <2>1, <2>2 DEF CopiesAgree
<1>7. FlagsFit' /\ hostSelection' \in Told
  BY <1>1, <1>2 DEF FlagsFit
<1>8. ArmedWithThePress' /\ SwallowsItsOwn'
  BY <1>1 DEF ArmedWithThePress, SwallowsItsOwn
<1> QED
  BY <1>3, <1>4, <1>6, <1>7, <1>8

LEMMA StartDragStep ==
  ASSUME SelInd, StartDrag
  PROVE  SelInd'
<1> USE DEF SelInd
<1>1. /\ press # None /\ dragging = None /\ ~press.shift /\ ~press.edge /\ press' = None
      /\ UNCHANGED <<shape, selection, dragging, armedCol, headerSelect, cornerSelect,
                     swallow, keepRow, hostSelection, strayed>>
  BY DEF StartDrag, armed
<1>2. press \in HeldButton /\ press.at \in Places
  BY <1>1 DEF FlagsFit, HeldButton
<1>3. carrying' \in {0} \union Columns
  <2>1. press.at[2] # 0 => press.at[2] \in Columns
    BY <1>2, PlaceFits
  <2>2. \A c \in Columns : colOrder[c] \in Columns
    BY DEF ShapeFits, Permutes, Columns
  <2>3. carrying' = 0 \/ (press.at[2] # 0 /\ carrying' = colOrder[press.at[2]])
    BY DEF StartDrag
  <2> QED
    BY <2>1, <2>2, <2>3
<1>4. ShapeFits' /\ CellsFit' /\ hostSelection' \in Told /\ CopiesAgree' /\ turned' \in BOOLEAN
  BY <1>1, CopiesKept DEF selection
<1>5. FlagsFit'
  BY <1>1, <1>3, <1>4 DEF FlagsFit
<1>6. ArmedWithThePress' /\ SwallowsItsOwn'
  BY <1>1 DEF ArmedWithThePress, SwallowsItsOwn
<1> QED
  BY <1>4, <1>5, <1>6

LEMMA FlagsKept ==
  ASSUME SelInd, UNCHANGED <<dragging, press, armed, strayed>>, turned' \in BOOLEAN,
         carrying' \in {0, None} \union Columns
  PROVE  FlagsFit' /\ ArmedWithThePress' /\ SwallowsItsOwn'
<1>1. UNCHANGED <<dragging, press, armedCol, headerSelect, cornerSelect, swallow, keepRow, strayed>>
  BY DEF armed
<1>2. FlagsFit'
  BY <1>1 DEF SelInd, FlagsFit
<1> QED
  BY <1>1, <1>2 DEF SelInd, ArmedWithThePress, SwallowsItsOwn

LEMMA EndDragStep ==
  ASSUME SelInd, EndDrag
  PROVE  SelInd'
<1>1. ShapeFits' /\ CellsFit' /\ hostSelection' \in Told /\ CopiesAgree' /\ turned' \in BOOLEAN
  BY CopiesKept DEF EndDrag, selection
<1>2. FlagsFit' /\ ArmedWithThePress' /\ SwallowsItsOwn'
  BY <1>1, FlagsKept DEF EndDrag
<1> QED
  BY <1>1, <1>2 DEF SelInd

LEMMA DropColumnStep ==
  ASSUME SelInd, NEW tgt \in Columns, NEW after \in BOOLEAN, DropColumn(tgt, after)
  PROVE  SelInd'
<1> USE DEF SelInd
<1>1. carrying \in Columns /\ carrying' = None /\ UNCHANGED <<dragging, press, armed, strayed>>
  BY DEF DropColumn
<1>2. ShapeFits' /\ CellsFit' /\ hostSelection' \in Told /\ CopiesAgree' /\ turned' \in BOOLEAN
  <2>1. CASE tgt = carrying
    BY <1>1, <2>1, CopiesKept DEF DropColumn, selection
  <2>2. CASE tgt # carrying
    <3> DEFINE i == CHOOSE k \in DOMAIN ColumnsWithout(carrying) : ColumnsWithout(carrying)[k] = tgt
    <3>1. /\ colOrder' = Reordered(carrying, IF after THEN i + 1 ELSE i)
          /\ UNCHANGED <<down, page>>
          /\ IF selected # {} \/ anchor # None THEN Clears ELSE UNCHANGED <<selection, hostSelection>>
      BY <2>2 DEF DropColumn
    <3>2. /\ \E k \in DOMAIN ColumnsWithout(carrying) : ColumnsWithout(carrying)[k] = tgt
          /\ \A k \in DOMAIN ColumnsWithout(carrying) :
                Permutes(Reordered(carrying, k)) /\ Permutes(Reordered(carrying, k + 1))
      BY <1>1, <2>2, ReorderingPermutes DEF ShapeFits
    <3>3. i \in DOMAIN ColumnsWithout(carrying)
      BY <3>2
    <3> HIDE DEF i
    <3>4. Permutes(colOrder')
      <4>1. CASE after
        BY <3>1, <3>2, <3>3, <4>1
      <4>2. CASE ~after
        BY <3>1, <3>2, <3>3, <4>2
      <4> QED
        BY <4>1, <4>2
    <3>5. ShapeFits'
      BY <3>1, <3>4 DEF ShapeFits
    <3>6. CASE selected # {} \/ anchor # None
      BY <1>1, <3>1, <3>5, <3>6, CopiesCleared
    <3>7. CASE selected = {} /\ anchor = None
      <4>1. UNCHANGED <<selected, anchor, lit, turned, hostSelection>>
        BY <3>1, <3>7 DEF selection
      <4>2. Indices({}, Shown, colOrder) = None /\ Indices({}, Shown', colOrder') = None
        BY DEF Indices
      <4>3. CopiesAgree'
        BY <1>1, <3>7, <4>1, <4>2 DEF CopiesAgree
      <4> QED
        BY <3>5, <4>1, <4>3 DEF CellsFit, FlagsFit
    <3> QED
      BY <3>6, <3>7
  <2> QED
    BY <2>1, <2>2
<1>3. FlagsFit' /\ ArmedWithThePress' /\ SwallowsItsOwn'
  BY <1>1, <1>2, FlagsKept
<1> QED
  BY <1>2, <1>3

LEMMA SelStep ==
  ASSUME SelInd, [SelNext]_selVars
  PROVE  SelInd'
<1>1. CASE \E c \in Columns : PressEdge(c)
  BY <1>1, PressEdgeStep
<1>2. CASE \E c \in 0 .. ColCount, shift \in BOOLEAN : PressHeader(c, shift)
  BY <1>2, PressHeaderStep
<1>3. CASE \E r \in 1 .. PageSize, shift \in BOOLEAN : PressGutter(r, shift)
  BY <1>3, PressGutterStep
<1>4. CASE \E t \in DataCells, shift \in BOOLEAN : PressCell(t, shift)
  BY <1>4, PressCellStep
<1>5. CASE \E t \in Places : ArmedMove(t) \/ DragMove(t)
  BY <1>5, ArmedMoveStep, DragMoveStep
<1>6. CASE \E t \in {u \in Places : u = Outside \/ OnGrid(u)} :
              ReleaseElsewhere(t) \/ ReleaseSwallowed(t) \/ ClickHeader(t) \/ ClickGutter(t) \/ ClickCell(t)
  BY <1>6, ReleaseElsewhereStep, ReleaseSwallowedStep, ClickHeaderStep, ClickGutterStep, ClickCellStep
<1>7. CASE \E p \in 1 .. LastPage : TurnPage(p)
  BY <1>7, TurnPageStep
<1>8. CASE StartDrag
  BY <1>8, StartDragStep
<1>9. CASE EndDrag
  BY <1>9, EndDragStep
<1>10. CASE \E c \in Columns, after \in BOOLEAN : DropColumn(c, after)
  BY <1>10, DropColumnStep
<1>11. CASE UNCHANGED selVars
  <2>1. UNCHANGED <<shape, selection, dragging, press, armed, carrying, hostSelection, strayed>>
    BY <1>11 DEF selVars
  <2>2. ShapeFits' /\ CellsFit' /\ hostSelection' \in Told /\ CopiesAgree' /\ turned' \in BOOLEAN
    BY <2>1, CopiesKept DEF selection
  <2>3. FlagsFit' /\ ArmedWithThePress' /\ SwallowsItsOwn'
    BY <2>1, <2>2, FlagsKept DEF SelInd, FlagsFit
  <2> QED
    BY <2>2, <2>3 DEF SelInd
<1> QED
  BY <1>1, <1>2, <1>3, <1>4, <1>5, <1>6, <1>7, <1>8, <1>9, <1>10, <1>11 DEF SelNext

LEMMA SelFollows ==
  ASSUME SelInd
  PROVE  SelectionIsSound
<1> USE DEF SelInd
<1>1. SelTypeOK
  BY DEF SelTypeOK, ShapeFits, Permutes, CellsFit, FlagsFit, Told
<1>2. SelectionIsRectangular
  BY RectangleSpans DEF SelectionIsRectangular, CellsFit
<1>3. SelectionAgrees
  BY DEF SelectionAgrees, CopiesAgree, ArmedWithThePress
<1>4. NothingStaysArmed
  BY DEF NothingStaysArmed, ArmedWithThePress, SwallowsItsOwn
<1> QED
  BY <1>1, <1>2, <1>3, <1>4 DEF SelectionIsSound

\* The three copies of the selection of a table agree, and no flag of its mouse handlers
\* outlives the press it was set for (applySelection, postSelectionChange, onCellDragEnd
\* and the click handlers), for tables and pages of any size.
THEOREM SelectionsAreSound == SelSpec => []SelectionIsSound
<1>1. SelInit => SelInd
  BY SelStarts
<1>2. SelInd /\ [SelNext]_selVars => SelInd'
  BY SelStep
<1>3. SelInd => SelectionIsSound
  BY SelFollows
<1> QED
  BY <1>1, <1>2, <1>3, PTL DEF SelSpec

-----------------------------------------------------------------------------
(* What a drag carries *)

\* Tables: a message that selects in table t of the result shown.
Selecting(q, i, r, t) == q[i].kind = "selection" /\ q[i].result = r /\ q[i].tab = t

\* The host has what is selected in a table, or its last message says it.
HostFollows(q, r, host, ch, t) ==
    /\ (\A i \in DOMAIN q : ~Selecting(q, i, r, t)) => host[t] = ch[t]
    /\ \A i \in DOMAIN q :
          Selecting(q, i, r, t) /\ (\A j \in DOMAIN q : j > i => ~Selecting(q, j, r, t)) =>
              q[i].choice = ch[t]

\* What is under way ends with the expression e, made for the active table.
EndsWith(q, asks, answers, cached, e) ==
    /\ \A i \in DOMAIN q : q[i].tab = e.tab /\ q[i].result = e.result
    /\ q = <<>> /\ asks # <<>> => asks[Len(asks)] = e
    /\ q = <<>> /\ asks = <<>> /\ answers # <<>> => answers[Len(answers)] = e
    /\ q = <<>> /\ asks = <<>> /\ answers = <<>> => cached \in {None, e}

Carries(q, asks, answers, active, cached, e) ==
    IF e.tab = active THEN EndsWith(q, asks, answers, cached[e.tab], e)
    ELSE cached[e.tab] \in {None, e}

DragFits ==
    /\ shownResult \in 0 .. MaxResults /\ activeTab \in Tabs
    /\ chosen \in [Tabs -> Picks] /\ hostChoice \in [Tabs -> Picks]
    /\ cachedDrag \in [Tabs -> Expression \union {None}]
    /\ toHost \in Seq(Message) /\ asking \in Seq(Expression) /\ toPage \in Seq(Expression)
    /\ refusedDrag \in BOOLEAN /\ mixed \subseteq Tabs

Room == Max({MaxUnderWay, Cardinality(Tabs)})

\* Each result shown so far asked for each of its tables at once.
DragHasRoom == UnderWay <= Room + shownResult * Cardinality(Tabs)

NoneFromAhead == \A i \in DOMAIN toHost : toHost[i].result <= shownResult

HostWillHave == \A t \in Tabs : HostFollows(toHost, shownResult, hostChoice, chosen, t)

DragsWillCarry ==
    \A t \in Tabs \ mixed : Carries(toHost, asking, toPage, activeTab, cachedDrag, Made(t, chosen[t]))

DragInd == DragFits /\ DragHasRoom /\ NoneFromAhead /\ HostWillHave /\ DragsWillCarry
-----------------------------------------------------------------------------
LEMMA NewPageAsks ==
  ASSUME NEW r \in 0 .. MaxResults
  PROVE  /\ Asked(r) \in Seq(Expression) /\ Len(Asked(r)) \in Nat
         /\ Len(Asked(r)) <= Cardinality(Tabs) /\ Cardinality(Tabs) \in Nat
         /\ \A t \in Tabs : Cardinality(Tabs) = 1 =>
               Tabs = {t} /\ Asked(r) = <<[result |-> r, tab |-> t, choice |-> Whole]>>
<1> DEFINE f == [t \in Tabs |-> [result |-> r, tab |-> t, choice |-> Whole]]
           T == {[result |-> r, tab |-> t, choice |-> Whole] : t \in Tabs}
<1>1. IsFiniteSet(Tabs) /\ Whole \in Picks /\ Cardinality(Tabs) \in Nat
  BY DragAssumption, FS_CardinalityType
<1>2. T \subseteq Expression
  BY <1>1 DEF Expression
<1>3. IsFiniteSet(T) /\ Cardinality(T) <= Cardinality(Tabs)
  <2>1. f \in Surjection(Tabs, T)
    BY DEF Surjection
  <2> QED
    BY <1>1, <2>1, FS_Surjection
<1>4. Asked(r) = SetToSeq(T)
  BY DEF Asked
<1> HIDE DEF T
<1>5. Asked(r) \in Seq(T) /\ Len(Asked(r)) = Cardinality(T)
  BY <1>3, <1>4, SetInSequence
<1>6. Asked(r) \in Seq(Expression) /\ Len(Asked(r)) \in Nat
  BY <1>2, <1>5, LenProperties
<1>7. ASSUME NEW t \in Tabs, Cardinality(Tabs) = 1
      PROVE  Tabs = {t} /\ Asked(r) = <<[result |-> r, tab |-> t, choice |-> Whole]>>
  <2>1. PICK x : Tabs = {x}
    BY <1>1, <1>7, FS_Singleton
  <2>2. Tabs = {t}
    BY <2>1
  <2>3. T = {[result |-> r, tab |-> t, choice |-> Whole]}
    BY <2>2 DEF T
  <2>4. Cardinality(T) = 1
    BY <2>3, FS_Singleton
  <2>5. Len(Asked(r)) = 1 /\ Asked(r)[1] \in T
    BY <1>5, <2>4, ElementOfSeq
  <2>6. Asked(r) = <<Asked(r)[1]>>
    BY <1>5, <2>5
  <2> QED
    BY <2>2, <2>3, <2>5, <2>6
<1> QED
  BY <1>1, <1>3, <1>5, <1>6, <1>7

-----------------------------------------------------------------------------
(* What the host knows of a table *)

\* A message of the page is heeded when it arrives after those before it.
LEMMA SaidIsFollowed ==
  ASSUME NEW q \in Seq(Message), NEW r, NEW host, NEW ch, NEW ch2, NEW t,
         HostFollows(q, r, host, ch, t), NEW m \in Message,
         IF m.kind = "selection" /\ m.result = r /\ m.tab = t THEN ch2[t] = m.choice
         ELSE ch2[t] = ch[t]
  PROVE  HostFollows(Append(q, m), r, host, ch2, t)
<1> DEFINE z == Append(q, m)
           n == Len(q) + 1
<1>1. /\ z \in Seq(Message) /\ Len(z) = n /\ Len(q) \in Nat
      /\ \A k \in 1 .. Len(q) : z[k] = q[k]
      /\ z[n] = m /\ DOMAIN z = 1 .. n /\ DOMAIN q = 1 .. Len(q)
  BY AppendFacts, LenProperties
<1> HIDE DEF z
<1>2. \A k \in DOMAIN q : k \in DOMAIN z /\ k < n /\ (Selecting(z, k, r, t) <=> Selecting(q, k, r, t))
  BY <1>1 DEF Selecting
<1>3. n \in DOMAIN z /\ \A k \in DOMAIN z : k = n \/ k \in DOMAIN q
  BY <1>1
<1>4. Selecting(z, n, r, t) <=> m.kind = "selection" /\ m.result = r /\ m.tab = t
  BY <1>1 DEF Selecting
<1>5. CASE Selecting(z, n, r, t)
  <2>1. ch2[t] = m.choice
    BY <1>4, <1>5
  <2>2. ASSUME NEW i \in DOMAIN z, \A j \in DOMAIN z : j > i => ~Selecting(z, j, r, t)
        PROVE  i = n
    BY <1>2, <1>3, <1>5, <2>2
  <2> QED
    BY <1>1, <1>3, <1>5, <2>1, <2>2 DEF HostFollows, z
<1>6. CASE ~Selecting(z, n, r, t)
  <2>1. ch2[t] = ch[t]
    BY <1>4, <1>6
  <2>2. ASSUME \A i \in DOMAIN z : ~Selecting(z, i, r, t)
        PROVE  host[t] = ch2[t]
    BY <1>2, <2>1, <2>2 DEF HostFollows
  <2>3. ASSUME NEW i \in DOMAIN z, Selecting(z, i, r, t),
               \A j \in DOMAIN z : j > i => ~Selecting(z, j, r, t)
        PROVE  z[i].choice = ch2[t]
    <3>1. i \in DOMAIN q /\ Selecting(q, i, r, t)
      BY <1>2, <1>3, <1>6, <2>3
    <3>2. \A j \in DOMAIN q : j > i => ~Selecting(q, j, r, t)
      BY <1>2, <2>3
    <3>3. q[i].choice = ch[t]
      BY <3>1, <3>2 DEF HostFollows
    <3> QED
      BY <1>1, <2>1, <3>1, <3>3
  <2> QED
    BY <2>2, <2>3 DEF HostFollows, z
<1> QED
  BY <1>5, <1>6

LEMMA ArrivalIsFollowed ==
  ASSUME NEW q \in Seq(Message), q # <<>>, NEW r, NEW host, NEW host2, NEW ch, NEW t,
         HostFollows(q, r, host, ch, t),
         host2[t] = IF Selecting(q, 1, r, t) THEN q[1].choice ELSE host[t]
  PROVE  HostFollows(Tail(q), r, host2, ch, t)
<1> DEFINE z == Tail(q)
<1>1. /\ z \in Seq(Message) /\ Len(q) \in Nat /\ Len(q) >= 1 /\ Len(z) = Len(q) - 1
      /\ \A k \in 1 .. Len(z) : z[k] = q[k + 1] /\ k + 1 \in 1 .. Len(q)
      /\ DOMAIN z = 1 .. Len(z) /\ DOMAIN q = 1 .. Len(q) /\ 1 \in DOMAIN q
  BY TailFacts, LenProperties
<1> HIDE DEF z
<1>2. \A k \in DOMAIN z : k + 1 \in DOMAIN q /\ (Selecting(z, k, r, t) <=> Selecting(q, k + 1, r, t))
  BY <1>1 DEF Selecting
<1>3. \A k \in DOMAIN q : k = 1 \/ (k - 1 \in DOMAIN z /\ (k - 1) + 1 = k)
  BY <1>1
<1>4. ASSUME \A i \in DOMAIN z : ~Selecting(z, i, r, t)
      PROVE  host2[t] = ch[t]
  <2>1. \A k \in DOMAIN q : k # 1 => ~Selecting(q, k, r, t)
    BY <1>2, <1>3, <1>4
  <2>2. \A k \in DOMAIN q : k > 1 => k # 1
    BY <1>1
  <2>3. CASE Selecting(q, 1, r, t)
    BY <1>1, <2>1, <2>2, <2>3 DEF HostFollows
  <2>4. CASE ~Selecting(q, 1, r, t)
    BY <2>1, <2>4 DEF HostFollows
  <2> QED
    BY <2>3, <2>4
<1>5. ASSUME NEW i \in DOMAIN z, Selecting(z, i, r, t),
             \A j \in DOMAIN z : j > i => ~Selecting(z, j, r, t)
      PROVE  z[i].choice = ch[t]
  <2>1. i + 1 \in DOMAIN q /\ Selecting(q, i + 1, r, t)
    BY <1>2, <1>5
  <2>2. ASSUME NEW j \in DOMAIN q, j > i + 1 PROVE ~Selecting(q, j, r, t)
    <3>1. j # 1 /\ j - 1 \in DOMAIN z /\ (j - 1) + 1 = j /\ j - 1 > i
      BY <1>1, <2>2
    <3> QED
      BY <1>2, <1>5, <3>1
  <2>3. q[i + 1].choice = ch[t]
    BY <2>1, <2>2 DEF HostFollows
  <2> QED
    BY <1>1, <2>3
<1> QED
  BY <1>4, <1>5 DEF HostFollows, z
-----------------------------------------------------------------------------
(* Steps *)

LEMMA RoomIsEnough ==
  /\ Room \in Nat /\ Room >= MaxUnderWay /\ Room >= Cardinality(Tabs) /\ Cardinality(Tabs) \in Nat
  /\ MaxUnderWay \in Nat /\ MaxResults \in Nat
<1>1. Cardinality(Tabs) \in Nat /\ MaxUnderWay \in Nat /\ MaxResults \in Nat
  BY DragAssumption, FS_CardinalityType
<1>2. Room = IF MaxUnderWay >= Cardinality(Tabs) THEN MaxUnderWay ELSE Cardinality(Tabs)
  BY <1>1, MaxOfTwo DEF Room
<1> QED
  BY <1>1, <1>2

LEMMA UnderWayCounts ==
  ASSUME DragFits
  PROVE  /\ UnderWay \in Nat /\ Len(toHost) \in Nat /\ Len(asking) \in Nat /\ Len(toPage) \in Nat
         /\ DOMAIN toHost = 1 .. Len(toHost) /\ DOMAIN asking = 1 .. Len(asking)
         /\ DOMAIN toPage = 1 .. Len(toPage)
         /\ UnderWay = 0 <=> toHost = <<>> /\ asking = <<>> /\ toPage = <<>>
  BY LenProperties, EmptySeq DEF DragFits, UnderWay

\* With nothing under way a table has its own expression, or none, active or not.
LEMMA QuietCarries ==
  ASSUME NEW active, NEW c, NEW e
  PROVE  Carries(<<>>, <<>>, <<>>, active, c, e) <=> c[e.tab] \in {None, e}
  BY DEF Carries, EndsWith

LEMMA DragIndInit == DragInit => DragInd
<1> SUFFICES ASSUME DragInit PROVE DragInd
  OBVIOUS
<1>1. 0 \in 0 .. MaxResults /\ Whole \in Picks
  BY RoomIsEnough, DragAssumption
<1>2. /\ Asked(0) \in Seq(Expression) /\ Len(Asked(0)) \in Nat
      /\ Len(Asked(0)) <= Cardinality(Tabs) /\ Cardinality(Tabs) \in Nat
      /\ \A t \in Tabs : Cardinality(Tabs) = 1 =>
            Tabs = {t} /\ Asked(0) = <<[result |-> 0, tab |-> t, choice |-> Whole]>>
  BY <1>1, NewPageAsks
<1>3. DragFits
  <2>1. /\ chosen \in [Tabs -> Picks] /\ hostChoice \in [Tabs -> Picks]
        /\ cachedDrag \in [Tabs -> Expression \union {None}]
    BY <1>1 DEF DragInit
  <2>2. <<>> \in Seq(Message) /\ <<>> \in Seq(Expression)
    OBVIOUS
  <2> QED
    BY <1>1, <1>2, <2>1, <2>2 DEF DragFits, DragInit
<1>4. DragHasRoom
  BY <1>2, RoomIsEnough DEF DragInit, DragHasRoom, UnderWay
<1>5. NoneFromAhead
  BY DEF DragInit, NoneFromAhead
<1>6. HostWillHave
  BY DEF DragInit, HostWillHave, HostFollows
<1>7. DragsWillCarry
  <2> SUFFICES ASSUME NEW t \in Tabs \ mixed
               PROVE  Carries(toHost, asking, toPage, activeTab, cachedDrag, Made(t, chosen[t]))
    BY DEF DragsWillCarry
  <2>1. ~(Cardinality(Tabs) > 1)
    BY DEF DragInit
  <2>2. Cardinality(Tabs) # 0
    <3>1. IsFiniteSet(Tabs) /\ Tabs # {}
      BY DragAssumption
    <3> QED
      BY <3>1, FS_EmptySet
  <2>3. Cardinality(Tabs) = 1
    BY <1>2, <2>1, <2>2
  <2> DEFINE e == Made(t, chosen[t])
  <2>4. e = [result |-> 0, tab |-> t, choice |-> Whole]
    BY DEF DragInit, Made
  <2>5. Tabs = {t} /\ asking = <<e>> /\ toHost = <<>> /\ activeTab = t
    BY <1>2, <2>3, <2>4 DEF DragInit
  <2> HIDE DEF e
  <2>6. asking # <<>> /\ asking[Len(asking)] = e
    BY <2>5
  <2>7. EndsWith(toHost, asking, toPage, cachedDrag[e.tab], e)
    BY <2>5, <2>6 DEF EndsWith
  <2> QED
    BY <2>4, <2>5, <2>7 DEF Carries, e
<1> QED
  BY <1>3, <1>4, <1>5, <1>6, <1>7 DEF DragInd

\* A message of the page.
LEMMA TellingKeeps ==
  ASSUME DragInd, NEW kind \in {"selection", "request"}, NEW choice \in Picks, Tells(kind, choice),
         UNCHANGED <<shownResult, activeTab, hostChoice, asking, toPage>>,
         chosen' = IF kind = "selection" THEN [chosen EXCEPT ![activeTab] = choice] ELSE chosen,
         mixed' \subseteq Tabs, mixed \subseteq mixed' \/ (UnderWay = 0 /\ mixed \ {activeTab} \subseteq mixed'),
         refusedDrag' \in BOOLEAN,
         cachedDrag' \in [Tabs -> Expression \union {None}],
         \A t \in Tabs \ {activeTab} : cachedDrag'[t] = cachedDrag[t]
  PROVE  DragInd'
<1> DEFINE m == Said(kind, choice)
<1> USE DEF DragInd
<1>1. /\ m \in Message /\ m.kind = kind /\ m.result = shownResult /\ m.tab = activeTab
      /\ m.choice = choice
  BY DEF Said, Message, DragFits
<1>2. toHost' = Append(toHost, m) /\ UnderWay < MaxUnderWay
  BY DEF Tells
<1> HIDE DEF m
<1>3. /\ toHost' \in Seq(Message) /\ Len(toHost') = Len(toHost) + 1 /\ Len(toHost) \in Nat
      /\ \A k \in 1 .. Len(toHost) : toHost'[k] = toHost[k]
      /\ toHost'[Len(toHost) + 1] = m /\ DOMAIN toHost' = 1 .. (Len(toHost) + 1)
  BY <1>1, <1>2, AppendFacts, LenProperties DEF DragFits
<1>4. DOMAIN toHost = 1 .. Len(toHost) /\ UnderWay \in Nat /\ Len(asking) \in Nat /\ Len(toPage) \in Nat
  BY UnderWayCounts
<1>5. /\ chosen' \in [Tabs -> Picks]
      /\ \A t \in Tabs : chosen'[t] = IF kind = "selection" /\ t = activeTab THEN choice ELSE chosen[t]
  BY DEF DragFits
<1>6. DragFits'
  BY <1>3, <1>5 DEF DragFits
<1>7. DragHasRoom'
  <2>1. UnderWay' = UnderWay + 1
    BY <1>3, <1>4 DEF UnderWay
  <2>2. UnderWay' <= Room
    BY <1>2, <1>4, <2>1, RoomIsEnough
  <2>3. shownResult \in Nat /\ shownResult' = shownResult
    BY RoomIsEnough DEF DragFits
  <2>4. shownResult * Cardinality(Tabs) >= 0
    BY <2>3, RoomIsEnough
  <2>5. UnderWay' <= Room + shownResult * Cardinality(Tabs)
    BY <1>4, <2>1, <2>2, <2>3, <2>4, RoomIsEnough
  <2> QED
    BY <2>3, <2>5 DEF DragHasRoom
<1>8. NoneFromAhead'
  <2>1. m.result <= shownResult
    BY <1>1, RoomIsEnough DEF DragFits
  <2> QED
    BY <1>3, <1>4, <2>1 DEF NoneFromAhead
<1>9. HostWillHave'
  <2> SUFFICES ASSUME NEW t \in Tabs
               PROVE  HostFollows(toHost', shownResult', hostChoice', chosen', t)
    BY DEF HostWillHave
  <2>1. IF m.kind = "selection" /\ m.result = shownResult /\ m.tab = t THEN chosen'[t] = m.choice
        ELSE chosen'[t] = chosen[t]
    BY <1>1, <1>5
  <2>2. HostFollows(Append(toHost, m), shownResult, hostChoice, chosen', t)
    BY <1>1, <2>1, SaidIsFollowed DEF HostWillHave, DragFits
  <2> QED
    BY <1>2, <2>2
<1>10. DragsWillCarry'
  <2> SUFFICES ASSUME NEW t \in Tabs \ mixed'
               PROVE  Carries(toHost', asking', toPage', activeTab', cachedDrag', Made(t, chosen[t])')
    BY DEF DragsWillCarry
  <2> DEFINE d == Made(t, chosen[t])
             e == Made(t, chosen[t])'
  <2>1. /\ d = [result |-> shownResult, tab |-> t, choice |-> chosen[t]] /\ d.tab = t
        /\ d.result = shownResult /\ e.tab = t /\ e.result = shownResult
        /\ t # activeTab => e = d
    BY <1>5 DEF Made
  <2> HIDE DEF d, e
  <2>2. CASE t = activeTab
    <3>1. \A i \in DOMAIN toHost : toHost[i].tab = t /\ toHost[i].result = shownResult
      <4>1. CASE UnderWay = 0
        BY <4>1, UnderWayCounts
      <4>2. CASE UnderWay # 0
        <5>1. t \in Tabs \ mixed
          BY <4>2
        <5>2. Carries(toHost, asking, toPage, activeTab, cachedDrag, d)
          BY <5>1 DEF DragsWillCarry, d
        <5> QED
          BY <2>1, <2>2, <5>2 DEF Carries, EndsWith
      <4> QED
        BY <4>1, <4>2
    <3>2. \A i \in DOMAIN toHost' : toHost'[i].tab = t /\ toHost'[i].result = shownResult
      BY <1>1, <1>3, <1>4, <2>2, <3>1
    <3>3. toHost' # <<>>
      BY <1>3
    <3>4. EndsWith(toHost', asking', toPage', cachedDrag'[t], e)
      BY <2>1, <3>2, <3>3 DEF EndsWith
    <3> QED
      BY <2>1, <2>2, <3>4 DEF Carries, e
  <2>3. CASE t # activeTab
    <3>1. t \in Tabs \ mixed
      BY <2>3
    <3>2. Carries(toHost, asking, toPage, activeTab, cachedDrag, d)
      BY <3>1 DEF DragsWillCarry, d
    <3>3. cachedDrag[t] \in {None, e}
      BY <2>1, <2>3, <3>2 DEF Carries
    <3> QED
      BY <2>1, <2>3, <3>3 DEF Carries, e
  <2> QED
    BY <2>2, <2>3
<1> QED
  BY <1>6, <1>7, <1>8, <1>9, <1>10

LEMMA ChooseKeeps ==
  ASSUME DragInd, NEW c \in Picks, Choose(c)
  PROVE  DragInd'
<1>1. /\ Tells("selection", c) /\ UNCHANGED <<shownResult, activeTab, hostChoice, asking, toPage>>
      /\ chosen' = IF "selection" = "selection" THEN [chosen EXCEPT ![activeTab] = c] ELSE chosen
      /\ refusedDrag' \in BOOLEAN
  BY DEF Choose
<1>2. mixed' \subseteq Tabs /\ (mixed \subseteq mixed' \/ (UnderWay = 0 /\ mixed \ {activeTab} \subseteq mixed'))
  BY DEF Choose, DragInd, DragFits
<1>3. /\ cachedDrag' \in [Tabs -> Expression \union {None}]
      /\ \A t \in Tabs \ {activeTab} : cachedDrag'[t] = cachedDrag[t]
  BY DEF Choose, DragInd, DragFits
<1> QED
  BY <1>1, <1>2, <1>3, TellingKeeps

LEMMA RefuseDragKeeps ==
  ASSUME DragInd, RefuseDrag
  PROVE  DragInd'
<1>1. /\ Tells("request", Whole) /\ UNCHANGED <<shownResult, activeTab, hostChoice, asking, toPage>>
      /\ chosen' = IF "request" = "selection" THEN [chosen EXCEPT ![activeTab] = Whole] ELSE chosen
      /\ refusedDrag' \in BOOLEAN /\ Whole \in Picks
  BY DragAssumption DEF RefuseDrag
<1>2. mixed' \subseteq Tabs /\ mixed \subseteq mixed'
  BY DEF RefuseDrag, DragInd, DragFits
<1>3. /\ cachedDrag' \in [Tabs -> Expression \union {None}]
      /\ \A t \in Tabs \ {activeTab} : cachedDrag'[t] = cachedDrag[t]
  BY DEF RefuseDrag, DragInd, DragFits
<1> QED
  BY <1>1, <1>2, <1>3, TellingKeeps

LEMMA SwitchTabKeeps ==
  ASSUME DragInd, NEW x \in Tabs, SwitchTab(x)
  PROVE  DragInd'
<1> USE DEF DragInd
<1>1. /\ activeTab' = x /\ refusedDrag' = FALSE /\ mixed' = IF UnderWay = 0 THEN mixed ELSE Tabs
      /\ UNCHANGED <<shownResult, chosen, cachedDrag, toHost, hostChoice, asking, toPage>>
  BY DEF SwitchTab
<1>2. DragFits'
  BY <1>1 DEF DragFits
<1>3. DragHasRoom' /\ NoneFromAhead' /\ HostWillHave'
  BY <1>1 DEF DragHasRoom, UnderWay, NoneFromAhead, HostWillHave
<1>4. DragsWillCarry'
  <2> SUFFICES ASSUME NEW t \in Tabs \ mixed'
               PROVE  Carries(toHost', asking', toPage', activeTab', cachedDrag', Made(t, chosen[t])')
    BY DEF DragsWillCarry
  <2> DEFINE e == Made(t, chosen[t])
  <2>1. Made(t, chosen[t])' = e
    BY <1>1 DEF Made
  <2> HIDE DEF e
  <2>2. UnderWay = 0 /\ t \in Tabs \ mixed
    BY <1>1
  <2>3. toHost = <<>> /\ asking = <<>> /\ toPage = <<>>
    BY <2>2, UnderWayCounts
  <2>4. Carries(toHost, asking, toPage, activeTab, cachedDrag, e)
    BY <2>2 DEF DragsWillCarry, e
  <2>5. Carries(<<>>, <<>>, <<>>, x, cachedDrag, e)
    BY <2>3, <2>4, QuietCarries
  <2> QED
    BY <1>1, <2>1, <2>3, <2>5
<1> QED
  BY <1>2, <1>3, <1>4

LEMMA ShowOtherKeeps ==
  ASSUME DragInd, NEW x \in Tabs, ShowOther(x)
  PROVE  DragInd'
<1> USE DEF DragInd
<1> DEFINE r == shownResult + 1
<1>1. /\ shownResult < MaxResults /\ shownResult' = r /\ activeTab' = x /\ refusedDrag' = FALSE
      /\ chosen' = [y \in Tabs |-> Whole] /\ hostChoice' = chosen'
      /\ cachedDrag' = [y \in Tabs |-> None] /\ asking' = asking \o Asked(r)
      /\ mixed' = IF UnderWay = 0 /\ Cardinality(Tabs) = 1 THEN {} ELSE Tabs
      /\ UNCHANGED <<toHost, toPage>>
  BY DEF ShowOther
<1>2. shownResult \in Nat /\ r \in 0 .. MaxResults /\ Whole \in Picks
  BY <1>1, RoomIsEnough, DragAssumption DEF DragFits
<1> HIDE DEF r
<1>3. /\ Asked(r) \in Seq(Expression) /\ Len(Asked(r)) \in Nat
      /\ Len(Asked(r)) <= Cardinality(Tabs) /\ Cardinality(Tabs) \in Nat
      /\ \A t \in Tabs : Cardinality(Tabs) = 1 =>
            Tabs = {t} /\ Asked(r) = <<[result |-> r, tab |-> t, choice |-> Whole]>>
  BY <1>2, NewPageAsks
<1>4. asking' \in Seq(Expression) /\ Len(asking') = Len(asking) + Len(Asked(r))
  BY <1>1, <1>3, Concatenated DEF DragFits
<1>5. DragFits'
  <2>1. chosen' \in [Tabs -> Picks] /\ cachedDrag' \in [Tabs -> Expression \union {None}]
    BY <1>1, <1>2
  <2> QED
    BY <1>1, <1>2, <1>4, <2>1 DEF DragFits
<1>6. DragHasRoom'
  <2>1. UnderWay' = UnderWay + Len(Asked(r))
    BY <1>1, <1>3, <1>4, UnderWayCounts DEF UnderWay
  <2>2. r * Cardinality(Tabs) = shownResult * Cardinality(Tabs) + Cardinality(Tabs)
    BY <1>2, <1>3 DEF r
  <2>3. shownResult * Cardinality(Tabs) \in Nat
    BY <1>2, <1>3
  <2>4. UnderWay + Len(Asked(r)) <= Room + r * Cardinality(Tabs)
    BY <1>3, <2>2, <2>3, UnderWayCounts, RoomIsEnough DEF DragHasRoom
  <2> QED
    BY <1>1, <2>1, <2>4 DEF DragHasRoom
<1>7. \A i \in DOMAIN toHost : toHost[i].result < r
  <2> SUFFICES ASSUME NEW i \in DOMAIN toHost PROVE toHost[i].result < r
    OBVIOUS
  <2>1. toHost[i] \in Message
    BY UnderWayCounts, ElementOfSeq DEF DragFits
  <2>2. toHost[i].result \in Int
    BY <2>1, RoomIsEnough DEF Message
  <2> QED
    BY <1>2, <2>2 DEF NoneFromAhead, r
<1>8. NoneFromAhead'
  <2>1. \A i \in DOMAIN toHost : toHost[i] \in Message /\ toHost[i].result \in Int
    <3> SUFFICES ASSUME NEW i \in DOMAIN toHost PROVE toHost[i] \in Message /\ toHost[i].result \in Int
      OBVIOUS
    <3>1. toHost[i] \in Message
      BY UnderWayCounts, ElementOfSeq DEF DragFits
    <3> QED
      BY <3>1, RoomIsEnough DEF Message
  <2>2. \A i \in DOMAIN toHost : toHost[i].result <= r
    BY <1>2, <1>7, <2>1
  <2> QED
    BY <1>1, <2>2 DEF NoneFromAhead
<1>9. HostWillHave'
  <2> SUFFICES ASSUME NEW t \in Tabs
               PROVE  HostFollows(toHost', shownResult', hostChoice', chosen', t)
    BY DEF HostWillHave
  <2>1. \A i \in DOMAIN toHost : ~Selecting(toHost, i, r, t)
    <3> SUFFICES ASSUME NEW i \in DOMAIN toHost PROVE toHost[i].result # r
      BY DEF Selecting
    <3>1. toHost[i].result < r
      BY <1>7
    <3>2. r \in Int
      BY <1>2
    <3>3. r # r \/ ~(r < r)
      BY <3>2
    <3> QED
      BY <3>1, <3>3
  <2> QED
    BY <1>1, <2>1 DEF HostFollows
<1>10. DragsWillCarry'
  <2> SUFFICES ASSUME NEW t \in Tabs \ mixed'
               PROVE  Carries(toHost', asking', toPage', activeTab', cachedDrag', Made(t, chosen[t])')
    BY DEF DragsWillCarry
  <2> DEFINE e == [result |-> r, tab |-> t, choice |-> Whole]
  <2>1. Made(t, chosen[t])' = e /\ e.tab = t
    BY <1>1 DEF Made
  <2> HIDE DEF e
  <2>2. UnderWay = 0 /\ Cardinality(Tabs) = 1
    BY <1>1
  <2>3. toHost = <<>> /\ asking = <<>> /\ toPage = <<>>
    BY <2>2, UnderWayCounts
  <2>4. Tabs = {t} /\ Asked(r) = <<e>>
    BY <1>3, <2>2 DEF e
  <2>5. x = t /\ asking' = <<e>> /\ toHost' = <<>>
    BY <1>1, <2>3, <2>4
  <2>6. asking' # <<>> /\ asking'[Len(asking')] = e
    BY <2>5
  <2>7. EndsWith(toHost', asking', toPage', cachedDrag'[e.tab], e)
    BY <2>5, <2>6 DEF EndsWith
  <2> QED
    BY <1>1, <2>1, <2>5, <2>7 DEF Carries
<1> QED
  BY <1>5, <1>6, <1>8, <1>9, <1>10

\* A message that arrives and is heeded: the request it makes.
LEMMA HostReceivesKeeps ==
  ASSUME DragInd, HostReceives
  PROVE  DragInd'
<1> USE DEF DragInd
<1> DEFINE m == toHost[1]
           choice == IF m.kind = "selection" THEN m.choice ELSE hostChoice[m.tab]
<1>1. /\ toHost # <<>> /\ toHost' = Tail(toHost) /\ m = Head(toHost) /\ m \in Message
      /\ toHost' \in Seq(Message) /\ Len(toHost') = Len(toHost) - 1 /\ Len(toHost) >= 1
      /\ \A k \in 1 .. Len(toHost') : toHost'[k] = toHost[k + 1] /\ k + 1 \in 1 .. Len(toHost)
      /\ DOMAIN toHost' = 1 .. Len(toHost') /\ 1 \in DOMAIN toHost
      /\ UNCHANGED <<shownResult, activeTab, chosen, cachedDrag, toPage, refusedDrag, mixed>>
  BY TailFacts, LenProperties DEF HostReceives, DragFits
<1>2. IF m.result # shownResult THEN UNCHANGED <<hostChoice, asking>>
      ELSE /\ hostChoice' = [hostChoice EXCEPT ![m.tab] = choice]
           /\ asking' = asking \o <<Made(m.tab, choice)>>
  BY <1>1 DEF HostReceives, Heeds, Resolved
<1>3. m.tab \in Tabs /\ choice \in Picks /\ Made(m.tab, choice) \in Expression
  BY <1>1 DEF Message, DragFits, Made, Expression
<1>4. /\ hostChoice' \in [Tabs -> Picks]
      /\ \A t \in Tabs : hostChoice'[t] = IF Selecting(toHost, 1, shownResult, t) THEN m.choice
                                         ELSE hostChoice[t]
  BY <1>2, <1>3 DEF DragFits, Selecting
<1>5. /\ asking' \in Seq(Expression)
      /\ Len(asking') = Len(asking) + (IF m.result = shownResult THEN 1 ELSE 0)
      /\ m.result = shownResult => asking' # <<>> /\ asking'[Len(asking')] = Made(m.tab, choice)
  <2>1. CASE m.result # shownResult
    BY <1>2, <2>1, UnderWayCounts DEF DragFits
  <2>2. CASE m.result = shownResult
    <3> DEFINE y == Made(m.tab, choice)
    <3>1. y \in Expression /\ asking \in Seq(Expression) /\ asking' = asking \o <<y>>
      BY <1>2, <1>3, <2>2 DEF DragFits
    <3> HIDE DEF y
    <3>2. asking' = Append(asking, y)
      BY <3>1
    <3>3. asking' \in Seq(Expression) /\ Len(asking') = Len(asking) + 1 /\ asking'[Len(asking) + 1] = y
      BY <3>1, <3>2, AppendFacts
    <3>4. asking' # <<>>
      BY <3>3, UnderWayCounts
    <3> QED
      BY <2>2, <3>3, <3>4 DEF y
  <2> QED
    BY <2>1, <2>2
<1> HIDE DEF choice
<1>6. DragFits'
  BY <1>1, <1>4, <1>5 DEF DragFits
<1>7. DragHasRoom'
  <2>1. UnderWay' <= UnderWay
    BY <1>1, <1>5, UnderWayCounts DEF UnderWay
  <2>2. shownResult * Cardinality(Tabs) \in Int
    BY RoomIsEnough DEF DragFits
  <2>3. UnderWay' \in Int
    BY <1>1, <1>5, UnderWayCounts DEF UnderWay
  <2> QED
    BY <1>1, <2>1, <2>2, <2>3, UnderWayCounts, RoomIsEnough DEF DragHasRoom
<1>8. NoneFromAhead'
  BY <1>1, UnderWayCounts DEF NoneFromAhead
<1>9. HostWillHave'
  <2> SUFFICES ASSUME NEW t \in Tabs
               PROVE  HostFollows(toHost', shownResult', hostChoice', chosen', t)
    BY DEF HostWillHave
  <2>1. HostFollows(Tail(toHost), shownResult, hostChoice', chosen, t)
    BY <1>1, <1>4, ArrivalIsFollowed DEF HostWillHave, DragFits
  <2> QED
    BY <1>1, <2>1
<1>10. DragsWillCarry'
  <2> SUFFICES ASSUME NEW t \in Tabs \ mixed'
               PROVE  Carries(toHost', asking', toPage', activeTab', cachedDrag', Made(t, chosen[t])')
    BY DEF DragsWillCarry
  <2> DEFINE e == Made(t, chosen[t])
  <2>1. /\ Made(t, chosen[t])' = e /\ e.tab = t /\ e.result = shownResult
        /\ e = [result |-> shownResult, tab |-> t, choice |-> chosen[t]]
    BY <1>1 DEF Made
  <2> HIDE DEF e
  <2>2. Carries(toHost, asking, toPage, activeTab, cachedDrag, e)
    BY <1>1 DEF DragsWillCarry, e
  <2>3. CASE t # activeTab
    BY <1>1, <2>1, <2>2, <2>3 DEF Carries
  <2>4. CASE t = activeTab
    <3>1. \A i \in DOMAIN toHost : toHost[i].tab = t /\ toHost[i].result = shownResult
      BY <2>1, <2>2, <2>4 DEF Carries, EndsWith
    <3>2. m.tab = t /\ m.result = shownResult
      BY <1>1, <3>1
    <3>3. \A i \in DOMAIN toHost' : toHost'[i].tab = t /\ toHost'[i].result = shownResult
      BY <1>1, <3>1, UnderWayCounts
    <3>4. asking' # <<>> /\ asking'[Len(asking')] = Made(t, choice)
      BY <1>5, <3>2
    <3>5. ASSUME toHost' = <<>> PROVE choice = chosen[t]
      <4>1. HostFollows(toHost', shownResult, hostChoice', chosen, t)
        BY <1>1, <1>9 DEF HostWillHave
      <4>2. hostChoice'[t] = chosen[t]
        BY <3>5, <4>1 DEF HostFollows
      <4>3. hostChoice'[t] = choice
        BY <1>2, <1>3, <3>2 DEF DragFits
      <4> QED
        BY <4>2, <4>3
    <3>6. toHost' = <<>> => asking'[Len(asking')] = e
      BY <3>4, <3>5 DEF e
    <3>7. EndsWith(toHost', asking', toPage', cachedDrag'[t], e)
      BY <2>1, <3>3, <3>4, <3>6 DEF EndsWith
    <3> QED
      BY <1>1, <2>1, <2>4, <3>7 DEF Carries
  <2> QED
    BY <2>3, <2>4
<1> QED
  BY <1>6, <1>7, <1>8, <1>9, <1>10

\* A request is answered, in its turn or not.
LEMMA AnsweredLeaves ==
  ASSUME DragInd, NEW i \in DOMAIN asking
  PROVE  /\ RemoveAt(asking, i) \in Seq(Expression) /\ Len(RemoveAt(asking, i)) = Len(asking) - 1
         /\ Len(asking) >= 1 /\ asking # <<>> /\ asking[i] \in Expression
         /\ RemoveAt(asking, 1) # <<>> =>
               RemoveAt(asking, 1)[Len(RemoveAt(asking, 1))] = asking[Len(asking)]
         /\ RemoveAt(asking, 1) = <<>> => asking[1] = asking[Len(asking)]
<1>1. DOMAIN asking = 1 .. Len(asking) /\ Len(asking) \in Nat /\ asking \in Seq(Expression)
  BY UnderWayCounts, SMTT(30) DEF DragInd, DragFits
<1>2. Len(asking) >= 1 /\ asking # <<>> /\ 1 \in 1 .. Len(asking) /\ i \in 1 .. Len(asking)
  <2>1. i \in 1 .. Len(asking) /\ Len(asking) \in Nat
    BY <1>1
  <2>2. Len(asking) >= 1 /\ Len(asking) # 0
    BY <2>1
  <2>3. asking # <<>>
    BY <1>1, <2>2, EmptySeq, ZenonT(40)
  <2> QED
    BY <2>1, <2>2, <2>3
<1>3. RemoveAt(asking, i) \in Seq(Expression) /\ Len(RemoveAt(asking, i)) = Len(asking) - 1
  BY <1>1, <1>2, RemoveAtProperties, ZenonT(40)
<1> DEFINE z == RemoveAt(asking, 1)
<1>4. /\ z \in Seq(Expression) /\ Len(z) = Len(asking) - 1
      /\ \A j \in 1 .. (Len(asking) - 1) : z[j] = IF j < 1 THEN asking[j] ELSE asking[j + 1]
  BY <1>1, <1>2, RemoveAtProperties
<1> HIDE DEF z
<1>5. ASSUME z # <<>> PROVE z[Len(z)] = asking[Len(asking)]
  <2>1. Len(z) # 0
    BY <1>4, <1>5, EmptySeq
  <2>2. Len(z) \in 1 .. (Len(asking) - 1) /\ ~(Len(z) < 1) /\ Len(z) + 1 = Len(asking)
    BY <1>1, <1>2, <1>4, <2>1
  <2> QED
    BY <1>4, <2>2
<1>6. ASSUME z = <<>> PROVE asking[1] = asking[Len(asking)]
  <2>1. Len(z) = 0
    BY <1>6
  <2>2. Len(asking) \in Nat /\ Len(z) = Len(asking) - 1
    BY <1>1, <1>4
  <2>3. Len(asking) = 1
    BY <2>1, <2>2
  <2> QED
    BY <2>3
<1> QED
  BY <1>1, <1>2, <1>3, <1>5, <1>6, ElementOfSeq DEF z

LEMMA AnswersKeeps ==
  ASSUME DragInd, NEW i \in DOMAIN asking, Answers(i)
  PROVE  DragInd'
<1> USE DEF DragInd
<1>1. /\ asking' = RemoveAt(asking, i) /\ toPage' = Append(toPage, asking[i])
      /\ mixed' = (IF i = 1 THEN mixed ELSE Tabs)
      /\ UNCHANGED <<shownResult, activeTab, chosen, cachedDrag, toHost, hostChoice, refusedDrag>>
  BY DEF Answers
<1>2. /\ asking' \in Seq(Expression) /\ Len(asking') = Len(asking) - 1 /\ Len(asking) >= 1
      /\ asking # <<>> /\ asking[i] \in Expression
  BY <1>1, AnsweredLeaves
<1>3. /\ toPage' \in Seq(Expression) /\ Len(toPage') = Len(toPage) + 1 /\ toPage' # <<>>
      /\ toPage'[Len(toPage')] = asking[i]
  <2>1. toPage' \in Seq(Expression) /\ Len(toPage') = Len(toPage) + 1 /\ toPage'[Len(toPage) + 1] = asking[i]
    BY <1>1, <1>2, AppendFacts DEF DragFits
  <2> QED
    BY <2>1, UnderWayCounts
<1>4. DragFits'
  BY <1>1, <1>2, <1>3 DEF DragFits
<1>5. DragHasRoom' /\ NoneFromAhead' /\ HostWillHave'
  <2>1. UnderWay' = UnderWay
    BY <1>1, <1>2, <1>3, UnderWayCounts DEF UnderWay
  <2> QED
    BY <1>1, <2>1 DEF DragHasRoom, NoneFromAhead, HostWillHave
<1>6. DragsWillCarry'
  <2> SUFFICES ASSUME NEW t \in Tabs \ mixed'
               PROVE  Carries(toHost', asking', toPage', activeTab', cachedDrag', Made(t, chosen[t])')
    BY DEF DragsWillCarry
  <2> DEFINE e == Made(t, chosen[t])
  <2>1. Made(t, chosen[t])' = e
    BY <1>1 DEF Made
  <2>2. i = 1 /\ Carries(toHost, asking, toPage, activeTab, cachedDrag, e)
    BY <1>1 DEF DragsWillCarry
  <2> HIDE DEF e
  <2>3. CASE e.tab # activeTab
    BY <1>1, <2>1, <2>2, <2>3 DEF Carries
  <2>4. CASE e.tab = activeTab
    <3>1. EndsWith(toHost, asking, toPage, cachedDrag[e.tab], e)
      BY <2>2, <2>4 DEF Carries
    <3>2. toHost = <<>> => asking[Len(asking)] = e
      BY <1>2, <3>1 DEF EndsWith
    <3>3. toHost' = <<>> /\ asking' # <<>> => asking'[Len(asking')] = e
      BY <1>1, <2>2, <3>2, AnsweredLeaves
    <3>4. toHost' = <<>> /\ asking' = <<>> => toPage'[Len(toPage')] = e
      BY <1>1, <1>3, <2>2, <3>2, AnsweredLeaves
    <3>5. EndsWith(toHost', asking', toPage', cachedDrag'[e.tab], e)
      BY <1>1, <1>3, <3>1, <3>3, <3>4 DEF EndsWith
    <3> QED
      BY <1>1, <2>1, <2>4, <3>5 DEF Carries
  <2> QED
    BY <2>3, <2>4
<1> QED
  BY <1>4, <1>5, <1>6

LEMMA AnswersNothingKeeps ==
  ASSUME DragInd, NEW i \in DOMAIN asking, AnswersNothing(i)
  PROVE  DragInd'
<1> USE DEF DragInd
<1>1. /\ asking' = RemoveAt(asking, i) /\ mixed' = Tabs /\ refusedDrag' = FALSE
      /\ UNCHANGED <<shownResult, activeTab, chosen, cachedDrag, toHost, hostChoice, toPage>>
  BY DEF AnswersNothing
<1>2. asking' \in Seq(Expression) /\ Len(asking') = Len(asking) - 1 /\ Len(asking) >= 1
  BY <1>1, AnsweredLeaves
<1>3. DragFits'
  BY <1>1, <1>2 DEF DragFits
<1>4. DragHasRoom'
  <2>1. UnderWay' = UnderWay - 1 /\ UnderWay \in Nat
    BY <1>1, <1>2, UnderWayCounts DEF UnderWay
  <2>2. shownResult * Cardinality(Tabs) \in Int
    BY RoomIsEnough DEF DragFits
  <2> QED
    BY <1>1, <2>1, <2>2, RoomIsEnough DEF DragHasRoom
<1>5. NoneFromAhead' /\ HostWillHave'
  BY <1>1 DEF NoneFromAhead, HostWillHave
<1>6. DragsWillCarry'
  BY <1>1 DEF DragsWillCarry
<1> QED
  BY <1>3, <1>4, <1>5, <1>6

LEMMA PageReceivesKeeps ==
  ASSUME DragInd, PageReceives
  PROVE  DragInd'
<1> USE DEF DragInd
<1> DEFINE y == toPage[1]
<1>1. /\ toPage # <<>> /\ toPage' = Tail(toPage) /\ y = Head(toPage) /\ y \in Expression
      /\ toPage' \in Seq(Expression) /\ Len(toPage') = Len(toPage) - 1 /\ Len(toPage) >= 1
      /\ \A k \in 1 .. Len(toPage') : toPage'[k] = toPage[k + 1]
      /\ cachedDrag' = [cachedDrag EXCEPT ![activeTab] = y] /\ refusedDrag' = FALSE
      /\ UNCHANGED <<shownResult, activeTab, chosen, toHost, hostChoice, asking, mixed>>
  BY TailFacts DEF PageReceives, DragFits
<1>2. /\ cachedDrag' \in [Tabs -> Expression \union {None}]
      /\ \A t \in Tabs : cachedDrag'[t] = IF t = activeTab THEN y ELSE cachedDrag[t]
  BY <1>1 DEF DragFits
<1>3. /\ toPage' # <<>> => toPage'[Len(toPage')] = toPage[Len(toPage)]
      /\ toPage' = <<>> => y = toPage[Len(toPage)]
  <2>1. Len(toPage) \in Nat /\ (toPage' = <<>> <=> Len(toPage') = 0)
    BY <1>1, EmptySeq, UnderWayCounts
  <2> QED
    BY <1>1, <2>1
<1> HIDE DEF y
<1>4. DragFits'
  BY <1>1, <1>2 DEF DragFits
<1>5. DragHasRoom'
  <2>1. UnderWay' = UnderWay - 1 /\ UnderWay \in Nat
    BY <1>1, UnderWayCounts DEF UnderWay
  <2>2. shownResult * Cardinality(Tabs) \in Int
    BY RoomIsEnough DEF DragFits
  <2> QED
    BY <1>1, <2>1, <2>2, RoomIsEnough DEF DragHasRoom
<1>6. NoneFromAhead' /\ HostWillHave'
  BY <1>1 DEF NoneFromAhead, HostWillHave
<1>7. DragsWillCarry'
  <2> SUFFICES ASSUME NEW t \in Tabs \ mixed'
               PROVE  Carries(toHost', asking', toPage', activeTab', cachedDrag', Made(t, chosen[t])')
    BY DEF DragsWillCarry
  <2> DEFINE e == Made(t, chosen[t])
  <2>1. Made(t, chosen[t])' = e /\ e.tab = t
    BY <1>1 DEF Made
  <2>2. Carries(toHost, asking, toPage, activeTab, cachedDrag, e)
    BY <1>1 DEF DragsWillCarry
  <2> HIDE DEF e
  <2>3. CASE t # activeTab
    BY <1>1, <1>2, <2>1, <2>2, <2>3 DEF Carries
  <2>4. CASE t = activeTab
    <3>1. EndsWith(toHost, asking, toPage, cachedDrag[t], e)
      BY <2>1, <2>2, <2>4 DEF Carries
    <3>2. toHost = <<>> /\ asking = <<>> => toPage[Len(toPage)] = e
      BY <1>1, <3>1 DEF EndsWith
    <3>3. EndsWith(toHost', asking', toPage', cachedDrag'[t], e)
      BY <1>1, <1>2, <1>3, <2>4, <3>1, <3>2 DEF EndsWith
    <3> QED
      BY <1>1, <2>1, <2>4, <3>3 DEF Carries
  <2> QED
    BY <2>3, <2>4
<1> QED
  BY <1>4, <1>5, <1>6, <1>7

LEMMA DragStepInd == DragInd /\ [DragNext]_dragVars => DragInd'
<1> SUFFICES ASSUME DragInd, [DragNext]_dragVars PROVE DragInd'
  OBVIOUS
<1>1. ASSUME NEW c \in Picks, Choose(c) PROVE DragInd'
  BY <1>1, ChooseKeeps
<1>2. ASSUME NEW t \in Tabs, SwitchTab(t) PROVE DragInd'
  BY <1>2, SwitchTabKeeps
<1>3. ASSUME NEW t \in Tabs, ShowOther(t) PROVE DragInd'
  BY <1>3, ShowOtherKeeps
<1>4. ASSUME NEW i \in DOMAIN asking, Answers(i) PROVE DragInd'
  BY <1>4, AnswersKeeps
<1>5. ASSUME NEW i \in DOMAIN asking, AnswersNothing(i) PROVE DragInd'
  BY <1>5, AnswersNothingKeeps
<1>6. CASE UNCHANGED dragVars
  BY <1>6 DEF dragVars, DragInd, DragFits, DragHasRoom, UnderWay, NoneFromAhead, HostWillHave,
              DragsWillCarry, Made
<1> QED
  BY <1>1, <1>2, <1>3, <1>4, <1>5, <1>6, RefuseDragKeeps, HostReceivesKeeps, PageReceivesKeeps
     DEF DragNext

LEMMA IndMakesDragsSound == DragInd => DragIsSound
<1> SUFFICES ASSUME DragInd PROVE DragIsSound
  OBVIOUS
<1> USE DEF DragInd
<1>1. DragTypeOK
  <2>1. shownResult \in Nat /\ shownResult <= MaxResults /\ MaxResults \in Nat
    BY RoomIsEnough DEF DragFits
  <2>2. shownResult * Cardinality(Tabs) <= MaxResults * Cardinality(Tabs)
    BY <2>1, RoomIsEnough
  <2>3. shownResult * Cardinality(Tabs) \in Nat /\ MaxResults * Cardinality(Tabs) \in Nat
    BY <2>1, RoomIsEnough
  <2>4. UnderWay <= Room + MaxResults * Cardinality(Tabs)
    BY <2>2, <2>3, UnderWayCounts, RoomIsEnough DEF DragHasRoom
  <2> QED
    BY <2>4 DEF DragTypeOK, DragFits, Room
<1>2. HostHasChoice
  <2> SUFFICES ASSUME toHost = <<>> PROVE hostChoice = chosen
    BY DEF HostHasChoice
  <2>1. \A t \in Tabs : hostChoice[t] = chosen[t]
    BY DEF HostWillHave, HostFollows
  <2> QED
    BY <2>1 DEF DragFits
<1>3. DragCarriesChoice
  <2> SUFFICES ASSUME UnderWay = 0, NEW t \in Tabs \ mixed
               PROVE  cachedDrag[t] \in {None, Made(t, chosen[t])}
    BY DEF DragCarriesChoice
  <2> DEFINE e == Made(t, chosen[t])
  <2>1. e.tab = t
    BY DEF Made
  <2>2. Carries(toHost, asking, toPage, activeTab, cachedDrag, e)
    BY DEF DragsWillCarry
  <2> HIDE DEF e
  <2>3. Carries(<<>>, <<>>, <<>>, activeTab, cachedDrag, e)
    BY <2>2, UnderWayCounts
  <2> QED
    BY <2>1, <2>3, QuietCarries DEF e
<1> QED
  BY <1>1, <1>2, <1>3 DEF DragIsSound

\* What the host of a results view and the drags of its tables hold is what is
\* selected (setSelection, requestExpression, setExpression, resolveExpression), once
\* the messages that say so have arrived, for any tables, selections and bounds.
THEOREM DragsAreSound == DragSpec => []DragIsSound
<1> QED
  BY DragIndInit, DragStepInd, IndMakesDragsSound, PTL DEF DragSpec

\* A results view tells the host, and a drag carries, what is selected in its tables
\* (dataTableProvider.ts): the two theorems above for a view that does both.
THEOREM TablesStaySound == TablesSpec => []TablesAreSound
<1>1. SelectionIsSound /\ DragIsSound => TablesAreSound
  BY DEF TablesAreSound
<1> QED
  BY <1>1, SelectionsAreSound, DragsAreSound, PTL DEF TablesSpec

-----------------------------------------------------------------------------
(* The form of a chart *)

\* A form shows what it offers, and the node columns of its table.
ShowsOffers(f) ==
    /\ Fit(f.values, f.shape, f.nodeCols) = f.values
    /\ f.values.nodesTable # None => f.nodeCols = NodeColumns(f.values.nodesTable)

\* Once its forms have arrived, the page f is on has no form.
Gone(q, f) ==
    \/ f = None /\ \A i \in DOMAIN q : ~q[i].page
    \/ \E i \in DOMAIN q : /\ q[i].page /\ q[i].form = None
                           /\ \A j \in DOMAIN q : j > i => ~q[j].page

HasEdit(p) == \E i \in DOMAIN p : IsEdit(p[i])
EditsFirst(p) == \A i, j \in DOMAIN p : i < j /\ IsEdit(p[j]) => IsEdit(p[i])
LastEdit(p, v) ==
    \A i \in DOMAIN p : IsEdit(p[i]) /\ (\A j \in DOMAIN p : j > i => ~IsEdit(p[j])) => p[i].options = v

LastForm(q, f) == IF q = <<>> THEN f ELSE q[Len(q)].form

\* A form built of the editor's options as they are.
Built(f, cur) ==
    /\ f # None /\ f.shape = cur.shape /\ f.defaults = cur.defaults
    /\ f.nodeCols = NodesCols(cur.options, cur.shape)
    /\ f.values = Fit(cur.options, cur.shape, f.nodeCols)

\* The form was edited since: no other is on its way, the last edit says all it shows.
Edited(p, q, f, cur) ==
    /\ q = <<>> /\ f # None /\ f.shape = cur.shape /\ f.defaults = cur.defaults
    /\ f.nodeCols = NodesCols(f.values, f.shape)
    /\ LastEdit(p, f.values)

FormsAreBuilt ==
    /\ form # None => ShowsOffers(form)
    /\ \A i \in DOMAIN forms : /\ forms[i].form # None => ShowsOffers(forms[i].form)
                               /\ ~forms[i].page => forms[i].form # None

PostsFit == \A i \in DOMAIN posts : IsEdit(posts[i]) => posts[i].options \in Options

ChartIsCurrent ==
    ~Gone(forms, form) => chart = current.options /\ drawn.options = chart

DataIsKept == ~misled /\ Gone(forms, form) => posts = <<>> /\ chart = wanted

EditsComeFirst == ~misled => EditsFirst(posts)

FormWillAgree ==
    ~misled /\ ~Gone(forms, form) =>
        /\ IF HasEdit(posts) THEN Edited(posts, forms, form, current)
           ELSE Built(LastForm(forms, form), current)
        /\ LookOf(LastForm(forms, form)) = wanted

FormInd ==
    /\ FormTypeOK /\ FormsAreBuilt /\ PostsFit /\ ChartIsCurrent /\ DataIsKept /\ EditsComeFirst
    /\ FormWillAgree
-----------------------------------------------------------------------------
(* Options and forms *)

Looks == [Styles -> Offers \union {Odd, None}]

LEMMA ChoicesDiffer ==
  /\ None # Automatic /\ None # Other /\ None # Odd /\ Automatic # Other /\ Automatic # Odd /\ Other # Odd
  /\ None \notin Tables /\ None \notin ChartColumns /\ None # Key /\ Key \notin Tables /\ NodesName \in Tables
<1> DEFINE q == <<None, Automatic, Other, Odd>>
<1>1. \A i, j \in 1 .. 4 : q[i] = q[j] => i = j
  BY FormAssumption DEF IsInjective
<1>2. q[1] = None /\ q[2] = Automatic /\ q[3] = Other /\ q[4] = Odd
  OBVIOUS
<1> HIDE DEF q
<1>3. q[1] # q[2] /\ q[1] # q[3] /\ q[1] # q[4] /\ q[2] # q[3] /\ q[2] # q[4] /\ q[3] # q[4]
  BY <1>1
<1> QED
  BY <1>2, <1>3, FormAssumption

LEMMA DefaultsResolve ==
  ASSUME NEW d \in Settings
  PROVE  /\ ResolvedDefaults(d) \in [Styles -> {Automatic, Other, None}]
  BY DEF ResolvedDefaults, Settings, Styles

LEMMA LooksAreStyles ==
  ASSUME NEW style \in Looks, NEW d \in Settings
  PROVE  /\ Look(style, d) \in Looks
         /\ \A k \in Styles : Look(style, d)[k] = IF style[k] = None THEN ResolvedDefaults(d)[k] ELSE style[k]
<1> DEFINE r == ResolvedDefaults(d)
<1>1. r \in [Styles -> {Automatic, Other, None}]
  BY DefaultsResolve
<1> HIDE DEF r
<1>2. Look(style, d) = [k \in Styles |-> IF style[k] = None THEN r[k] ELSE style[k]]
  BY DEF Look, r
<1>3. \A k \in Styles : (IF style[k] = None THEN r[k] ELSE style[k]) \in Offers \union {Odd, None}
  BY <1>1 DEF Looks, Offers
<1> QED
  BY <1>2, <1>3 DEF Looks, r

LEMMA SameOptions ==
  ASSUME NEW a \in Options, NEW b \in Options,
         \A k \in Styles : a.style[k] = b.style[k],
         a.xColumn = b.xColumn, a.yColumns = b.yColumns, a.nodesTable = b.nodesTable,
         a.nodeColumn = b.nodeColumn
  PROVE  a = b
<1>1. a.style = b.style
  BY DEF Options
<1> QED
  BY <1>1 DEF Options

\* What a change of the style leaves as it is.
LEMMA Restyled ==
  ASSUME NEW o \in Options, NEW style \in Looks
  PROVE  LET z == [o EXCEPT !.style = style] IN
         /\ z \in Options /\ z.style = style
         /\ z.xColumn = o.xColumn /\ z.yColumns = o.yColumns /\ z.nodesTable = o.nodesTable
         /\ z.nodeColumn = o.nodeColumn
  BY DEF Options, Looks

LEMMA StyleOf ==
  ASSUME NEW o \in Options
  PROVE  o.style \in Looks
  BY DEF Options, Looks

LEMMA Captured ==
  ASSUME NEW o \in Options, NEW d \in Settings
  PROVE  LET z == Capture(o, d) IN
         /\ z \in Options /\ z.style = Look(o.style, d)
         /\ z.xColumn = o.xColumn /\ z.yColumns = o.yColumns /\ z.nodesTable = o.nodesTable
         /\ z.nodeColumn = o.nodeColumn
<1>1. Capture(o, d) = [o EXCEPT !.style = Look(o.style, d)]
  BY DEF Capture, Options
<1>2. Look(o.style, d) \in Looks
  BY StyleOf, LooksAreStyles
<1> QED
  BY <1>1, <1>2, Restyled

LEMMA Restored ==
  ASSUME NEW o \in Options, NEW d \in Settings
  PROVE  LET z == Restore(o, d) IN
         /\ z \in Options
         /\ \A k \in Styles : z.style[k] = IF o.style[k] = ResolvedDefaults(d)[k] THEN None ELSE o.style[k]
         /\ z.xColumn = o.xColumn /\ z.yColumns = o.yColumns /\ z.nodesTable = o.nodesTable
         /\ z.nodeColumn = o.nodeColumn
<1> DEFINE u == [k \in Styles |-> IF o.style[k] = ResolvedDefaults(d)[k] THEN None ELSE o.style[k]]
<1>1. Restore(o, d) = [o EXCEPT !.style = u]
  BY DEF Restore, Options
<1>2. u \in Looks
  BY StyleOf DEF Looks
<1>3. \A k \in Styles : u[k] = IF o.style[k] = ResolvedDefaults(d)[k] THEN None ELSE o.style[k]
  OBVIOUS
<1> HIDE DEF u
<1> QED
  BY <1>1, <1>2, <1>3, Restyled

LEMMA Fitted ==
  ASSUME NEW o \in Options, NEW s \in Shapes, NEW cols \in SUBSET (Tables \union {Key})
  PROVE  LET z == Fit(o, s, cols) IN
         /\ z \in Options
         /\ \A k \in Styles : z.style[k] = Offered(o.style[k], Offers)
         /\ z.xColumn = Offered(o.xColumn, s.cols) /\ z.yColumns = o.yColumns
         /\ z.nodesTable = Offered(o.nodesTable, s.tables)
         /\ z.nodeColumn = Offered(o.nodeColumn, cols)
<1> DEFINE u == [k \in Styles |-> Offered(o.style[k], Offers)]
           x == Offered(o.xColumn, s.cols)
           t == Offered(o.nodesTable, s.tables)
           c == Offered(o.nodeColumn, cols)
<1>1. u \in Looks /\ \A k \in Styles : u[k] = Offered(o.style[k], Offers)
  BY DEF Looks, Offered
<1>2. x \in ChartColumns \union {None} /\ t \in Tables \union {None} /\ c \in Tables \union {Key, None}
  BY DEF Offered, Shapes
<1>3. Fit(o, s, cols) = [o EXCEPT !.style = u, !.xColumn = x, !.nodesTable = t, !.nodeColumn = c]
  BY DEF Fit, Options
<1> HIDE DEF u, x, t, c
<1>4. LET z == [o EXCEPT !.style = u, !.xColumn = x, !.nodesTable = t, !.nodeColumn = c] IN
      /\ z \in Options /\ z.style = u /\ z.xColumn = x /\ z.yColumns = o.yColumns /\ z.nodesTable = t
      /\ z.nodeColumn = c
  BY <1>1, <1>2 DEF Options, Looks
<1> QED
  BY <1>1, <1>3, <1>4 DEF x, t, c

LEMMA NodesColsType ==
  ASSUME NEW o \in Options, NEW s \in Shapes
  PROVE  NodesCols(o, s) \in SUBSET (Tables \union {Key})
  BY FormAssumption DEF NodesCols, NodeColumns, Shapes

LEMMA FittedTwice ==
  ASSUME NEW o \in Options, NEW s \in Shapes, NEW cols \in SUBSET (Tables \union {Key})
  PROVE  Fit(Fit(o, s, cols), s, cols) = Fit(o, s, cols)
<1> DEFINE z == Fit(o, s, cols)
           y == Fit(z, s, cols)
<1>1. /\ z \in Options
      /\ \A k \in Styles : z.style[k] = Offered(o.style[k], Offers)
      /\ z.xColumn = Offered(o.xColumn, s.cols) /\ z.yColumns = o.yColumns
      /\ z.nodesTable = Offered(o.nodesTable, s.tables)
      /\ z.nodeColumn = Offered(o.nodeColumn, cols)
  BY Fitted
<1> HIDE DEF z
<1>2. /\ y \in Options
      /\ \A k \in Styles : y.style[k] = Offered(z.style[k], Offers)
      /\ y.xColumn = Offered(z.xColumn, s.cols) /\ y.yColumns = z.yColumns
      /\ y.nodesTable = Offered(z.nodesTable, s.tables)
      /\ y.nodeColumn = Offered(z.nodeColumn, cols)
  BY <1>1, Fitted
<1> HIDE DEF y
<1>3. y = z
  <2>1. \A k \in Styles : y.style[k] = z.style[k]
    BY <1>1, <1>2 DEF Offered
  <2>2. y.xColumn = z.xColumn /\ y.yColumns = z.yColumns /\ y.nodesTable = z.nodesTable /\ y.nodeColumn = z.nodeColumn
    BY <1>1, <1>2 DEF Offered
  <2> QED
    BY <1>1, <1>2, <2>1, <2>2, SameOptions
<1> QED
  BY <1>3 DEF y, z

\* What a form is when it is built.
LEMMA FormBuilt ==
  ASSUME NEW o \in Options, NEW s \in Shapes, NEW d \in Settings
  PROVE  LET f == Form(o, s, d) IN
         /\ f \in Forms /\ f # None /\ f.shape = s /\ f.defaults = d
         /\ f.nodeCols = NodesCols(o, s) /\ f.values = Fit(o, s, NodesCols(o, s))
         /\ ShowsOffers(f) /\ Built(f, Current(o, s, d))
<1> DEFINE cols == NodesCols(o, s)
           v == Fit(o, s, cols)
           f == [values |-> v, shape |-> s, defaults |-> d, nodeCols |-> cols, autoCols |-> cols]
<1>1. Form(o, s, d) = f
  BY DEF Form
<1>2. cols \in SUBSET (Tables \union {Key})
  BY NodesColsType
<1> HIDE DEF cols
<1>3. v \in Options /\ v.nodesTable = Offered(o.nodesTable, s.tables) /\ Fit(v, s, cols) = v
  BY <1>2, Fitted, FittedTwice
<1>4. v.nodesTable # None => cols = NodeColumns(v.nodesTable)
  BY <1>3 DEF cols, NodesCols, Offered
<1> HIDE DEF v
<1>5. f \in Forms
  BY <1>2, <1>3 DEF Forms
<1>6. f # None
  BY <1>5, ChartsAssumption
<1>7. f.values = v /\ f.shape = s /\ f.defaults = d /\ f.nodeCols = cols
  OBVIOUS
<1> HIDE DEF f
<1>8. ShowsOffers(f)
  BY <1>3, <1>4, <1>7 DEF ShowsOffers
<1>9. Built(f, Current(o, s, d))
  BY <1>6, <1>7 DEF Built, Current, cols, v
<1> QED
  BY <1>1, <1>5, <1>6, <1>7, <1>8, <1>9 DEF cols, v

LEMMA LookFields ==
  ASSUME NEW f \in Forms
  PROVE  LET z == LookOf(f) IN
         /\ z \in Options /\ f.values \in Options /\ f.shape \in Shapes /\ f.defaults \in Settings
         /\ z.style = Look(f.values.style, f.defaults)
         /\ z.xColumn = f.values.xColumn /\ z.yColumns = f.values.yColumns
         /\ z.nodesTable = f.values.nodesTable /\ z.nodeColumn = f.values.nodeColumn
<1>1. f.values \in Options /\ f.shape \in Shapes /\ f.defaults \in Settings
  BY DEF Forms
<1>2. LookOf(f) = [f.values EXCEPT !.style = Look(f.values.style, f.defaults)]
  BY <1>1 DEF LookOf, Options
<1>3. Look(f.values.style, f.defaults) \in Looks
  BY <1>1, StyleOf, LooksAreStyles
<1> QED
  BY <1>1, <1>2, <1>3, Restyled

\* How a choice that is not offered looks, or one that is the default.
Looking(v, r) == IF Offered(v, Offers) = None THEN r ELSE Offered(v, Offers)

LEMMA DefaultsLookAlike ==
  ASSUME NEW v \in Offers \union {Odd, None}, NEW r \in {Automatic, Other, None}
  PROVE  /\ Looking(IF v = None THEN r ELSE v, r) = Looking(v, r)
         /\ Looking(IF v = r THEN None ELSE v, r) = Looking(v, r)
  BY ChoicesDiffer DEF Looking, Offered, Offers

\* Two sets of options look alike by their forms.
LEMMA FormsLookAlike ==
  ASSUME NEW a \in Options, NEW b \in Options, NEW s \in Shapes, NEW d \in Settings,
         \A k \in Styles : Looking(a.style[k], ResolvedDefaults(d)[k]) = Looking(b.style[k], ResolvedDefaults(d)[k]),
         a.xColumn = b.xColumn, a.yColumns = b.yColumns, a.nodesTable = b.nodesTable,
         a.nodeColumn = b.nodeColumn
  PROVE  LookOf(Form(a, s, d)) = LookOf(Form(b, s, d))
<1> DEFINE cols == NodesCols(a, s)
           f == Form(a, s, d)
           g == Form(b, s, d)
           u == LookOf(f)
           w == LookOf(g)
<1>1. NodesCols(b, s) = cols /\ cols \in SUBSET (Tables \union {Key})
  BY NodesColsType DEF NodesCols
<1>2. f \in Forms /\ f.defaults = d /\ f.values = Fit(a, s, cols)
  BY FormBuilt
<1>3. g \in Forms /\ g.defaults = d /\ g.values = Fit(b, s, cols)
  BY <1>1, FormBuilt
<1> HIDE DEF cols, f, g
<1> DEFINE p == Fit(a, s, cols)
           q == Fit(b, s, cols)
<1>4. /\ p \in Options /\ \A k \in Styles : p.style[k] = Offered(a.style[k], Offers)
      /\ p.xColumn = Offered(a.xColumn, s.cols) /\ p.yColumns = a.yColumns
      /\ p.nodesTable = Offered(a.nodesTable, s.tables) /\ p.nodeColumn = Offered(a.nodeColumn, cols)
  BY <1>1, Fitted
<1>5. /\ q \in Options /\ \A k \in Styles : q.style[k] = Offered(b.style[k], Offers)
      /\ q.xColumn = Offered(b.xColumn, s.cols) /\ q.yColumns = b.yColumns
      /\ q.nodesTable = Offered(b.nodesTable, s.tables) /\ q.nodeColumn = Offered(b.nodeColumn, cols)
  BY <1>1, Fitted
<1> HIDE DEF p, q
<1>6. /\ u \in Options /\ u.style = Look(p.style, d) /\ u.xColumn = p.xColumn /\ u.yColumns = p.yColumns
      /\ u.nodesTable = p.nodesTable /\ u.nodeColumn = p.nodeColumn
  BY <1>2, LookFields DEF p
<1>7. /\ w \in Options /\ w.style = Look(q.style, d) /\ w.xColumn = q.xColumn /\ w.yColumns = q.yColumns
      /\ w.nodesTable = q.nodesTable /\ w.nodeColumn = q.nodeColumn
  BY <1>3, LookFields DEF q
<1> HIDE DEF u, w
<1>8. ASSUME NEW k \in Styles PROVE u.style[k] = w.style[k]
  <2>1. p.style \in Looks /\ q.style \in Looks
    BY <1>4, <1>5, StyleOf
  <2>2. u.style[k] = Looking(a.style[k], ResolvedDefaults(d)[k])
    BY <1>4, <1>6, <2>1, LooksAreStyles DEF Looking
  <2>3. w.style[k] = Looking(b.style[k], ResolvedDefaults(d)[k])
    BY <1>5, <1>7, <2>1, LooksAreStyles DEF Looking
  <2> QED
    BY <2>2, <2>3
<1>9. u = w
  <2>1. u.xColumn = w.xColumn /\ u.yColumns = w.yColumns /\ u.nodesTable = w.nodesTable /\ u.nodeColumn = w.nodeColumn
    BY <1>4, <1>5, <1>6, <1>7
  <2> QED
    BY <1>6, <1>7, <1>8, <2>1, SameOptions
<1> QED
  BY <1>9 DEF u, w, f, g

\* Capture and Restore Defaults change no look.
LEMMA ActionsKeepLooks ==
  ASSUME NEW o \in Options, NEW s \in Shapes, NEW d \in Settings
  PROVE  /\ LookOf(Form(Capture(o, d), s, d)) = LookOf(Form(o, s, d))
         /\ LookOf(Form(Restore(o, d), s, d)) = LookOf(Form(o, s, d))
<1>1. ResolvedDefaults(d) \in [Styles -> {Automatic, Other, None}]
  BY DefaultsResolve
<1>2. o.style \in Looks
  BY StyleOf
<1>3. \A k \in Styles : o.style[k] \in Offers \union {Odd, None} /\ ResolvedDefaults(d)[k] \in {Automatic, Other, None}
  BY <1>1, <1>2 DEF Looks
<1>4. LookOf(Form(Capture(o, d), s, d)) = LookOf(Form(o, s, d))
  <2> DEFINE z == Capture(o, d)
  <2>1. /\ z \in Options /\ z.style = Look(o.style, d)
        /\ z.xColumn = o.xColumn /\ z.yColumns = o.yColumns /\ z.nodesTable = o.nodesTable
        /\ z.nodeColumn = o.nodeColumn
    BY Captured
  <2> HIDE DEF z
  <2>2. \A k \in Styles : z.style[k] = IF o.style[k] = None THEN ResolvedDefaults(d)[k] ELSE o.style[k]
    BY <1>2, <2>1, LooksAreStyles
  <2>3. \A k \in Styles : Looking(z.style[k], ResolvedDefaults(d)[k]) = Looking(o.style[k], ResolvedDefaults(d)[k])
    BY <1>3, <2>2, DefaultsLookAlike
  <2>4. LookOf(Form(z, s, d)) = LookOf(Form(o, s, d))
    BY <2>1, <2>3, FormsLookAlike
  <2> QED
    BY <2>4 DEF z
<1>5. LookOf(Form(Restore(o, d), s, d)) = LookOf(Form(o, s, d))
  <2> DEFINE z == Restore(o, d)
  <2>1. /\ z \in Options
        /\ \A k \in Styles : z.style[k] = IF o.style[k] = ResolvedDefaults(d)[k] THEN None ELSE o.style[k]
        /\ z.xColumn = o.xColumn /\ z.yColumns = o.yColumns /\ z.nodesTable = o.nodesTable
        /\ z.nodeColumn = o.nodeColumn
    BY Restored
  <2> HIDE DEF z
  <2>3. \A k \in Styles : Looking(z.style[k], ResolvedDefaults(d)[k]) = Looking(o.style[k], ResolvedDefaults(d)[k])
    BY <1>3, <2>1, DefaultsLookAlike
  <2>4. LookOf(Form(z, s, d)) = LookOf(Form(o, s, d))
    BY <2>1, <2>3, FormsLookAlike
  <2> QED
    BY <2>4 DEF z
<1> QED
  BY <1>4, <1>5

\* Forms built of the same options look alike.
LEMMA BuiltLooks ==
  ASSUME NEW f \in Forms, NEW o \in Options, NEW s \in Shapes, NEW d \in Settings,
         Built(f, Current(o, s, d))
  PROVE  LookOf(f) = LookOf(Form(o, s, d))
<1>1. f.values = Form(o, s, d).values /\ f.defaults = Form(o, s, d).defaults
  BY FormBuilt DEF Built, Current
<1> QED
  BY <1>1 DEF LookOf

-----------------------------------------------------------------------------
(* Forms on their way *)

Contents == [page: BOOLEAN, form: Forms \union {None}]
Posted == [command: Commands, options: Options \union {None}]

LEMMA GoneAppended ==
  ASSUME NEW q \in Seq(Contents), NEW c \in Contents, NEW f
  PROVE  Gone(Append(q, c), f) <=> IF c.page THEN c.form = None ELSE Gone(q, f)
<1> DEFINE z == Append(q, c)
           n == Len(q) + 1
<1>1. /\ Len(q) \in Nat /\ DOMAIN z = 1 .. n /\ DOMAIN q = 1 .. Len(q)
      /\ \A k \in 1 .. Len(q) : z[k] = q[k]
      /\ z[n] = c
  BY AppendFacts, LenProperties
<1> HIDE DEF z
<1>2. /\ n \in DOMAIN z /\ \A k \in DOMAIN q : k \in DOMAIN z /\ k < n /\ ~(k > n) /\ z[k] = q[k]
      /\ \A k \in DOMAIN z : k = n \/ k \in DOMAIN q
      /\ ~(n > n)
  BY <1>1
<1>3. CASE c.page
  <2>1. ~\A i \in DOMAIN z : ~z[i].page
    BY <1>1, <1>2, <1>3
  <2>2. \A i \in DOMAIN z : (\A j \in DOMAIN z : j > i => ~z[j].page) => i = n
    BY <1>1, <1>2, <1>3
  <2>3. \A j \in DOMAIN z : j > n => ~z[j].page
    BY <1>2
  <2>4. Gone(z, f) <=> z[n].page /\ z[n].form = None
    BY <1>2, <2>1, <2>2, <2>3 DEF Gone
  <2> QED
    BY <1>1, <1>3, <2>4 DEF z
<1>4. CASE ~c.page
  <2>1. (\A i \in DOMAIN z : ~z[i].page) <=> (\A i \in DOMAIN q : ~q[i].page)
    BY <1>1, <1>2, <1>4
  <2>2. \A i \in DOMAIN q : (\A j \in DOMAIN z : j > i => ~z[j].page) <=> (\A j \in DOMAIN q : j > i => ~q[j].page)
    BY <1>1, <1>2, <1>4
  <2>3. (\E i \in DOMAIN z : z[i].page /\ z[i].form = None /\ \A j \in DOMAIN z : j > i => ~z[j].page)
        <=> (\E i \in DOMAIN q : q[i].page /\ q[i].form = None /\ \A j \in DOMAIN q : j > i => ~q[j].page)
    BY <1>1, <1>2, <1>4, <2>2
  <2> QED
    BY <1>4, <2>1, <2>3 DEF Gone, z
<1> QED
  BY <1>3, <1>4

\* A form that arrives, at a page that has none perhaps.
LEMMA GoneArrives ==
  ASSUME NEW q \in Seq(Contents), q # <<>>, NEW f, ~q[1].page => q[1].form # None,
         NEW g, g = IF q[1].page \/ f # None THEN q[1].form ELSE None
  PROVE  Gone(Tail(q), g) <=> Gone(q, f)
<1> DEFINE z == Tail(q)
<1>1. /\ Len(q) \in Nat /\ Len(q) >= 1 /\ Len(z) = Len(q) - 1 /\ DOMAIN z = 1 .. Len(z)
      /\ DOMAIN q = 1 .. Len(q) /\ 1 \in DOMAIN q
      /\ \A k \in 1 .. Len(z) : z[k] = q[k + 1]
  BY TailFacts, LenProperties
<1> HIDE DEF z
<1>2. /\ \A k \in DOMAIN z : k + 1 \in DOMAIN q /\ k + 1 > 1 /\ z[k] = q[k + 1]
      /\ \A k \in DOMAIN q : k = 1 \/ (k > 1 /\ k - 1 \in DOMAIN z /\ (k - 1) + 1 = k)
      /\ \A j, k \in DOMAIN z : j + 1 > k + 1 <=> j > k
      /\ ~(1 > 1)
  BY <1>1
<1> DEFINE Quiet(s, i) == \A j \in DOMAIN s : j > i => ~s[j].page
           Left(s) == \E i \in DOMAIN s : s[i].page /\ s[i].form = None /\ Quiet(s, i)
<1>3. \A k \in DOMAIN z : Quiet(z, k) <=> Quiet(q, k + 1)
  <2> SUFFICES ASSUME NEW k \in DOMAIN z PROVE Quiet(z, k) <=> Quiet(q, k + 1)
    OBVIOUS
  <2>1. ASSUME Quiet(z, k), NEW j \in DOMAIN q, j > k + 1 PROVE ~q[j].page
    <3>1. j # 1
      BY <1>1, <2>1
    <3>2. j - 1 \in DOMAIN z /\ (j - 1) + 1 = j
      BY <1>2, <3>1
    <3>3. j - 1 > k
      BY <1>1, <2>1
    <3> QED
      BY <1>2, <2>1, <3>2, <3>3
  <2>2. ASSUME Quiet(q, k + 1), NEW j \in DOMAIN z, j > k PROVE ~z[j].page
    BY <1>2, <2>2
  <2> QED
    BY <2>1, <2>2
<1>4. (\A j \in DOMAIN z : ~z[j].page) <=> Quiet(q, 1)
  BY <1>2
<1>5. Left(q) <=> (q[1].page /\ q[1].form = None /\ Quiet(q, 1)) \/ Left(z)
  <2>1. ASSUME NEW i \in DOMAIN q, q[i].page, q[i].form = None, Quiet(q, i), i # 1 PROVE Left(z)
    <3>1. i - 1 \in DOMAIN z /\ (i - 1) + 1 = i /\ z[i - 1] = q[i]
      BY <1>2, <2>1
    <3>2. Quiet(z, i - 1)
      <4>1. Quiet(z, i - 1) <=> Quiet(q, (i - 1) + 1)
        BY <1>3, <3>1
      <4> QED
        BY <2>1, <3>1, <4>1
    <3> QED
      BY <2>1, <3>1, <3>2
  <2>2. ASSUME NEW i \in DOMAIN z, z[i].page, z[i].form = None, Quiet(z, i) PROVE Left(q)
    BY <1>2, <1>3, <2>2
  <2> HIDE DEF Quiet
  <2> QED
    BY <1>1, <2>1, <2>2
<1>6. (\A j \in DOMAIN q : ~q[j].page) <=> ~q[1].page /\ Quiet(q, 1)
  BY <1>1, <1>2
<1>7. Gone(q, f) <=> (f = None /\ ~q[1].page /\ Quiet(q, 1)) \/ Left(q)
  BY <1>6 DEF Gone
<1>8. Gone(z, g) <=> (g = None /\ Quiet(q, 1)) \/ Left(z)
  BY <1>4 DEF Gone
<1> HIDE DEF Quiet, Left
<1> QED
  BY <1>5, <1>7, <1>8 DEF z

-----------------------------------------------------------------------------
(* Messages on their way *)

LEMMA PostAppended ==
  ASSUME NEW p \in Seq(Posted), NEW x \in Posted
  PROVE  LET z == Append(p, x) IN
         /\ z \in Seq(Posted) /\ z # <<>>
         /\ HasEdit(z) <=> HasEdit(p) \/ IsEdit(x)
         /\ EditsFirst(p) /\ (IsEdit(x) => \A i \in DOMAIN p : IsEdit(p[i])) => EditsFirst(z)
         /\ IsEdit(x) => LastEdit(z, x.options)
         /\ \A v : ~IsEdit(x) /\ LastEdit(p, v) => LastEdit(z, v)
         /\ (\A i \in DOMAIN p : IsEdit(p[i]) => p[i].options \in Options) /\ (IsEdit(x) => x.options \in Options)
               => \A i \in DOMAIN z : IsEdit(z[i]) => z[i].options \in Options
<1> DEFINE z == Append(p, x)
           n == Len(p) + 1
<1>1. /\ Len(p) \in Nat /\ DOMAIN z = 1 .. n /\ DOMAIN p = 1 .. Len(p) /\ z \in Seq(Posted)
      /\ \A k \in 1 .. Len(p) : z[k] = p[k]
      /\ z[n] = x /\ z # <<>>
  BY AppendFacts, LenProperties
<1> HIDE DEF z
<1>2. /\ n \in DOMAIN z /\ \A k \in DOMAIN p : k \in DOMAIN z /\ k < n /\ n > k /\ ~(k > n) /\ ~(n < k) /\ z[k] = p[k]
      /\ \A k \in DOMAIN z : k = n \/ k \in DOMAIN p
      /\ ~(n > n) /\ ~(n < n)
  BY <1>1
<1>3. HasEdit(z) <=> HasEdit(p) \/ IsEdit(x)
  BY <1>1, <1>2 DEF HasEdit
<1>4. ASSUME EditsFirst(p), IsEdit(x) => \A i \in DOMAIN p : IsEdit(p[i]) PROVE EditsFirst(z)
  <2> SUFFICES ASSUME NEW i \in DOMAIN z, NEW j \in DOMAIN z, i < j, IsEdit(z[j]) PROVE IsEdit(z[i])
    BY DEF EditsFirst
  <2>1. i \in DOMAIN p
    BY <1>2
  <2>2. CASE j = n
    BY <1>1, <1>2, <1>4, <2>1, <2>2
  <2>3. CASE j \in DOMAIN p
    BY <1>2, <1>4, <2>1, <2>3 DEF EditsFirst
  <2> QED
    BY <1>2, <2>2, <2>3
<1>5. ASSUME IsEdit(x) PROVE LastEdit(z, x.options)
  <2> SUFFICES ASSUME NEW i \in DOMAIN z, \A j \in DOMAIN z : j > i => ~IsEdit(z[j])
               PROVE  z[i].options = x.options
    BY DEF LastEdit
  <2>1. i = n
    BY <1>1, <1>2, <1>5
  <2> QED
    BY <1>1, <2>1
<1>6. ASSUME NEW v, ~IsEdit(x), LastEdit(p, v) PROVE LastEdit(z, v)
  <2> SUFFICES ASSUME NEW i \in DOMAIN z, IsEdit(z[i]), \A j \in DOMAIN z : j > i => ~IsEdit(z[j])
               PROVE  z[i].options = v
    BY DEF LastEdit
  <2>1. i \in DOMAIN p
    BY <1>1, <1>2, <1>6
  <2>2. \A j \in DOMAIN p : j > i => ~IsEdit(p[j])
    BY <1>2
  <2> QED
    BY <1>2, <1>6, <2>1, <2>2 DEF LastEdit
<1>7. ASSUME \A i \in DOMAIN p : IsEdit(p[i]) => p[i].options \in Options, IsEdit(x) => x.options \in Options
      PROVE  \A i \in DOMAIN z : IsEdit(z[i]) => z[i].options \in Options
  BY <1>1, <1>2, <1>7
<1> QED
  BY <1>1, <1>3, <1>4, <1>5, <1>6, <1>7 DEF z

LEMMA PostArrives ==
  ASSUME NEW p \in Seq(Posted), p # <<>>
  PROVE  LET z == Tail(p) IN
         /\ z \in Seq(Posted) /\ Head(p) = p[1] /\ p[1] \in Posted /\ 1 \in DOMAIN p
         /\ HasEdit(z) => HasEdit(p)
         /\ EditsFirst(p) => EditsFirst(z)
         /\ EditsFirst(p) /\ ~IsEdit(p[1]) => ~HasEdit(p)
         /\ \A v : LastEdit(p, v) /\ HasEdit(z) => LastEdit(z, v)
         /\ \A v : LastEdit(p, v) /\ ~HasEdit(z) /\ IsEdit(p[1]) => p[1].options = v
         /\ (\A i \in DOMAIN p : IsEdit(p[i]) => p[i].options \in Options)
               => \A i \in DOMAIN z : IsEdit(z[i]) => z[i].options \in Options
<1> DEFINE z == Tail(p)
<1>1. /\ Len(p) \in Nat /\ Len(p) >= 1 /\ Len(z) = Len(p) - 1 /\ DOMAIN z = 1 .. Len(z)
      /\ DOMAIN p = 1 .. Len(p) /\ 1 \in DOMAIN p /\ z \in Seq(Posted) /\ Head(p) = p[1]
      /\ p[1] \in Posted
      /\ \A k \in 1 .. Len(z) : z[k] = p[k + 1]
  BY TailFacts, LenProperties
<1> HIDE DEF z
<1>2. /\ \A k \in DOMAIN z : k + 1 \in DOMAIN p /\ k + 1 > 1 /\ 1 < k + 1 /\ z[k] = p[k + 1]
      /\ \A k \in DOMAIN p : k = 1 \/ (k > 1 /\ 1 < k /\ k - 1 \in DOMAIN z /\ (k - 1) + 1 = k)
      /\ \A j, k \in DOMAIN z : (j + 1 > k + 1 <=> j > k) /\ (j + 1 < k + 1 <=> j < k)
  BY <1>1
<1>3. HasEdit(z) => HasEdit(p)
  BY <1>2 DEF HasEdit
<1>4. EditsFirst(p) => EditsFirst(z)
  BY <1>2 DEF EditsFirst
<1>5. EditsFirst(p) /\ ~IsEdit(p[1]) => ~HasEdit(p)
  BY <1>1, <1>2 DEF EditsFirst, HasEdit
<1>6. ASSUME NEW v, LastEdit(p, v), HasEdit(z) PROVE LastEdit(z, v)
  <2> SUFFICES ASSUME NEW i \in DOMAIN z, IsEdit(z[i]), \A j \in DOMAIN z : j > i => ~IsEdit(z[j])
               PROVE  z[i].options = v
    BY DEF LastEdit
  <2>1. ASSUME NEW j \in DOMAIN p, j > i + 1 PROVE ~IsEdit(p[j])
    <3>1. j # 1
      BY <1>1, <2>1
    <3>2. j - 1 \in DOMAIN z /\ (j - 1) + 1 = j
      BY <1>2, <3>1
    <3>3. j - 1 > i
      BY <1>1, <2>1
    <3> QED
      BY <1>2, <3>2, <3>3
  <2>2. i + 1 \in DOMAIN p /\ IsEdit(p[i + 1]) /\ z[i] = p[i + 1]
    BY <1>2
  <2> QED
    BY <1>6, <2>1, <2>2 DEF LastEdit
<1>7. ASSUME NEW v, LastEdit(p, v), ~HasEdit(z), IsEdit(p[1]) PROVE p[1].options = v
  <2>1. ASSUME NEW j \in DOMAIN p, j > 1 PROVE ~IsEdit(p[j])
    <3>1. j # 1
      BY <1>1, <2>1
    <3>2. j - 1 \in DOMAIN z /\ (j - 1) + 1 = j
      BY <1>2, <3>1
    <3> QED
      BY <1>2, <1>7, <3>2 DEF HasEdit
  <2> QED
    BY <1>1, <1>7, <2>1 DEF LastEdit
<1>8. ASSUME \A i \in DOMAIN p : IsEdit(p[i]) => p[i].options \in Options
      PROVE  \A i \in DOMAIN z : IsEdit(z[i]) => z[i].options \in Options
  BY <1>2, <1>8
<1> QED
  BY <1>1, <1>3, <1>4, <1>5, <1>6, <1>7, <1>8 DEF z

LEMMA ContentAppended ==
  ASSUME NEW q \in Seq(Contents), NEW c \in Contents, NEW f,
         c.form # None => ShowsOffers(c.form), ~c.page => c.form # None,
         \A i \in DOMAIN q : /\ q[i].form # None => ShowsOffers(q[i].form)
                             /\ ~q[i].page => q[i].form # None
  PROVE  LET z == Append(q, c) IN
         /\ z \in Seq(Contents) /\ z # <<>> /\ LastForm(z, f) = c.form
         /\ \A i \in DOMAIN z : /\ z[i].form # None => ShowsOffers(z[i].form)
                                /\ ~z[i].page => z[i].form # None
<1> DEFINE z == Append(q, c)
           n == Len(q) + 1
<1>1. /\ Len(q) \in Nat /\ DOMAIN z = 1 .. n /\ DOMAIN q = 1 .. Len(q) /\ z \in Seq(Contents)
      /\ \A k \in 1 .. Len(q) : z[k] = q[k]
      /\ z[n] = c /\ z # <<>> /\ Len(z) = n
  BY AppendFacts, LenProperties
<1> HIDE DEF z
<1>2. \A k \in DOMAIN z : k = n \/ (k \in DOMAIN q /\ z[k] = q[k])
  BY <1>1
<1>3. \A i \in DOMAIN z : /\ z[i].form # None => ShowsOffers(z[i].form)
                          /\ ~z[i].page => z[i].form # None
  BY <1>1, <1>2
<1> QED
  BY <1>1, <1>3 DEF LastForm, z

LEMMA ContentArrives ==
  ASSUME NEW q \in Seq(Contents), q # <<>>,
         \A i \in DOMAIN q : /\ q[i].form # None => ShowsOffers(q[i].form)
                             /\ ~q[i].page => q[i].form # None
  PROVE  LET z == Tail(q) IN
         /\ z \in Seq(Contents) /\ Head(q) = q[1] /\ q[1] \in Contents /\ 1 \in DOMAIN q
         /\ q[1].form # None => ShowsOffers(q[1].form)
         /\ ~q[1].page => q[1].form # None
         /\ \A f, g : z # <<>> => LastForm(z, f) = LastForm(q, g)
         /\ \A g : z = <<>> => LastForm(q, g) = q[1].form
         /\ \A i \in DOMAIN z : /\ z[i].form # None => ShowsOffers(z[i].form)
                                /\ ~z[i].page => z[i].form # None
<1> DEFINE z == Tail(q)
<1>1. /\ Len(q) \in Nat /\ Len(q) >= 1 /\ Len(z) = Len(q) - 1 /\ DOMAIN z = 1 .. Len(z)
      /\ DOMAIN q = 1 .. Len(q) /\ 1 \in DOMAIN q /\ z \in Seq(Contents) /\ Head(q) = q[1]
      /\ q[1] \in Contents
      /\ \A k \in 1 .. Len(z) : z[k] = q[k + 1]
  BY TailFacts, LenProperties
<1> HIDE DEF z
<1>2. \A k \in DOMAIN z : k + 1 \in DOMAIN q /\ z[k] = q[k + 1]
  BY <1>1
<1>3. ASSUME z # <<>> PROVE z[Len(z)] = q[Len(q)]
  <2>1. Len(z) # 0
    BY <1>1, <1>3, EmptySeq
  <2>2. Len(z) \in 1 .. Len(z) /\ Len(z) + 1 = Len(q)
    BY <1>1, <2>1
  <2> QED
    BY <1>1, <2>2
<1>4. ASSUME z = <<>> PROVE q[Len(q)] = q[1]
  <2>1. Len(z) = 0
    BY <1>4
  <2>2. Len(q) \in Nat /\ Len(z) = Len(q) - 1
    BY <1>1
  <2>3. Len(q) = 1
    BY <2>1, <2>2
  <2> QED
    BY <2>3
<1>5. \A i \in DOMAIN z : /\ z[i].form # None => ShowsOffers(z[i].form)
                          /\ ~z[i].page => z[i].form # None
  BY <1>2
<1> QED
  BY <1>1, <1>3, <1>4, <1>5 DEF LastForm, z

-----------------------------------------------------------------------------
(* Steps *)

LEMMA CurrentParts ==
  ASSUME NEW c, c \in [options: Options, shape: Shapes, defaults: Settings]
  PROVE  /\ c.options \in Options /\ c.shape \in Shapes /\ c.defaults \in Settings
         /\ c = Current(c.options, c.shape, c.defaults)
         /\ \A o \in Options : [c EXCEPT !.options = o] = Current(o, c.shape, c.defaults)
  BY DEF Current

LEMMA FormIndInit == FormInit => FormInd
<1> SUFFICES ASSUME FormInit PROVE FormInd
  OBVIOUS
<1> DEFINE none == [k \in Styles |-> None]
<1>1. none \in Settings /\ none \in [Styles -> Offers \union {Odd, None}]
  BY DEF Settings
<1>2. Bare \in Options
  <2>1. <<>> \in Seq(ChartColumns)
    OBVIOUS
  <2> HIDE DEF none
  <2>2. Bare = [style |-> none, xColumn |-> None, yColumns |-> <<>>, nodesTable |-> None, nodeColumn |-> None]
    BY DEF Bare, none
  <2> QED
    BY <1>1, <2>1, <2>2 DEF Options
<1>3. [cols |-> {}, tables |-> {}] \in Shapes
  BY DEF Shapes
<1>4. current \in [options: Options, shape: Shapes, defaults: Settings] /\ setting \in Settings
  BY <1>1, <1>2, <1>3 DEF FormInit, Current
<1>5. FormTypeOK
  <2>1. /\ <<>> \in Seq([command: Commands, options: Options \union {None}])
        /\ <<>> \in Seq([page: BOOLEAN, form: Forms \union {None}])
    OBVIOUS
  <2>2. 0 \in 0 .. MaxFormActs /\ 0 \in 0 .. MaxShows
    BY FormAssumption
  <2>3. misled \in BOOLEAN
    BY DEF FormInit
  <2> QED
    BY <1>4, <2>1, <2>2, <2>3 DEF FormTypeOK, FormInit
<1>6. Gone(forms, form) /\ ~HasEdit(posts) /\ EditsFirst(posts)
  BY DEF FormInit, Gone, HasEdit, EditsFirst
<1>7. FormsAreBuilt /\ PostsFit /\ DataIsKept
  BY DEF FormsAreBuilt, PostsFit, DataIsKept, FormInit
<1> QED
  BY <1>5, <1>6, <1>7 DEF FormInd, ChartIsCurrent, EditsComeFirst, FormWillAgree

LEMMA ShowChartKeeps ==
  ASSUME FormInd, NEW o \in Options, NEW s \in Shapes, ShowChart(o, s)
  PROVE  FormInd'
<1> USE DEF FormInd
<1> DEFINE f == Form(o, s, setting)
           c == Content(TRUE, f)
<1>1. /\ shows < MaxShows /\ shows' = shows + 1
      /\ chart' = o /\ current' = Current(o, s, setting) /\ drawn' = Drawn(o)
      /\ forms' = Append(forms, c) /\ wanted' = LookOf(f)
      /\ misled' = \E i \in DOMAIN posts : IsEdit(posts[i])
      /\ UNCHANGED <<setting, posts, form, formActs>>
  BY DEF ShowChart
<1>2. /\ f \in Forms /\ f # None /\ ShowsOffers(f) /\ Built(f, Current(o, s, setting))
  BY FormBuilt DEF FormTypeOK
<1>3. c \in Contents /\ c.form = f /\ c.page
  BY <1>2 DEF Content, Contents
<1> HIDE DEF f, c
<1>4. /\ forms' \in Seq(Contents) /\ forms' # <<>> /\ LastForm(forms', form) = f
      /\ \A i \in DOMAIN forms' : /\ forms'[i].form # None => ShowsOffers(forms'[i].form)
                                  /\ ~forms'[i].page => forms'[i].form # None
  BY <1>1, <1>2, <1>3, ContentAppended DEF FormTypeOK, FormsAreBuilt, Contents
<1>5. ~Gone(forms', form')
  BY <1>1, <1>2, <1>3, GoneAppended DEF FormTypeOK, Contents
<1>6. FormTypeOK'
  <2>1. current' \in [options: Options, shape: Shapes, defaults: Settings]
    BY <1>1 DEF FormTypeOK, Current
  <2>2. drawn' \in [options: Options, defaults: Settings]
    BY <1>1 DEF FormTypeOK, Drawn
  <2>3. shows' \in 0 .. MaxShows /\ misled' \in BOOLEAN
    BY <1>1, FormAssumption DEF FormTypeOK
  <2> QED
    BY <1>1, <1>4, <2>1, <2>2, <2>3 DEF FormTypeOK, Contents
<1>7. FormsAreBuilt' /\ PostsFit'
  BY <1>1, <1>4 DEF FormsAreBuilt, PostsFit
<1>8. ChartIsCurrent'
  <2>1. drawn' \in [options: Options, defaults: Settings] /\ drawn'.options = o
    BY <1>1 DEF FormTypeOK, Drawn
  <2>2. current'.options = o
    BY <1>1 DEF Current
  <2> QED
    BY <1>1, <2>1, <2>2 DEF ChartIsCurrent
<1>9. DataIsKept'
  BY <1>5 DEF DataIsKept
<1>10. ~misled' => ~HasEdit(posts')
  BY <1>1 DEF HasEdit
<1>11. EditsComeFirst'
  BY <1>10 DEF EditsComeFirst, EditsFirst, HasEdit
<1>12. FormWillAgree'
  BY <1>1, <1>2, <1>4, <1>10 DEF FormWillAgree
<1> QED
  BY <1>6, <1>7, <1>8, <1>9, <1>11, <1>12

LEMMA ShowDataKeeps ==
  ASSUME FormInd, NEW o \in Options \union {None}, ShowData(o)
  PROVE  FormInd'
<1> USE DEF FormInd
<1> DEFINE c == Content(TRUE, None)
<1>1. /\ shows < MaxShows /\ shows' = shows + 1 /\ chart' = o /\ drawn' = None
      /\ forms' = Append(forms, c) /\ wanted' = o /\ misled' = (posts # <<>>)
      /\ UNCHANGED <<setting, current, posts, form, formActs>>
  BY DEF ShowData
<1>2. c \in Contents /\ c.form = None /\ c.page
  BY DEF Content, Contents
<1> HIDE DEF c
<1>3. /\ forms' \in Seq(Contents)
      /\ \A i \in DOMAIN forms' : /\ forms'[i].form # None => ShowsOffers(forms'[i].form)
                                  /\ ~forms'[i].page => forms'[i].form # None
  BY <1>1, <1>2, ContentAppended DEF FormTypeOK, FormsAreBuilt, Contents
<1>4. Gone(forms', form')
  BY <1>1, <1>2, GoneAppended DEF FormTypeOK, Contents
<1>5. FormTypeOK'
  <2>1. shows' \in 0 .. MaxShows /\ misled' \in BOOLEAN
    BY <1>1, FormAssumption DEF FormTypeOK
  <2> QED
    BY <1>1, <1>3, <2>1 DEF FormTypeOK, Contents
<1>6. FormsAreBuilt' /\ PostsFit'
  BY <1>1, <1>3 DEF FormsAreBuilt, PostsFit
<1>7. DataIsKept'
  BY <1>1 DEF DataIsKept
<1>8. EditsComeFirst'
  <2>1. ~misled' => posts = <<>>
    BY <1>1, Zenon
  <2>2. posts = <<>> => DOMAIN posts = {}
    OBVIOUS
  <2> QED
    BY <1>1, <2>1, <2>2 DEF EditsComeFirst, EditsFirst
<1> QED
  BY <1>4, <1>5, <1>6, <1>7, <1>8 DEF ChartIsCurrent, FormWillAgree

LEMMA ChangeSettingKeeps ==
  ASSUME FormInd, NEW d \in Settings, ChangeSetting(d)
  PROVE  FormInd'
<1>1. /\ setting' = d /\ formActs < MaxFormActs /\ formActs' = formActs + 1
      /\ UNCHANGED <<chart, current, posts, forms, form, drawn, shows, wanted, misled>>
  BY DEF ChangeSetting
<1>2. formActs' \in 0 .. MaxFormActs
  BY <1>1, FormAssumption DEF FormInd, FormTypeOK
<1> QED
  BY <1>1, <1>2 DEF FormInd, FormTypeOK, FormsAreBuilt, PostsFit, ChartIsCurrent, DataIsKept,
                    EditsComeFirst, FormWillAgree

LEMMA ReceiveOptionsKeeps ==
  ASSUME FormInd, ReceiveOptions
  PROVE  FormInd'
<1> USE DEF FormInd
<1> DEFINE o == posts[1].options
           z == Tail(posts)
<1>1. /\ z \in Seq(Posted) /\ Head(posts) = posts[1] /\ posts[1] \in Posted /\ 1 \in DOMAIN posts
      /\ HasEdit(z) => HasEdit(posts)
      /\ EditsFirst(posts) => EditsFirst(z)
      /\ \A v : LastEdit(posts, v) /\ HasEdit(z) => LastEdit(z, v)
      /\ \A v : LastEdit(posts, v) /\ ~HasEdit(z) /\ IsEdit(posts[1]) => posts[1].options = v
      /\ (\A i \in DOMAIN posts : IsEdit(posts[i]) => posts[i].options \in Options)
            => \A i \in DOMAIN z : IsEdit(z[i]) => z[i].options \in Options
  BY PostArrives DEF ReceiveOptions, FormTypeOK, Posted
<1>2. /\ posts # <<>> /\ IsEdit(posts[1]) /\ posts' = z
      /\ current' = [current EXCEPT !.options = o] /\ chart' = o /\ drawn' = Drawn(o)
      /\ UNCHANGED <<setting, forms, form, formActs, shows, wanted, misled>>
  BY <1>1 DEF ReceiveOptions, Applies
<1>3. o \in Options /\ HasEdit(posts)
  BY <1>1, <1>2 DEF PostsFit, HasEdit
<1>4. /\ current.options \in Options /\ current.shape \in Shapes /\ current.defaults \in Settings
      /\ current' = Current(o, current.shape, current.defaults)
  BY <1>2, <1>3, CurrentParts DEF FormTypeOK
<1> HIDE DEF z
<1>5. FormTypeOK'
  <2>1. current' \in [options: Options, shape: Shapes, defaults: Settings]
    BY <1>3, <1>4 DEF Current
  <2>2. drawn' \in [options: Options, defaults: Settings]
    BY <1>2, <1>3 DEF FormTypeOK, Drawn
  <2> QED
    BY <1>1, <1>2, <1>3, <2>1, <2>2 DEF FormTypeOK, Posted
<1>6. FormsAreBuilt' /\ PostsFit'
  BY <1>1, <1>2 DEF FormsAreBuilt, PostsFit
<1>7. ChartIsCurrent'
  <2>1. drawn'.options = o
    BY <1>2 DEF Drawn
  <2>2. current'.options = o
    BY <1>4 DEF Current
  <2> QED
    BY <1>2, <2>1, <2>2 DEF ChartIsCurrent
<1>8. DataIsKept'
  BY <1>2 DEF DataIsKept
<1>9. EditsComeFirst'
  BY <1>1, <1>2 DEF EditsComeFirst
<1>10. FormWillAgree'
  <2> SUFFICES ASSUME ~misled, ~Gone(forms, form)
               PROVE  /\ IF HasEdit(posts') THEN Edited(posts', forms, form, current')
                         ELSE Built(LastForm(forms, form), current')
                      /\ LookOf(LastForm(forms, form)) = wanted
    BY <1>2 DEF FormWillAgree
  <2>1. Edited(posts, forms, form, current) /\ LookOf(LastForm(forms, form)) = wanted
    BY <1>3 DEF FormWillAgree
  <2>2. /\ forms = <<>> /\ form # None /\ form.shape = current.shape /\ form.defaults = current.defaults
        /\ form.nodeCols = NodesCols(form.values, form.shape) /\ LastEdit(posts, form.values)
        /\ LastForm(forms, form) = form
    BY <2>1 DEF Edited, LastForm
  <2>3. current'.options = o /\ current'.shape = current.shape /\ current'.defaults = current.defaults
    BY <1>4 DEF Current
  <2>4. ASSUME HasEdit(posts') PROVE Edited(posts', forms, form, current')
    BY <1>1, <1>2, <2>2, <2>3, <2>4 DEF Edited
  <2>5. ASSUME ~HasEdit(posts') PROVE Built(form, current')
    <3>1. o = form.values
      BY <1>1, <1>2, <2>2, <2>5
    <3>2. Fit(form.values, form.shape, form.nodeCols) = form.values
      BY <2>2 DEF FormsAreBuilt, ShowsOffers
    <3> QED
      BY <2>2, <2>3, <3>1, <3>2 DEF Built
  <2> QED
    BY <2>1, <2>2, <2>4, <2>5
<1> QED
  BY <1>5, <1>6, <1>7, <1>8, <1>9, <1>10

LEMMA ReceiveActionKeeps ==
  ASSUME FormInd, ReceiveAction
  PROVE  FormInd'
<1> USE DEF FormInd
<1> DEFINE o == current.options
           s == current.shape
           d == current.defaults
           y == IF posts[1].command = "capture" THEN Capture(o, d) ELSE Restore(o, d)
           f == Form(y, s, d)
           c == Content(FALSE, f)
           z == Tail(posts)
<1>1. /\ z \in Seq(Posted) /\ Head(posts) = posts[1] /\ posts[1] \in Posted /\ 1 \in DOMAIN posts
      /\ HasEdit(z) => HasEdit(posts)
      /\ EditsFirst(posts) => EditsFirst(z)
      /\ EditsFirst(posts) /\ ~IsEdit(posts[1]) => ~HasEdit(posts)
      /\ (\A i \in DOMAIN posts : IsEdit(posts[i]) => posts[i].options \in Options)
            => \A i \in DOMAIN z : IsEdit(z[i]) => z[i].options \in Options
  BY PostArrives DEF ReceiveAction, FormTypeOK, Posted
<1>2. /\ posts # <<>> /\ ~IsEdit(posts[1]) /\ posts' = z
      /\ current' = [current EXCEPT !.options = y] /\ chart' = y /\ drawn' = Drawn(y)
      /\ forms' = Append(forms, c)
      /\ UNCHANGED <<setting, form, formActs, shows, wanted, misled>>
  BY <1>1 DEF ReceiveAction, Applies
<1>3. o \in Options /\ s \in Shapes /\ d \in Settings /\ current = Current(o, s, d)
  BY CurrentParts DEF FormTypeOK
<1>4. y \in Options /\ LookOf(f) = LookOf(Form(o, s, d))
  <2>1. Capture(o, d) \in Options /\ Restore(o, d) \in Options
    BY <1>3, Captured, Restored
  <2> QED
    BY <1>3, <2>1, ActionsKeepLooks
<1> HIDE DEF y, z
<1>5. current' = Current(y, s, d)
  BY <1>2, <1>4, CurrentParts DEF FormTypeOK
<1> HIDE DEF o, s, d
<1>6. /\ f \in Forms /\ f # None /\ ShowsOffers(f) /\ Built(f, Current(y, s, d))
  BY <1>3, <1>4, FormBuilt
<1>7. c \in Contents /\ c.form = f /\ ~c.page
  BY <1>6 DEF Content, Contents
<1> HIDE DEF f, c
<1>8. /\ forms' \in Seq(Contents) /\ forms' # <<>> /\ LastForm(forms', form) = f
      /\ \A i \in DOMAIN forms' : /\ forms'[i].form # None => ShowsOffers(forms'[i].form)
                                  /\ ~forms'[i].page => forms'[i].form # None
  BY <1>2, <1>6, <1>7, ContentAppended DEF FormTypeOK, FormsAreBuilt, Contents
<1>9. Gone(forms', form') <=> Gone(forms, form)
  BY <1>2, <1>7, GoneAppended DEF FormTypeOK, Contents
<1>10. FormTypeOK'
  <2>1. current' \in [options: Options, shape: Shapes, defaults: Settings]
    BY <1>3, <1>4, <1>5 DEF Current
  <2>2. drawn' \in [options: Options, defaults: Settings]
    BY <1>2, <1>4 DEF FormTypeOK, Drawn
  <2> QED
    BY <1>1, <1>2, <1>4, <1>8, <2>1, <2>2 DEF FormTypeOK, Posted, Contents
<1>11. FormsAreBuilt' /\ PostsFit'
  BY <1>1, <1>2, <1>8 DEF FormsAreBuilt, PostsFit
<1>12. ChartIsCurrent'
  <2>1. drawn'.options = y
    BY <1>2 DEF Drawn
  <2>2. current'.options = y
    BY <1>5 DEF Current
  <2> QED
    BY <1>2, <2>1, <2>2 DEF ChartIsCurrent
<1>13. DataIsKept'
  BY <1>2, <1>9 DEF DataIsKept
<1>14. EditsComeFirst'
  BY <1>1, <1>2 DEF EditsComeFirst
<1>15. FormWillAgree'
  <2> SUFFICES ASSUME ~misled, ~Gone(forms, form)
               PROVE  /\ IF HasEdit(posts') THEN Edited(posts', forms', form, current')
                         ELSE Built(LastForm(forms', form), current')
                      /\ LookOf(LastForm(forms', form)) = wanted
    BY <1>2, <1>9 DEF FormWillAgree
  <2>1. ~HasEdit(posts) /\ ~HasEdit(posts')
    BY <1>1, <1>2 DEF EditsComeFirst
  <2>2. Built(LastForm(forms, form), current) /\ LookOf(LastForm(forms, form)) = wanted
    BY <2>1 DEF FormWillAgree
  <2>3. LastForm(forms, form) \in Forms
    <3>1. LastForm(forms, form) \in Forms \union {None}
      <4>1. CASE forms = <<>>
        BY <4>1 DEF LastForm, FormTypeOK
      <4>2. CASE forms # <<>>
        <5>1. Len(forms) \in DOMAIN forms /\ DOMAIN forms = 1 .. Len(forms) /\ forms \in Seq(Contents)
          BY <4>2, LenProperties, EmptySeq DEF FormTypeOK, Contents
        <5>2. forms[Len(forms)] \in Contents
          BY <5>1, ElementOfSeq
        <5> QED
          BY <4>2, <5>2 DEF LastForm, Contents
      <4> QED
        BY <4>1, <4>2
    <3> QED
      BY <2>2, <3>1 DEF Built
  <2>4. LookOf(f) = wanted
    BY <1>3, <1>4, <2>2, <2>3, BuiltLooks DEF f
  <2> QED
    BY <1>5, <1>6, <1>8, <2>1, <2>4
<1> QED
  BY <1>10, <1>11, <1>12, <1>13, <1>14, <1>15

LEMMA PageReceivesFormKeeps ==
  ASSUME FormInd, PageReceivesForm
  PROVE  FormInd'
<1> USE DEF FormInd
<1> DEFINE y == forms[1]
           z == Tail(forms)
           g == IF y.page \/ form # None THEN y.form ELSE None
<1>1. /\ z \in Seq(Contents) /\ Head(forms) = y /\ y \in Contents /\ 1 \in DOMAIN forms
      /\ y.form # None => ShowsOffers(y.form)
      /\ ~y.page => y.form # None
      /\ \A a, b : z # <<>> => LastForm(z, a) = LastForm(forms, b)
      /\ \A b : z = <<>> => LastForm(forms, b) = y.form
      /\ \A i \in DOMAIN z : /\ z[i].form # None => ShowsOffers(z[i].form)
                             /\ ~z[i].page => z[i].form # None
  BY ContentArrives DEF PageReceivesForm, FormTypeOK, Contents, FormsAreBuilt
<1>2. /\ forms # <<>> /\ forms' = z /\ form' = g
      /\ UNCHANGED <<setting, chart, current, posts, drawn, formActs, shows, wanted, misled>>
  BY <1>1 DEF PageReceivesForm
<1>3. Gone(z, g) <=> Gone(forms, form)
  <2>1. forms \in Seq(Contents) /\ forms # <<>> /\ (~forms[1].page => forms[1].form # None)
    BY <1>1, <1>2 DEF FormTypeOK, Contents
  <2>2. g = IF forms[1].page \/ form # None THEN forms[1].form ELSE None
    OBVIOUS
  <2> HIDE DEF g
  <2> QED
    BY <2>1, <2>2, GoneArrives
<1>4. g \in Forms \union {None} /\ (g # None => ShowsOffers(g))
  BY <1>1 DEF Contents
<1>5. z = <<>> /\ ~Gone(z, g) => g # None /\ g = y.form
  <2>1. Gone(<<>>, None)
    BY DEF Gone
  <2> QED
    BY <2>1
<1> HIDE DEF y, z, g
<1>6. FormTypeOK'
  BY <1>1, <1>2, <1>4 DEF FormTypeOK, Contents
<1>7. FormsAreBuilt' /\ PostsFit'
  BY <1>1, <1>2, <1>4 DEF FormsAreBuilt, PostsFit
<1>8. ChartIsCurrent' /\ DataIsKept' /\ EditsComeFirst'
  BY <1>2, <1>3 DEF ChartIsCurrent, DataIsKept, EditsComeFirst
<1>9. FormWillAgree'
  <2> SUFFICES ASSUME ~misled, ~Gone(z, g)
               PROVE  /\ IF HasEdit(posts) THEN Edited(posts, z, g, current)
                         ELSE Built(LastForm(z, g), current)
                      /\ LookOf(LastForm(z, g)) = wanted
    BY <1>2 DEF FormWillAgree
  <2>1. ~HasEdit(posts)
    BY <1>2, <1>3 DEF FormWillAgree, Edited
  <2>2. Built(LastForm(forms, form), current) /\ LookOf(LastForm(forms, form)) = wanted
    BY <1>3, <2>1 DEF FormWillAgree
  <2>3. LastForm(z, g) = LastForm(forms, form)
    <3>1. CASE z = <<>>
      <4>1. LastForm(z, g) = g
        BY <3>1 DEF LastForm
      <4> QED
        BY <1>1, <1>5, <3>1, <4>1
    <3>2. CASE z # <<>>
      BY <1>1, <3>2
    <3> QED
      BY <3>1, <3>2
  <2> QED
    BY <2>1, <2>2, <2>3
<1> QED
  BY <1>6, <1>7, <1>8, <1>9

\* An edit: the form shown becomes f, which is posted.
LEMMA EditKeeps ==
  ASSUME FormInd, form # None, NEW f \in Forms, FormBecomes(f),
         f.shape = form.shape, f.defaults = form.defaults, ShowsOffers(f)
  PROVE  FormInd'
<1> USE DEF FormInd
<1> DEFINE x == FormPost("chartOptionsChanged", f.values)
           acts == \E i \in DOMAIN posts : ~IsEdit(posts[i])
<1>1. /\ formActs < MaxFormActs /\ formActs' = formActs + 1 /\ form' = f /\ wanted' = LookOf(f)
      /\ posts' = Append(posts, x)
      /\ misled' = (misled \/ forms # <<>> \/ AutoMisleads(f) \/ acts)
      /\ UNCHANGED <<setting, chart, current, forms, drawn, shows>>
  BY DEF FormBecomes, Acts
<1>2. /\ x \in Posted /\ IsEdit(x) /\ x.options = f.values /\ f.values \in Options /\ f # None
  BY ChartsAssumption DEF Posted, FormPost, IsEdit, Commands, Forms
<1> HIDE DEF x
<1>3. /\ posts' \in Seq(Posted) /\ posts' # <<>> /\ HasEdit(posts')
      /\ EditsFirst(posts) /\ (\A i \in DOMAIN posts : IsEdit(posts[i])) => EditsFirst(posts')
      /\ LastEdit(posts', f.values)
      /\ \A i \in DOMAIN posts' : IsEdit(posts'[i]) => posts'[i].options \in Options
  BY <1>1, <1>2, PostAppended DEF FormTypeOK, Posted, PostsFit
<1>4. ~misled' => /\ ~misled /\ forms = <<>> /\ f.nodeCols = NodesCols(f.values, f.shape)
                  /\ \A i \in DOMAIN posts : IsEdit(posts[i])
  <2>1. ~misled' => ~misled /\ forms = <<>> /\ ~AutoMisleads(f) /\ ~acts
    BY <1>1, Zenon
  <2> QED
    BY <2>1 DEF AutoMisleads
<1>5. FormTypeOK'
  <2>1. formActs' \in 0 .. MaxFormActs /\ misled' \in BOOLEAN
    BY <1>1, FormAssumption DEF FormTypeOK
  <2> QED
    BY <1>1, <1>2, <1>3, <2>1 DEF FormTypeOK, Posted
<1> HIDE DEF acts
<1>6. FormsAreBuilt' /\ PostsFit'
  BY <1>1, <1>2, <1>3 DEF FormsAreBuilt, PostsFit
<1>7. Gone(forms', form') => Gone(forms, form)
  BY <1>1, <1>2 DEF Gone
<1>8. ~Gone(<<>>, form) /\ ~Gone(<<>>, f)
  BY <1>2 DEF Gone
<1>9. Gone(forms, form) => Gone(forms', form')
  BY <1>1 DEF Gone
<1>10. ChartIsCurrent'
  BY <1>1, <1>9 DEF ChartIsCurrent
<1>11. DataIsKept'
  BY <1>1, <1>4, <1>8 DEF DataIsKept
<1>12. EditsComeFirst'
  BY <1>3, <1>4 DEF EditsComeFirst
<1>13. FormWillAgree'
  <2> SUFFICES ASSUME ~misled'
               PROVE  /\ Edited(posts', forms', form', current')
                      /\ LookOf(LastForm(forms', form')) = wanted'
    BY <1>3 DEF FormWillAgree
  <2>1. ~misled /\ forms = <<>> /\ ~Gone(forms, form)
    BY <1>4, <1>8
  <2>2. LastForm(forms, form) = form /\ LastForm(forms', form') = f
    BY <1>1, <2>1 DEF LastForm
  <2>3. form.shape = current.shape /\ form.defaults = current.defaults
    BY <2>1, <2>2 DEF FormWillAgree, Edited, Built
  <2>4. Edited(posts', forms', form', current')
    BY <1>1, <1>2, <1>3, <1>4, <2>1, <2>3 DEF Edited
  <2> QED
    BY <1>1, <2>2, <2>4
<1> QED
  BY <1>5, <1>6, <1>10, <1>11, <1>12, <1>13

LEMMA RunDefaultsKeeps ==
  ASSUME FormInd, NEW a \in {"capture", "restore"}, RunDefaults(a)
  PROVE  FormInd'
<1> USE DEF FormInd
<1> DEFINE x == FormPost(a, None)
           paged == \E i \in DOMAIN forms : forms[i].page
<1>1. /\ form # None /\ formActs < MaxFormActs /\ formActs' = formActs + 1
      /\ posts' = Append(posts, x) /\ misled' = (misled \/ paged)
      /\ UNCHANGED <<setting, chart, current, forms, form, drawn, shows, wanted>>
  BY DEF RunDefaults, Acts
<1>2. x \in Posted /\ ~IsEdit(x)
  BY DEF Posted, FormPost, IsEdit, Commands
<1> HIDE DEF x
<1>3. /\ posts' \in Seq(Posted) /\ posts' # <<>> /\ (HasEdit(posts') <=> HasEdit(posts))
      /\ EditsFirst(posts) => EditsFirst(posts')
      /\ \A v : LastEdit(posts, v) => LastEdit(posts', v)
      /\ \A i \in DOMAIN posts' : IsEdit(posts'[i]) => posts'[i].options \in Options
  BY <1>1, <1>2, PostAppended DEF FormTypeOK, Posted, PostsFit
<1>4. ~misled' => ~misled /\ ~paged
  BY <1>1, Zenon
<1>5. FormTypeOK'
  <2>1. formActs' \in 0 .. MaxFormActs /\ misled' \in BOOLEAN
    BY <1>1, FormAssumption DEF FormTypeOK
  <2> QED
    BY <1>1, <1>3, <2>1 DEF FormTypeOK, Posted
<1>6. FormsAreBuilt' /\ PostsFit'
  BY <1>1, <1>3 DEF FormsAreBuilt, PostsFit
<1>7. ~paged => ~Gone(forms, form)
  BY <1>1 DEF Gone
<1> HIDE DEF paged
<1>8. ChartIsCurrent'
  BY <1>1 DEF ChartIsCurrent
<1>9. DataIsKept'
  BY <1>1, <1>4, <1>7 DEF DataIsKept
<1>10. EditsComeFirst'
  BY <1>3, <1>4 DEF EditsComeFirst
<1>11. FormWillAgree'
  BY <1>1, <1>3, <1>4 DEF FormWillAgree, Edited
<1> QED
  BY <1>5, <1>6, <1>8, <1>9, <1>10, <1>11

\* A form offers what it shows, field by field.
Offering(f) ==
    /\ \A k \in Styles : f.values.style[k] \in Offers \union {None}
    /\ f.values.xColumn \in f.shape.cols \union {None}
    /\ f.values.nodesTable \in f.shape.tables \union {None}
    /\ f.values.nodeColumn \in f.nodeCols \union {None}
    /\ f.values.nodesTable # None => f.nodeCols = NodeColumns(f.values.nodesTable)

LEMMA OfferedField ==
  ASSUME NEW v, NEW S
  PROVE  Offered(v, S) = v <=> v \in S \union {None}
  BY DEF Offered

LEMMA OffersShown ==
  ASSUME NEW f \in Forms
  PROVE  ShowsOffers(f) <=> Offering(f)
<1> DEFINE v == f.values
           z == Fit(v, f.shape, f.nodeCols)
<1>1. v \in Options /\ f.shape \in Shapes /\ f.nodeCols \in SUBSET (Tables \union {Key})
  BY DEF Forms
<1>2. /\ z \in Options
      /\ \A k \in Styles : z.style[k] = Offered(v.style[k], Offers)
      /\ z.xColumn = Offered(v.xColumn, f.shape.cols) /\ z.yColumns = v.yColumns
      /\ z.nodesTable = Offered(v.nodesTable, f.shape.tables)
      /\ z.nodeColumn = Offered(v.nodeColumn, f.nodeCols)
  BY <1>1, Fitted
<1>3. ShowsOffers(f) <=> z = v /\ (v.nodesTable # None => f.nodeCols = NodeColumns(v.nodesTable))
  BY DEF ShowsOffers
<1> HIDE DEF v, z
<1>4. z = v <=> /\ \A k \in Styles : Offered(v.style[k], Offers) = v.style[k]
                /\ Offered(v.xColumn, f.shape.cols) = v.xColumn
                /\ Offered(v.nodesTable, f.shape.tables) = v.nodesTable
                /\ Offered(v.nodeColumn, f.nodeCols) = v.nodeColumn
  BY <1>1, <1>2, SameOptions
<1>5. z = v <=> /\ \A k \in Styles : v.style[k] \in Offers \union {None}
                /\ v.xColumn \in f.shape.cols \union {None}
                /\ v.nodesTable \in f.shape.tables \union {None}
                /\ v.nodeColumn \in f.nodeCols \union {None}
  BY <1>4, OfferedField
<1> QED
  BY <1>3, <1>5 DEF Offering, v

LEMMA ChooseStyleKeeps ==
  ASSUME FormInd, form # None, NEW k \in Styles, NEW v \in Offers \union {None}, ChooseStyle(k, v)
  PROVE  FormInd'
<1> DEFINE f == [form EXCEPT !.values.style[k] = v]
<1>1. form \in Forms /\ Offering(form)
  BY OffersShown DEF FormInd, FormTypeOK, FormsAreBuilt
<1>2. f \in Forms
  BY <1>1 DEF Forms, Options
<1>3. /\ f.shape = form.shape /\ f.defaults = form.defaults /\ f.nodeCols = form.nodeCols
      /\ f.values.xColumn = form.values.xColumn /\ f.values.nodesTable = form.values.nodesTable
      /\ f.values.nodeColumn = form.values.nodeColumn
      /\ \A j \in Styles : f.values.style[j] = IF j = k THEN v ELSE form.values.style[j]
  BY <1>1 DEF Forms, Options
<1>4. FormBecomes(f)
  BY DEF ChooseStyle
<1> HIDE DEF f
<1>5. Offering(f)
  BY <1>1, <1>3 DEF Offering
<1> QED
  BY <1>2, <1>3, <1>4, <1>5, OffersShown, EditKeeps

LEMMA ChooseXKeeps ==
  ASSUME FormInd, form # None, NEW c, ChooseX(c)
  PROVE  FormInd'
<1> DEFINE f == [form EXCEPT !.values.xColumn = c]
<1>1. form \in Forms /\ Offering(form)
  BY OffersShown DEF FormInd, FormTypeOK, FormsAreBuilt
<1>2. c \in form.shape.cols \union {None} /\ c \in ChartColumns \union {None} /\ FormBecomes(f)
  BY <1>1 DEF ChooseX, Forms, Shapes
<1>3. f \in Forms
  BY <1>1, <1>2 DEF Forms, Options
<1>4. /\ f.shape = form.shape /\ f.defaults = form.defaults /\ f.nodeCols = form.nodeCols
      /\ f.values.xColumn = c /\ f.values.nodesTable = form.values.nodesTable
      /\ f.values.nodeColumn = form.values.nodeColumn
      /\ f.values.style = form.values.style
  BY <1>1 DEF Forms, Options
<1> HIDE DEF f
<1>5. Offering(f)
  BY <1>1, <1>2, <1>4 DEF Offering
<1> QED
  BY <1>2, <1>3, <1>4, <1>5, OffersShown, EditKeeps

LEMMA ChooseNodeColumnKeeps ==
  ASSUME FormInd, form # None, NEW c, ChooseNodeColumn(c)
  PROVE  FormInd'
<1> DEFINE f == [form EXCEPT !.values.nodeColumn = c]
<1>1. form \in Forms /\ Offering(form)
  BY OffersShown DEF FormInd, FormTypeOK, FormsAreBuilt
<1>2. c \in form.nodeCols \union {None} /\ c \in Tables \union {Key, None} /\ FormBecomes(f)
  BY <1>1 DEF ChooseNodeColumn, Forms
<1>3. f \in Forms
  BY <1>1, <1>2 DEF Forms, Options
<1>4. /\ f.shape = form.shape /\ f.defaults = form.defaults /\ f.nodeCols = form.nodeCols
      /\ f.values.xColumn = form.values.xColumn /\ f.values.nodesTable = form.values.nodesTable
      /\ f.values.nodeColumn = c
      /\ f.values.style = form.values.style
  BY <1>1 DEF Forms, Options
<1> HIDE DEF f
<1>5. Offering(f)
  BY <1>1, <1>2, <1>4 DEF Offering
<1> QED
  BY <1>2, <1>3, <1>4, <1>5, OffersShown, EditKeeps

\* An edit of the list of columns.
LEMMA YColumnsKeep ==
  ASSUME FormInd, form # None, NEW ys \in Seq(ChartColumns), FormBecomes([form EXCEPT !.values.yColumns = ys])
  PROVE  FormInd'
<1> DEFINE f == [form EXCEPT !.values.yColumns = ys]
<1>1. form \in Forms /\ Offering(form)
  BY OffersShown DEF FormInd, FormTypeOK, FormsAreBuilt
<1>2. f \in Forms
  BY <1>1 DEF Forms, Options
<1>3. /\ f.shape = form.shape /\ f.defaults = form.defaults /\ f.nodeCols = form.nodeCols
      /\ f.values.xColumn = form.values.xColumn /\ f.values.nodesTable = form.values.nodesTable
      /\ f.values.nodeColumn = form.values.nodeColumn
      /\ f.values.style = form.values.style
  BY <1>1 DEF Forms, Options
<1> HIDE DEF f
<1>4. Offering(f)
  BY <1>1, <1>3 DEF Offering
<1> QED
  BY <1>2, <1>3, <1>4, OffersShown, EditKeeps DEF f

LEMMA YColumnsOf ==
  ASSUME FormInd, form # None
  PROVE  form.values.yColumns \in Seq(ChartColumns)
  BY DEF FormInd, FormTypeOK, Forms, Options

LEMMA AddYKeeps ==
  ASSUME FormInd, form # None, NEW c \in ChartColumns, AddY(c)
  PROVE  FormInd'
<1> DEFINE ys == Append(form.values.yColumns, c)
<1>1. ys \in Seq(ChartColumns)
  BY YColumnsOf
<1>2. FormBecomes([form EXCEPT !.values.yColumns = ys])
  BY DEF AddY
<1> HIDE DEF ys
<1> QED
  BY <1>1, <1>2, YColumnsKeep

LEMMA RemoveYKeeps ==
  ASSUME FormInd, form # None, NEW i \in DOMAIN form.values.yColumns, RemoveY(i)
  PROVE  FormInd'
<1> DEFINE ys == RemoveAt(form.values.yColumns, i)
<1>1. i \in 1 .. Len(form.values.yColumns)
  BY YColumnsOf
<1>2. ys \in Seq(ChartColumns)
  BY <1>1, YColumnsOf, RemoveAtProperties
<1>3. FormBecomes([form EXCEPT !.values.yColumns = ys])
  BY DEF RemoveY
<1> HIDE DEF ys
<1> QED
  BY <1>2, <1>3, YColumnsKeep

LEMMA MoveDownKeeps ==
  ASSUME FormInd, form # None, NEW i \in DOMAIN form.values.yColumns, MoveDown(i)
  PROVE  FormInd'
<1> DEFINE q == form.values.yColumns
           ys == IF i = Len(q) THEN q ELSE [q EXCEPT ![i] = q[i + 1], ![i + 1] = q[i]]
<1>1. q \in Seq(ChartColumns) /\ Len(q) \in Nat /\ i \in 1 .. Len(q) /\ DOMAIN q = 1 .. Len(q)
  BY YColumnsOf, LenProperties
<1>2. FormBecomes([form EXCEPT !.values.yColumns = ys])
  BY DEF MoveDown
<1> HIDE DEF q
<1>3. ys \in Seq(ChartColumns)
  <2>1. CASE i = Len(q)
    BY <1>1, <2>1
  <2>2. CASE i # Len(q)
    <3>1. i + 1 \in 1 .. Len(q)
      BY <1>1, <2>2
    <3>2. q[i] \in ChartColumns /\ q[i + 1] \in ChartColumns /\ q \in [1 .. Len(q) -> ChartColumns]
      BY <1>1, <3>1, ElementOfSeq
    <3>3. ys \in [1 .. Len(q) -> ChartColumns]
      BY <2>2, <3>1, <3>2
    <3> QED
      BY <1>1, <3>3, FunctionIsSeq
  <2> QED
    BY <2>1, <2>2
<1> HIDE DEF ys
<1> QED
  BY <1>2, <1>3, YColumnsKeep

LEMMA ChooseNodesTableKeeps ==
  ASSUME FormInd, form # None, NEW t, ChooseNodesTable(t)
  PROVE  FormInd'
<1> DEFINE cols == IF t = None THEN form.autoCols ELSE NodeColumns(t)
           c == Offered(form.values.nodeColumn, cols)
           f == [form EXCEPT !.values.nodesTable = t, !.nodeCols = cols, !.values.nodeColumn = c]
<1>1. form \in Forms /\ Offering(form)
  BY OffersShown DEF FormInd, FormTypeOK, FormsAreBuilt
<1>2. t \in form.shape.tables \union {None} /\ t \in Tables \union {None}
  BY <1>1 DEF ChooseNodesTable, Forms, Shapes
<1>3. FormBecomes(f)
  <2>1. f = [form EXCEPT !.values.nodesTable = t, !.nodeCols = cols, !.values.nodeColumn = Offered(@, cols)]
    BY <1>1 DEF Forms, Options
  <2> QED
    BY <2>1 DEF ChooseNodesTable
<1>4. cols \in SUBSET (Tables \union {Key}) /\ (t # None => cols = NodeColumns(t))
  BY <1>1, <1>2 DEF Forms, NodeColumns
<1>5. c \in cols \union {None}
  BY DEF Offered
<1> HIDE DEF cols, c
<1>6. f \in Forms
  BY <1>1, <1>2, <1>4, <1>5 DEF Forms, Options
<1>7. /\ f.shape = form.shape /\ f.defaults = form.defaults /\ f.nodeCols = cols
      /\ f.values.xColumn = form.values.xColumn /\ f.values.nodesTable = t
      /\ f.values.nodeColumn = c
      /\ f.values.style = form.values.style
  BY <1>1 DEF Forms, Options
<1> HIDE DEF f
<1>8. Offering(f)
  BY <1>1, <1>2, <1>4, <1>5, <1>7 DEF Offering
<1> QED
  BY <1>3, <1>6, <1>7, <1>8, OffersShown, EditKeeps

LEMMA FormStepInd == FormInd /\ [FormNext]_formVars => FormInd'
<1> SUFFICES ASSUME FormInd, [FormNext]_formVars PROVE FormInd'
  OBVIOUS
<1>1. ASSUME NEW c \in Charts, ShowChart(c.options, c.shape) PROVE FormInd'
  <2>1. c.options \in Options /\ c.shape \in Shapes
    BY ChartsAssumption
  <2> QED
    BY <1>1, <2>1, ShowChartKeeps
<1>2. ASSUME NEW c \in Charts, ShowData(c.options) PROVE FormInd'
  <2>1. c.options \in Options
    BY ChartsAssumption
  <2> QED
    BY <1>2, <2>1, ShowDataKeeps
<1>3. CASE ShowData(None)
  BY <1>3, ShowDataKeeps
<1>4. ASSUME NEW d \in Settings, ChangeSetting(d) PROVE FormInd'
  BY <1>4, ChangeSettingKeeps
<1>5. CASE form # None /\ EditForm
  BY <1>5, ChooseStyleKeeps, ChooseXKeeps, ChooseNodeColumnKeeps, AddYKeeps, RemoveYKeeps, MoveDownKeeps,
     ChooseNodesTableKeeps, RunDefaultsKeeps DEF EditForm
<1>6. CASE UNCHANGED formVars
  BY <1>6 DEF formVars, FormInd, FormTypeOK, FormsAreBuilt, PostsFit, ChartIsCurrent, DataIsKept,
              EditsComeFirst, FormWillAgree
<1> QED
  BY <1>1, <1>2, <1>3, <1>4, <1>5, <1>6, ReceiveOptionsKeeps, ReceiveActionKeeps, PageReceivesFormKeeps
     DEF FormNext

LEMMA IndMakesFormsFaithful == FormInd => FormIsFaithful
<1> SUFFICES ASSUME FormInd PROVE FormIsFaithful
  OBVIOUS
<1> USE DEF FormInd
<1>1. Settled => (Gone(forms, form) <=> form = None) /\ ~HasEdit(posts) /\ LastForm(forms, form) = form
  BY DEF Settled, Gone, HasEdit, LastForm
<1>2. EditorHasChart
  BY <1>1 DEF EditorHasChart, ChartIsCurrent
<1>3. Settled /\ ~misled /\ form # None =>
        /\ Built(form, current) /\ LookOf(form) = wanted /\ form \in Forms
        /\ Fit(current.options, form.shape, form.nodeCols) = form.values
  BY <1>1 DEF FormWillAgree, Built, FormTypeOK
<1>4. HostHasForm
  BY <1>1, <1>3 DEF HostHasForm, DataIsKept
<1>5. LooksAsWanted
  <2> SUFFICES ASSUME Settled, ~misled, form # None, drawn.defaults = form.defaults
               PROVE  [Fit(drawn.options, form.shape, form.nodeCols) EXCEPT !.style = Look(@, drawn.defaults)] = wanted
    BY <1>3 DEF LooksAsWanted
  <2>1. drawn.options = current.options
    BY <1>1 DEF ChartIsCurrent
  <2>2. Fit(drawn.options, form.shape, form.nodeCols) = form.values
    BY <1>3, <2>1
  <2> QED
    BY <1>3, <2>2 DEF LookOf
<1>6. NodeColumnExists
  <2> SUFFICES ASSUME form # None, form.values.nodesTable # None
               PROVE  form.values.nodeColumn \in NodeColumns(form.values.nodesTable) \union {None}
    BY DEF NodeColumnExists
  <2>1. Offering(form)
    BY OffersShown DEF FormTypeOK, FormsAreBuilt
  <2> QED
    BY <2>1 DEF Offering
<1> QED
  BY <1>2, <1>4, <1>5, <1>6 DEF FormIsFaithful

\* The form that edits a chart, the options the host keeps and the chart drawn agree
\* once their messages have arrived (setOptions, chartOptionsChanged, Capture and
\* Restore Defaults), for any columns, tables, charts and bounds.
THEOREM FormsAreFaithful == FormSpec => []FormIsFaithful
<1> QED
  BY FormIndInit, FormStepInd, IndMakesFormsFaithful, PTL DEF FormSpec

===============================================================================
