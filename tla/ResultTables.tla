----------------------------- MODULE ResultTables -----------------------------
(* What a results view does with its tables: their cells are selected      *)
(* (TableSelection), and the selection is told to the host and dragged     *)
(* out (TableDrag).  The two share no state: a choice of TableDrag stands  *)
(* for whatever is selected in a table.                                    *)
EXTENDS TableSelection, TableDrag

TablesSpec == SelSpec /\ DragSpec

\* A results view tells the host, and a drag carries, what is selected in its tables
\* (TableSelection and TableDrag).
TablesAreSound == SelectionIsSound /\ DragIsSound
===============================================================================
