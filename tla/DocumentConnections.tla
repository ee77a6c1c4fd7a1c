------------------------ MODULE DocumentConnections ------------------------
(***************************************************************************)
(* Which cluster and database a document is connected to: what the         *)
(* ConnectionManager keeps, what the language server was told, what the    *)
(* connections tree selects and what the status bar shows.                 *)
(*                                                                         *)
(* Concurrency.  The extension host is one thread; an action is the code   *)
(* between two awaits.  Several calls of setDocumentConnection, tree       *)
(* updates and status-bar refreshes may be under way.  A look-up that      *)
(* finds a saved connection goes on at once; one that asks the server to   *)
(* infer the connection goes on when it answers.                           *)
(*                                                                         *)
(* Abstractions.  A connection is one value for cluster and database.      *)
(* What the server infers for a document does not change.  The map is      *)
(* written to workspace state in the step that changes it.                 *)
(***************************************************************************)
EXTENDS Client, FiniteSets

CONSTANTS
    Docs,           \* kusto documents
    Conns,          \* connections a document may have
    Assignments,          \* calls of setDocumentConnection under way at one time
    Updates,        \* tree updates under way at one time, for editor events
    Disconnected    \* the choice "no connection", and what shows for none

ASSUME DocumentAssumption ==
    /\ Disconnected \notin Conns /\ None \notin Conns \union Docs
    /\ None # Disconnected

VARIABLES
    inferred,       \* what the server infers from each document's text
    saved,          \* documentConnections
    serverHas,           \* sendDocumentConnectionChanged, per document
    active,         \* the active editor's document if it is a kusto document
    assignments,          \* setDocumentConnection calls: at, doc, conn
    fromTree,       \* isTreeSelectionChangingConnection
    updates,        \* updateTreeSelectionForActiveDocument for editor events
    item,           \* the tree item selected
    bar,            \* what the status bar shows
    refreshes,      \* refreshes of the bar waiting for an inferred connection
    disturbed       \* history: documents on which two of these overlapped, and
                    \* None when an editor was changed before the bar refreshed

docVars == <<inferred, saved, serverHas, active, assignments, fromTree, updates, item,
             bar, refreshes, disturbed>>

Shown == Conns \union {Disconnected}
Update == [at: {"infer", "fetch"}, doc: Docs, conn: Conns \union {None}]
Assignment == [at: {"infer", "store", "treeInfer", "treeFetch", "send"},
         doc: Docs, conn: Shown, found: Shown, tree: BOOLEAN]

\* None is no call under way.
ASSUME DocumentRecordAssumption == None \notin Update \union Assignment

DocTypeOK ==
    /\ inferred \in [Docs -> Conns \union {None}]
    /\ saved \in [Docs -> Shown \union {None}]
    /\ serverHas \in [Docs -> Shown]
    /\ active \in Docs \union {None}
    /\ assignments \in [Assignments -> Assignment \union {None}]
    /\ fromTree \in BOOLEAN
    /\ updates \in [Updates -> Update \union {None}]
    /\ item \in Shown /\ bar \in Shown
    /\ refreshes \subseteq Docs
    /\ disturbed \subseteq Docs \union {None}

OrDisconnected(x) == IF x = None THEN Disconnected ELSE x

\* getDocumentConnection, transient connections apart: an explicit "no
\* connection" is not inferred over.
DocumentConnection(d) == OrDisconnected(IF saved[d] = None THEN inferred[d] ELSE saved[d])

\* initialize: saved connections are loaded and every open document's reported;
\* the server may not be ready to infer one yet.
DocInit ==
    /\ inferred \in [Docs -> Conns \union {None}]
    /\ saved \in [Docs -> Shown \union {None}]
    /\ serverHas \in {t \in [Docs -> Shown] : \A d \in Docs :
          t[d] = DocumentConnection(d) \/ (saved[d] = None /\ t[d] = Disconnected)}
    /\ active = None
    /\ assignments = [c \in Assignments |-> None]
    /\ fromTree = FALSE
    /\ updates = [u \in Updates |-> None]
    /\ item = Disconnected /\ bar = Disconnected
    /\ refreshes = {}
    /\ disturbed = {}
-----------------------------------------------------------------------------
Busy(d) ==
    \/ \E c \in Assignments : assignments[c] # None /\ assignments[c].doc = d
    \/ \E u \in Updates : updates[u] # None /\ updates[u].doc = d
    \/ d \in refreshes

\* The history variable: an activity starts on d.
Overlaps(d) == IF Busy(d) THEN {d} ELSE {}
Begins(d) == disturbed' = disturbed \union Overlaps(d)

\* ConnectionStatusBar.refresh for the active document d (None: hidden).
RefreshBar(d) ==
    IF d = None THEN UNCHANGED <<bar, refreshes>>
    ELSE IF saved[d] = None THEN refreshes' = refreshes \union {d} /\ UNCHANGED bar
         ELSE bar' = DocumentConnection(d) /\ UNCHANGED refreshes

\* The bar shows the answer whatever document is active by then.
BarInferred(d) ==
    /\ d \in refreshes
    /\ bar' = OrDisconnected(inferred[d])
    /\ refreshes' = refreshes \ {d}
    /\ UNCHANGED <<inferred, saved, serverHas, active, assignments, fromTree, updates, item, disturbed>>

\* An editor becomes active: the bar refreshes; a kusto document is announced to
\* the server, whose answer documentReady updates the tree (ServerReady), for
\* any other the neutral item is selected.
ActivateEditor(d) ==
    /\ active' = d
    /\ RefreshBar(d)
    /\ item' = IF d = None THEN Disconnected ELSE item
    /\ disturbed' = disturbed \union (IF d = None THEN {} ELSE Overlaps(d))
                     \union (IF refreshes \ {d} # {} THEN {None} ELSE {})
    /\ UNCHANGED <<inferred, saved, serverHas, assignments, fromTree, updates>>

\* The start of updateTreeSelectionForActiveDocument, on documentReady, when
\* the tree becomes visible or when the server list changed: up to its await.
UpdateTree(u) ==
    /\ updates[u] = None /\ active # None
    /\ Begins(active)
    /\ IF saved[active] = None
       THEN /\ updates' = [updates EXCEPT ![u] = [at |-> "infer", doc |-> active, conn |-> None]]
            /\ UNCHANGED <<serverHas, item>>
       ELSE IF saved[active] = Disconnected
            THEN item' = Disconnected /\ UNCHANGED <<serverHas, updates>>
            ELSE /\ serverHas' = [serverHas EXCEPT ![active] = saved[active]]
                 /\ updates' = [updates EXCEPT ![u] =
                       [at |-> "fetch", doc |-> active, conn |-> saved[active]]]
                 /\ UNCHANGED item
    /\ UNCHANGED <<inferred, saved, active, assignments, fromTree, bar, refreshes>>

\* The server has inferred the connection: the rest up to findTreeItem's awaits.
UpdateInferred(u) ==
    /\ updates[u] # None /\ updates[u].at = "infer"
    /\ LET d == updates[u].doc IN
       IF inferred[d] = None
       THEN /\ item' = Disconnected
            /\ updates' = [updates EXCEPT ![u] = None]
            /\ UNCHANGED serverHas
       ELSE /\ serverHas' = [serverHas EXCEPT ![d] = inferred[d]]
            /\ updates' = [updates EXCEPT ![u].at = "fetch", ![u].conn = inferred[d]]
            /\ UNCHANGED item
    /\ UNCHANGED <<inferred, saved, active, assignments, fromTree, bar, refreshes, disturbed>>

\* The databases are fetched: the item is selected if some kusto editor is active.
UpdateRevealed(u) ==
    /\ updates[u] # None /\ updates[u].at = "fetch"
    /\ item' = IF active = None THEN item ELSE updates[u].conn
    /\ updates' = [updates EXCEPT ![u] = None]
    /\ UNCHANGED <<inferred, saved, serverHas, active, assignments, fromTree, bar, refreshes, disturbed>>
-----------------------------------------------------------------------------
\* Fault: what the user chose is saved only if there was no saved connection.
RemembersFirst(d, x, matches) ==
    saved' = [saved EXCEPT ![d] = IF matches THEN None ELSE IF @ = None THEN x ELSE @]

\* setDocumentConnection's choice between saving x and relying on inference.
Remembers(d, x, matches) == saved' = [saved EXCEPT ![d] = IF matches THEN None ELSE x]

\* setDocumentConnection up to its first await; the tree calls it when the user
\* selects an item, others (import, scratch pads, a query's directives) do too.
SetDocumentConnection(c, d, x, tree) ==
    /\ assignments[c] = None
    /\ Begins(d)
    /\ tree => d = active
    /\ item' = IF tree THEN x ELSE item
    /\ fromTree' = (fromTree \/ tree)
    /\ assignments' = [assignments EXCEPT ![c] = [at |-> IF x = Disconnected THEN "store" ELSE "infer",
                                      doc |-> d, conn |-> x, found |-> x, tree |-> tree]]
    /\ IF x = Disconnected THEN Remembers(d, x, FALSE) ELSE UNCHANGED saved
    /\ UNCHANGED <<inferred, serverHas, active, updates, bar, refreshes>>

\* The server answers, or inference fails: the map is changed and stored.
SetInferred(c, fails) ==
    /\ assignments[c] # None /\ assignments[c].at = "infer"
    /\ Remembers(assignments[c].doc, assignments[c].conn,
                 ~fails /\ inferred[assignments[c].doc] = assignments[c].conn)
    /\ assignments' = [assignments EXCEPT ![c].at = "store"]
    /\ UNCHANGED <<inferred, serverHas, active, fromTree, updates, item, bar, refreshes, disturbed>>

\* The tree update that call c awaits has found connection x of its document.
TreeFound(c, x) ==
    IF x = Disconnected
    THEN /\ assignments' = [assignments EXCEPT ![c].at = "send"]
         /\ item' = Disconnected
         /\ UNCHANGED serverHas
    ELSE /\ assignments' = [assignments EXCEPT ![c].at = "treeFetch", ![c].found = x]
         /\ serverHas' = [serverHas EXCEPT ![assignments[c].doc] = x]
         /\ UNCHANGED item

\* Stored; the listeners: the bar refreshes, and the tree is updated (awaited)
\* unless the tree itself is changing a connection.
SetStored(c) ==
    /\ assignments[c] # None /\ assignments[c].at = "store"
    /\ LET d == assignments[c].doc IN
       /\ RefreshBar(IF d = active THEN d ELSE None)
       /\ IF fromTree \/ d # active
          THEN assignments' = [assignments EXCEPT ![c].at = "send"] /\ UNCHANGED <<serverHas, item>>
          ELSE IF saved[d] = None
               THEN assignments' = [assignments EXCEPT ![c].at = "treeInfer"] /\ UNCHANGED <<serverHas, item>>
               ELSE TreeFound(c, saved[d])
    /\ UNCHANGED <<inferred, saved, active, fromTree, updates, disturbed>>

\* The awaited tree update: see UpdateInferred and UpdateRevealed.
SetTreeInferred(c) ==
    /\ assignments[c] # None /\ assignments[c].at = "treeInfer"
    /\ TreeFound(c, OrDisconnected(inferred[assignments[c].doc]))
    /\ UNCHANGED <<inferred, saved, active, fromTree, updates, bar, refreshes, disturbed>>

SetTreeRevealed(c) ==
    /\ assignments[c] # None /\ assignments[c].at = "treeFetch"
    /\ assignments' = [assignments EXCEPT ![c].at = "send"]
    /\ item' = IF active = None THEN item ELSE assignments[c].found
    /\ UNCHANGED <<inferred, saved, serverHas, active, fromTree, updates, bar, refreshes, disturbed>>

\* The end of setDocumentConnection, and of the tree's handler.
SetSent(c) ==
    /\ assignments[c] # None /\ assignments[c].at = "send"
    /\ serverHas' = [serverHas EXCEPT ![assignments[c].doc] = assignments[c].conn]
    /\ assignments' = [assignments EXCEPT ![c] = None]
    /\ fromTree' = (fromTree /\ ~assignments[c].tree)
    /\ UNCHANGED <<inferred, saved, active, updates, item, bar, refreshes, disturbed>>
-----------------------------------------------------------------------------
Answers ==
    \/ \E d \in Docs : BarInferred(d)
    \/ \E u \in Updates : UpdateInferred(u) \/ UpdateRevealed(u)
    \/ \E c \in Assignments :
          \/ \E fails \in BOOLEAN : SetInferred(c, fails)
          \/ SetStored(c) \/ SetTreeInferred(c) \/ SetTreeRevealed(c) \/ SetSent(c)

DocNext ==
    \/ \E d \in Docs \union {None} : ActivateEditor(d)
    \/ \E u \in Updates : UpdateTree(u)
    \/ \E c \in Assignments, d \in Docs, x \in Shown, tree \in BOOLEAN :
          SetDocumentConnection(c, d, x, tree)
    \/ Answers

DocSpec == DocInit /\ [][DocNext]_docVars
-----------------------------------------------------------------------------
\* Undisturbed, the server never has a connection for a document other than the
\* one the client would show: it may only be missing one it could infer.
ServerAgrees(d) ==
    \/ serverHas[d] = DocumentConnection(d)
    \/ saved[d] = None /\ serverHas[d] = Disconnected

ServerAgreesUndisturbed ==
    \A d \in Docs : ~Busy(d) /\ d \notin disturbed => ServerAgrees(d)

\* Undisturbed, the status bar shows the active document's connection.
BarAgreesUndisturbed ==
    (/\ active # None /\ ~Busy(active) /\ refreshes = {}
     /\ {None, active} \intersect disturbed = {})
    => bar = DocumentConnection(active)

\* The server and the status bar end with the connection in force (see the parts above).
AssignmentsAgree == DocTypeOK /\ ServerAgreesUndisturbed /\ BarAgreesUndisturbed
=============================================================================
