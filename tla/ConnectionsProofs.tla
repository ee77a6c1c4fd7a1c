-------------------------- MODULE ConnectionsProofs --------------------------
(***************************************************************************)
(* Proofs about DocumentConnections, NotebookConnections, SchemaTree and   *)
(* ServerList, for any documents, cells, connections, clusters, names,     *)
(* databases and schemas, and any number of calls under way (finite for    *)
(* the server list).                                                       *)
(***************************************************************************)
EXTENDS DocumentConnections, NotebookConnections, SchemaTree, ServerList, FiniteSetTheorems,
        SequenceTheorems, TLAPS

\* Documents: calls and tree updates are on one document, and at most one of them
\* on a document that is not disturbed.
Assigns(c, d) == assignments[c] # None /\ assignments[c].doc = d
UpdatesOf(u, d) == updates[u] # None /\ updates[u].doc = d

OneActivity ==
    \A d \in Docs \ disturbed :
        /\ \A b, c \in Assignments : Assigns(b, d) /\ Assigns(c, d) => b = c
        /\ \A c \in Assignments, u \in Updates : ~(Assigns(c, d) /\ UpdatesOf(u, d))

\* A call is for the connection in force once that is stored; a tree update that
\* asks for an inferred connection is on a document that has none saved, and so is
\* a refresh of the bar, which begins once a call has stored its connection.
CallsHold ==
    /\ \A c \in Assignments, d \in Docs \ disturbed :
          Assigns(c, d) /\ assignments[c].at # "infer" => DocumentConnection(d) = assignments[c].conn
    /\ \A u \in Updates, d \in Docs \ disturbed :
          UpdatesOf(u, d) /\ updates[u].at = "infer" => saved[d] = None
    /\ \A d \in refreshes \ disturbed :
          /\ saved[d] = None
          /\ \A c \in Assignments : Assigns(c, d) => assignments[c].at \notin {"infer", "store"}

\* What a tree update reveals is a connection.
UpdatesFit == \A u \in Updates : updates[u] # None /\ updates[u].at = "fetch" => updates[u].conn # None

\* The server has the connection in force except while a call changes it.
ServerIsTold ==
    \A d \in Docs \ disturbed : (\A c \in Assignments : ~Assigns(c, d)) => ServerAgrees(d)

\* Only the active document's connection is awaited for the bar; it is shown, or is
\* awaited, or a call that has yet to store it will refresh the bar.
BarFollows ==
    None \notin disturbed =>
        /\ \A d \in refreshes : d = active
        /\ active \notin {None} \union disturbed =>
              \/ active \in refreshes
              \/ \E c \in Assignments : Assigns(c, active) /\ assignments[c].at \in {"infer", "store"}
              \/ bar = DocumentConnection(active)

DocInd ==
    DocTypeOK /\ OneActivity /\ CallsHold /\ UpdatesFit /\ ServerIsTold /\ BarFollows

-----------------------------------------------------------------------------
\* The types of the state.
LEMMA DocTypes ==
  ASSUME DocTypeOK
  PROVE  /\ inferred \in [Docs -> Conns \union {None}]
         /\ saved \in [Docs -> Shown \union {None}]
         /\ serverHas \in [Docs -> Shown]
         /\ active \in Docs \union {None}
         /\ assignments \in [Assignments -> Assignment \union {None}]
         /\ fromTree \in BOOLEAN
         /\ updates \in [Updates -> Update \union {None}]
         /\ item \in Shown /\ bar \in Shown
         /\ refreshes \subseteq Docs
         /\ disturbed \subseteq Docs \union {None}
BY Zenon DEF DocTypeOK

LEMMA ConnectionIsShown ==
  ASSUME DocumentAssumption, DocTypeOK, NEW d \in Docs
  PROVE  DocumentConnection(d) \in Shown
BY DocumentAssumption, DocTypes DEF DocumentConnection, OrDisconnected, Shown

\* A call proceeds: it stays on its document, for its connection.
LEMMA CallProceeds ==
  ASSUME DocumentRecordAssumption, DocTypeOK, NEW c \in Assignments, assignments[c] # None,
         NEW at \in {"infer", "store", "treeInfer", "treeFetch", "send"}, NEW x \in Shown,
         \/ assignments' = [assignments EXCEPT ![c].at = at]
         \/ assignments' = [assignments EXCEPT ![c].at = at, ![c].found = x]
  PROVE  /\ assignments' \in [Assignments -> Assignment \union {None}]
         /\ assignments'[c] # None /\ assignments'[c].at = at
         /\ assignments'[c].doc = assignments[c].doc /\ assignments'[c].conn = assignments[c].conn
         /\ \A b \in Assignments : b # c => assignments'[b] = assignments[b]
         /\ \A b \in Assignments, e \in Docs : Assigns(b, e)' <=> Assigns(b, e)
<1> DEFINE new == assignments'[c]
<1>1. assignments \in [Assignments -> Assignment \union {None}] /\ assignments[c] \in Assignment
  BY DocTypes
<1>2. /\ DOMAIN assignments' = Assignments
      /\ \A b \in Assignments : b # c => assignments'[b] = assignments[b]
      /\ assignments' = [assignments EXCEPT ![c] = new]
  BY <1>1
<1>3. \/ new = [assignments[c] EXCEPT !.at = at]
      \/ new = [assignments[c] EXCEPT !.at = at, !.found = x]
  BY <1>1
<1>4. /\ new \in Assignment /\ new.at = at
      /\ new.doc = assignments[c].doc /\ new.conn = assignments[c].conn
  BY <1>1, <1>3 DEF Assignment
<1>5. new # None
  BY <1>4, DocumentRecordAssumption
<1>6. assignments' \in [Assignments -> Assignment \union {None}]
  BY <1>1, <1>2, <1>4
<1>7. \A b \in Assignments, e \in Docs : Assigns(b, e)' <=> Assigns(b, e)
  BY <1>2, <1>4, <1>5 DEF Assigns
<1> QED
  BY <1>2, <1>4, <1>5, <1>6, <1>7

\* What is saved for a document and remembered of a choice puts that choice in force.
LEMMA RememberedIsInForce ==
  ASSUME DocumentAssumption, DocTypeOK, NEW d \in Docs, NEW x \in Shown, NEW matches \in BOOLEAN,
         matches => inferred[d] = x, Remembers(d, x, matches), inferred' = inferred
  PROVE  /\ saved' \in [Docs -> Shown \union {None}]
         /\ DocumentConnection(d)' = x
         /\ \A e \in Docs : e # d => saved'[e] = saved[e] /\ DocumentConnection(e)' = DocumentConnection(e)
<1>1. saved \in [Docs -> Shown \union {None}]
  BY DocTypes
<1>2. saved' = [saved EXCEPT ![d] = IF matches THEN None ELSE x]
  BY DEF Remembers
<1>3. x # None
  BY DocumentAssumption DEF Shown
<1> QED
  BY <1>1, <1>2, <1>3 DEF DocumentConnection, OrDisconnected

\* Nothing is under way at first, and the server has what it was told.
LEMMA DocIndInit == DocInit => DocInd
<1> SUFFICES ASSUME DocInit PROVE DocInd
  OBVIOUS
<1> USE DocumentAssumption
<1>1. DocTypeOK
  BY DEF DocInit, DocTypeOK, Shown
<1>2. OneActivity /\ CallsHold /\ UpdatesFit /\ BarFollows
  BY DEF DocInit, OneActivity, CallsHold, UpdatesFit, BarFollows, Assigns, UpdatesOf
<1>3. ServerIsTold
  <2>1. \A d \in Docs : ServerAgrees(d)
    BY DEF DocInit, ServerAgrees
  <2> QED
    BY <2>1 DEF ServerIsTold
<1> QED
  BY <1>1, <1>2, <1>3 DEF DocInd

LEMMA DocIndStutter ==
  ASSUME DocInd, UNCHANGED docVars
  PROVE  DocInd'
<1> USE DEF docVars
<1>1. DocTypeOK'
  BY Zenon DEF DocInd, DocTypeOK, Shown, Update, Assignment
<1>2. \A d : /\ DocumentConnection(d)' = DocumentConnection(d)
             /\ ServerAgrees(d)' <=> ServerAgrees(d)
  BY DEF DocumentConnection, ServerAgrees, OrDisconnected
<1>3. /\ \A c, d : Assigns(c, d)' <=> Assigns(c, d)
      /\ \A u, d : UpdatesOf(u, d)' <=> UpdatesOf(u, d)
  BY DEF Assigns, UpdatesOf
<1>4. OneActivity' /\ CallsHold' /\ UpdatesFit' /\ ServerIsTold' /\ BarFollows'
  BY <1>2, <1>3 DEF DocInd, OneActivity, CallsHold, UpdatesFit, ServerIsTold, BarFollows
<1> QED
  BY <1>1, <1>4 DEF DocInd

\* The bar is shown the answer: the refresh was of the active document, which has
\* no saved connection.
LEMMA DocIndBarInferred ==
  ASSUME DocumentAssumption, DocInd, NEW d \in Docs, BarInferred(d)
  PROVE  DocInd'
<1>1. /\ d \in refreshes /\ bar' = OrDisconnected(inferred[d]) /\ refreshes' = refreshes \ {d}
      /\ UNCHANGED <<inferred, saved, serverHas, active, assignments, fromTree, updates, item, disturbed>>
  BY DEF BarInferred
<1>2. DocTypeOK
  BY DEF DocInd
<1>3. \A e : /\ DocumentConnection(e)' = DocumentConnection(e)
             /\ ServerAgrees(e)' <=> ServerAgrees(e)
  BY <1>1 DEF DocumentConnection, ServerAgrees, OrDisconnected
<1>4. /\ \A c, e : Assigns(c, e)' <=> Assigns(c, e)
      /\ \A u, e : UpdatesOf(u, e)' <=> UpdatesOf(u, e)
  BY <1>1 DEF Assigns, UpdatesOf
<1>5. OneActivity' /\ CallsHold' /\ UpdatesFit' /\ ServerIsTold'
  BY <1>1, <1>3, <1>4 DEF DocInd, OneActivity, CallsHold, UpdatesFit, ServerIsTold
<1>6. bar' \in Shown /\ refreshes' \subseteq Docs
  BY <1>1, <1>2, DocTypes DEF OrDisconnected, Shown
<1>7. DocTypeOK'
  BY Zenon, <1>1, <1>2, <1>6 DEF DocTypeOK, Shown, Update, Assignment
<1>8. BarFollows'
  <2>1. SUFFICES ASSUME None \notin disturbed PROVE BarFollows'
    BY <1>1 DEF BarFollows
  <2>2. \A e \in refreshes : e = active
    BY <2>1 DEF DocInd, BarFollows
  <2>3. ASSUME active \notin {None} \union disturbed PROVE bar' = DocumentConnection(active)'
    <3>1. saved[d] = None /\ d = active
      BY <1>1, <2>2, <2>3 DEF DocInd, CallsHold
    <3> QED
      BY <1>1, <3>1 DEF DocumentConnection
  <2> QED
    BY <1>1, <2>2, <2>3 DEF BarFollows
<1> QED
  BY <1>5, <1>7, <1>8 DEF DocInd

LEMMA DocIndActivateEditor ==
  ASSUME DocumentAssumption, DocInd, NEW d \in Docs \union {None}, ActivateEditor(d)
  PROVE  DocInd'
<1>1. /\ active' = d /\ RefreshBar(d)
      /\ item' = IF d = None THEN Disconnected ELSE item
      /\ disturbed' = disturbed \union (IF d = None THEN {} ELSE Overlaps(d))
                         \union (IF refreshes \ {d} # {} THEN {None} ELSE {})
      /\ UNCHANGED <<inferred, saved, serverHas, assignments, fromTree, updates>>
  BY DEF ActivateEditor
<1>2. DocTypeOK
  BY DEF DocInd
<1>3. \A e : /\ DocumentConnection(e)' = DocumentConnection(e)
             /\ ServerAgrees(e)' <=> ServerAgrees(e)
  BY <1>1 DEF DocumentConnection, ServerAgrees, OrDisconnected
<1>4. /\ \A c, e : Assigns(c, e)' <=> Assigns(c, e)
      /\ \A u, e : UpdatesOf(u, e)' <=> UpdatesOf(u, e)
  BY <1>1 DEF Assigns, UpdatesOf
<1>5. disturbed \subseteq disturbed' /\ disturbed' \subseteq Docs \union {None}
  BY <1>1, <1>2, DocTypes DEF Overlaps
<1>6. /\ refreshes' \in {refreshes, refreshes \union {d}} /\ refreshes' \subseteq Docs
      /\ d \in refreshes' \ refreshes => d # None /\ saved[d] = None
      /\ bar' \in {bar, DocumentConnection(d)} /\ bar' \in Shown
      /\ d # None => d \in refreshes' \/ bar' = DocumentConnection(d)
  BY <1>1, <1>2, DocTypes, ConnectionIsShown DEF RefreshBar
<1>7. OneActivity' /\ UpdatesFit' /\ ServerIsTold'
  BY <1>1, <1>3, <1>4, <1>5 DEF DocInd, OneActivity, UpdatesFit, ServerIsTold
<1>8. d # None /\ d \notin disturbed' => \A c \in Assignments : ~Assigns(c, d)
  BY <1>1 DEF Overlaps, Busy, Assigns
<1>9. CallsHold'
  BY <1>1, <1>3, <1>4, <1>5, <1>6, <1>8 DEF DocInd, CallsHold
<1>10. DocTypeOK'
  <2>1. item' \in Shown /\ active' \in Docs \union {None}
    BY <1>1, <1>2, DocTypes DEF Shown
  <2> QED
    BY Zenon, <1>1, <1>2, <1>5, <1>6, <2>1 DEF DocTypeOK, Shown, Update, Assignment
<1>11. BarFollows'
  <2>1. SUFFICES ASSUME None \notin disturbed' PROVE BarFollows'
    BY DEF BarFollows
  <2>2. refreshes \subseteq {d}
    BY <1>1, <2>1
  <2> QED
    BY <1>1, <1>3, <1>6, <2>2 DEF BarFollows
<1> QED
  BY <1>7, <1>9, <1>10, <1>11 DEF DocInd

\* A tree update begins: what it tells the server is what is saved.
LEMMA DocIndUpdateTree ==
  ASSUME DocumentAssumption, DocumentRecordAssumption, DocInd, NEW u \in Updates, UpdateTree(u)
  PROVE  DocInd'
<1>1. /\ updates[u] = None /\ active # None /\ disturbed' = disturbed \union Overlaps(active)
      /\ UNCHANGED <<inferred, saved, active, assignments, fromTree, bar, refreshes>>
  BY DEF UpdateTree, Begins
<1>2. DocTypeOK /\ active \in Docs
  BY <1>1, DocTypes DEF DocInd
<1>3. /\ \A e : DocumentConnection(e)' = DocumentConnection(e)
      /\ \A c, e : Assigns(c, e)' <=> Assigns(c, e)
  BY <1>1 DEF DocumentConnection, OrDisconnected, Assigns
<1>4. disturbed \subseteq disturbed' /\ disturbed' \subseteq Docs \union {None}
  BY <1>1, <1>2, DocTypes DEF Overlaps
<1>5. /\ updates \in [Updates -> Update \union {None}] /\ serverHas \in [Docs -> Shown]
      /\ saved \in [Docs -> Shown \union {None}] /\ item \in Shown
  BY <1>2, DocTypes
<1>6. /\ updates' \in [Updates -> Update \union {None}]
      /\ \A v \in Updates : v # u => updates'[v] = updates[v]
      /\ updates'[u] # None =>
            /\ updates'[u].doc = active
            /\ updates'[u].at = "infer" => saved[active] = None
            /\ updates'[u].at = "fetch" => updates'[u].conn # None
      /\ serverHas' \in [Docs -> Shown] /\ item' \in Shown
      /\ \A e \in Docs : ServerAgrees(e) => ServerAgrees(e)'
  <2>1. CASE saved[active] = None
    <3>1. /\ updates' = [updates EXCEPT ![u] = [at |-> "infer", doc |-> active, conn |-> None]]
          /\ UNCHANGED <<serverHas, item>>
      BY <2>1 DEF UpdateTree
    <3>2. [at |-> "infer", doc |-> active, conn |-> None] \in Update
      BY <1>2 DEF Update
    <3> QED
      BY <1>1, <1>3, <1>5, <2>1, <3>1, <3>2 DEF ServerAgrees
  <2>2. CASE saved[active] = Disconnected
    <3>1. item' = Disconnected /\ UNCHANGED <<serverHas, updates>>
      BY <2>2, DocumentAssumption DEF UpdateTree
    <3> QED
      BY <1>1, <1>3, <1>5, <3>1 DEF ServerAgrees, Shown
  <2>3. CASE saved[active] \notin {None, Disconnected}
    <3>1. /\ serverHas' = [serverHas EXCEPT ![active] = saved[active]]
          /\ updates' = [updates EXCEPT ![u] =
                [at |-> "fetch", doc |-> active, conn |-> saved[active]]]
          /\ UNCHANGED item
      BY <2>3 DEF UpdateTree
    <3>2. saved[active] \in Conns /\ saved[active] \in Shown
      BY <1>2, <1>5, <2>3 DEF Shown
    <3>3. [at |-> "fetch", doc |-> active, conn |-> saved[active]] \in Update
      BY <1>2, <3>2 DEF Update
    <3>4. DocumentConnection(active) = saved[active]
      BY <2>3 DEF DocumentConnection, OrDisconnected
    <3>5. \A e \in Docs : ServerAgrees(e) => ServerAgrees(e)'
      BY <1>1, <1>2, <1>3, <1>5, <3>1, <3>4 DEF ServerAgrees
    <3> QED
      BY <1>5, <2>3, <3>1, <3>2, <3>3, <3>5
  <2> QED
    BY <2>1, <2>2, <2>3
<1>7. active \notin disturbed' => \A c \in Assignments : ~Assigns(c, active)
  BY <1>1 DEF Overlaps, Busy, Assigns
<1>8. \A v \in Updates, e \in Docs : UpdatesOf(v, e)' => UpdatesOf(v, e) \/ (v = u /\ e = active)
  BY <1>6 DEF UpdatesOf
<1>9. OneActivity'
  BY <1>3, <1>4, <1>7, <1>8 DEF DocInd, OneActivity
<1>10. UpdatesFit'
  BY <1>6 DEF DocInd, UpdatesFit
<1>11. CallsHold'
  <2>1. ASSUME NEW v \in Updates, NEW e \in Docs \ disturbed', UpdatesOf(v, e)', updates'[v].at = "infer"
        PROVE  saved[e] = None
    <3>1. CASE v = u
      BY <1>6, <2>1, <3>1 DEF UpdatesOf
    <3>2. CASE v # u
      BY <1>4, <1>6, <2>1, <3>2 DEF DocInd, CallsHold, UpdatesOf
    <3> QED
      BY <3>1, <3>2
  <2> QED
    BY <1>1, <1>3, <1>4, <2>1 DEF DocInd, CallsHold
<1>12. ServerIsTold'
  BY <1>3, <1>4, <1>6 DEF DocInd, ServerIsTold
<1>13. BarFollows'
  BY <1>1, <1>3, <1>4 DEF DocInd, BarFollows
<1>14. DocTypeOK'
  BY Zenon, <1>1, <1>2, <1>4, <1>6 DEF DocTypeOK, Shown, Update, Assignment
<1> QED
  BY <1>9, <1>10, <1>11, <1>12, <1>13, <1>14 DEF DocInd

\* The connection inferred for a document without a saved one is in force.
LEMMA DocIndUpdateInferred ==
  ASSUME DocumentAssumption, DocumentRecordAssumption, DocInd, NEW u \in Updates, UpdateInferred(u)
  PROVE  DocInd'
<1>1. /\ updates[u] # None /\ updates[u].at = "infer"
      /\ UNCHANGED <<inferred, saved, active, assignments, fromTree, bar, refreshes, disturbed>>
  BY DEF UpdateInferred
<1>2. DocTypeOK
  BY DEF DocInd
<1>3. /\ \A e : DocumentConnection(e)' = DocumentConnection(e)
      /\ \A c, e : Assigns(c, e)' <=> Assigns(c, e)
  BY <1>1 DEF DocumentConnection, OrDisconnected, Assigns
<1>4. /\ updates \in [Updates -> Update \union {None}] /\ serverHas \in [Docs -> Shown]
      /\ inferred \in [Docs -> Conns \union {None}] /\ item \in Shown
  BY <1>2, DocTypes
<1>5. updates[u] \in Update /\ updates[u].doc \in Docs
  BY <1>1, <1>4 DEF Update
<1> DEFINE d == updates[u].doc
<1>6. /\ updates' \in [Updates -> Update \union {None}]
      /\ \A v \in Updates : v # u => updates'[v] = updates[v]
      /\ updates'[u] # None =>
            updates'[u].doc = d /\ updates'[u].at = "fetch" /\ updates'[u].conn # None
      /\ serverHas' \in [Docs -> Shown] /\ item' \in Shown
      /\ \A e \in Docs : e # d => serverHas'[e] = serverHas[e]
      /\ serverHas'[d] \in {serverHas[d], inferred[d]} \ {None}
  <2>1. CASE inferred[d] = None
    <3>1. item' = Disconnected /\ updates' = [updates EXCEPT ![u] = None] /\ UNCHANGED serverHas
      BY <2>1 DEF UpdateInferred
    <3> QED
      BY <1>4, <1>5, <3>1, DocumentAssumption DEF Shown
  <2>2. CASE inferred[d] # None
    <3>1. /\ serverHas' = [serverHas EXCEPT ![d] = inferred[d]]
          /\ updates' = [updates EXCEPT ![u].at = "fetch", ![u].conn = inferred[d]]
          /\ UNCHANGED item
      BY <2>2 DEF UpdateInferred
    <3>2. inferred[d] \in Conns
      BY <1>4, <1>5, <2>2
    <3> DEFINE new == [updates[u] EXCEPT !.at = "fetch", !.conn = inferred[d]]
    <3>3. new \in Update /\ new.doc = d /\ new.at = "fetch" /\ new.conn = inferred[d]
      BY <1>5, <3>2 DEF Update
    <3>4. updates' = [updates EXCEPT ![u] = new]
      BY <1>4, <3>1
    <3> HIDE DEF new
    <3>5. updates' \in [Updates -> Update \union {None}] /\ updates'[u] = new
      BY <1>4, <3>3, <3>4
    <3> QED
      BY <1>4, <1>5, <2>2, <3>1, <3>2, <3>3, <3>4, <3>5 DEF Shown
  <2> QED
    BY <2>1, <2>2
<1>7. \A v \in Updates, e \in Docs : UpdatesOf(v, e)' => UpdatesOf(v, e)
  BY <1>1, <1>5, <1>6 DEF UpdatesOf
<1>8. d \notin disturbed => saved[d] = None
  BY <1>1, <1>5 DEF DocInd, CallsHold, UpdatesOf
<1>9. OneActivity'
  BY <1>1, <1>3, <1>7 DEF DocInd, OneActivity
<1>10. UpdatesFit'
  BY <1>6 DEF DocInd, UpdatesFit
<1>11. CallsHold'
  <2>1. ASSUME NEW v \in Updates, NEW e \in Docs \ disturbed, UpdatesOf(v, e)', updates'[v].at = "infer"
        PROVE  saved[e] = None
    <3>1. v # u
      BY <1>6, <2>1 DEF UpdatesOf
    <3> QED
      BY <1>6, <2>1, <3>1 DEF DocInd, CallsHold, UpdatesOf
  <2> QED
    BY <1>1, <1>3, <2>1 DEF DocInd, CallsHold
<1>12. ServerIsTold'
  <2>1. ASSUME NEW e \in Docs \ disturbed, ServerAgrees(e) PROVE ServerAgrees(e)'
    <3>1. CASE e # d \/ serverHas'[d] = serverHas[d]
      BY <1>1, <1>3, <1>6, <2>1, <3>1 DEF ServerAgrees
    <3>2. CASE e = d /\ serverHas'[d] = inferred[d] /\ inferred[d] # None
      <4>1. DocumentConnection(d) = inferred[d]
        BY <1>8, <2>1, <3>2 DEF DocumentConnection, OrDisconnected
      <4> QED
        BY <1>3, <3>2, <4>1 DEF ServerAgrees
    <3> QED
      BY <1>6, <3>1, <3>2
  <2> QED
    BY <1>1, <1>3, <2>1 DEF DocInd, ServerIsTold
<1>13. BarFollows'
  BY <1>1, <1>3 DEF DocInd, BarFollows
<1>14. DocTypeOK'
  BY Zenon, <1>1, <1>2, <1>6 DEF DocTypeOK, Shown, Update, Assignment
<1> QED
  BY <1>9, <1>10, <1>11, <1>12, <1>13, <1>14 DEF DocInd

LEMMA DocIndUpdateRevealed ==
  ASSUME DocumentAssumption, DocInd, NEW u \in Updates, UpdateRevealed(u)
  PROVE  DocInd'
<1>1. /\ updates[u] # None /\ updates[u].at = "fetch"
      /\ item' = (IF active = None THEN item ELSE updates[u].conn)
      /\ updates' = [updates EXCEPT ![u] = None]
      /\ UNCHANGED <<inferred, saved, serverHas, active, assignments, fromTree, bar, refreshes, disturbed>>
  BY DEF UpdateRevealed
<1>2. DocTypeOK
  BY DEF DocInd
<1>3. /\ \A e : /\ DocumentConnection(e)' = DocumentConnection(e)
                /\ ServerAgrees(e)' <=> ServerAgrees(e)
      /\ \A c, e : Assigns(c, e)' <=> Assigns(c, e)
  BY <1>1 DEF DocumentConnection, OrDisconnected, ServerAgrees, Assigns
<1>4. updates \in [Updates -> Update \union {None}] /\ item \in Shown
  BY <1>2, DocTypes
<1>5. /\ updates' \in [Updates -> Update \union {None}]
      /\ \A v \in Updates : updates'[v] # None => updates'[v] = updates[v] /\ updates[v] # None
  BY <1>1, <1>4
<1>6. item' \in Shown
  <2>1. updates[u].conn \in Conns
    BY <1>1, <1>4 DEF DocInd, UpdatesFit, Update
  <2> QED
    BY <1>1, <1>4, <2>1 DEF Shown
<1>7. \A v \in Updates : \A e : UpdatesOf(v, e)' => UpdatesOf(v, e) /\ updates'[v] = updates[v]
  BY <1>5 DEF UpdatesOf
<1>8. OneActivity' /\ CallsHold' /\ ServerIsTold' /\ BarFollows'
  BY <1>1, <1>3, <1>7 DEF DocInd, OneActivity, CallsHold, ServerIsTold, BarFollows
<1>9. UpdatesFit'
  BY <1>5 DEF DocInd, UpdatesFit
<1>10. DocTypeOK'
  BY Zenon, <1>1, <1>2, <1>5, <1>6 DEF DocTypeOK, Shown, Update, Assignment
<1> QED
  BY <1>8, <1>9, <1>10 DEF DocInd

\* A call begins.  Nothing else is under way on its document, or that is disturbed.
LEMMA DocIndSetDocumentConnection ==
  ASSUME DocumentAssumption, DocumentRecordAssumption, DocInd,
         NEW c \in Assignments, NEW d \in Docs, NEW x \in Shown, NEW tree \in BOOLEAN,
         SetDocumentConnection(c, d, x, tree)
  PROVE  DocInd'
<1> DEFINE new == [at |-> IF x = Disconnected THEN "store" ELSE "infer",
                   doc |-> d, conn |-> x, found |-> x, tree |-> tree]
<1>1. /\ assignments[c] = None /\ disturbed' = disturbed \union Overlaps(d)
      /\ item' = IF tree THEN x ELSE item
      /\ assignments' = [assignments EXCEPT ![c] = new]
      /\ UNCHANGED <<inferred, serverHas, active, updates, bar, refreshes>>
  BY DEF SetDocumentConnection, Begins
<1>2. fromTree' = (fromTree \/ tree)
  BY DEF SetDocumentConnection
<1>3. DocTypeOK
  BY DEF DocInd
<1>4. /\ assignments \in [Assignments -> Assignment \union {None}]
      /\ saved \in [Docs -> Shown \union {None}] /\ fromTree \in BOOLEAN /\ item \in Shown
  BY <1>3, DocTypes
<1>5. new \in Assignment /\ new # None
  <2>1. new \in Assignment
    BY DEF Assignment
  <2> QED
    BY <2>1, DocumentRecordAssumption
<1>6. /\ new.doc = d /\ new.conn = x /\ new.at \in {"infer", "store"}
      /\ new.at = "infer" <=> x # Disconnected
  OBVIOUS
<1> HIDE DEF new
<1>7. /\ assignments' \in [Assignments -> Assignment \union {None}]
      /\ assignments'[c] = new /\ \A b \in Assignments : b # c => assignments'[b] = assignments[b]
  BY <1>1, <1>4, <1>5
<1>8. \A b \in Assignments : \A e : Assigns(b, e)' <=> Assigns(b, e) \/ (b = c /\ e = d)
  BY <1>1, <1>5, <1>6, <1>7 DEF Assigns
<1>9. \A u, e : UpdatesOf(u, e)' <=> UpdatesOf(u, e)
  BY <1>1 DEF UpdatesOf
<1>10. disturbed \subseteq disturbed' /\ disturbed' \subseteq Docs \union {None}
  BY <1>1, <1>3, DocTypes DEF Overlaps
<1>11. d \notin disturbed' =>
          /\ \A b \in Assignments : ~Assigns(b, d)
          /\ \A u \in Updates : ~UpdatesOf(u, d)
          /\ d \notin refreshes
  BY <1>1 DEF Overlaps, Busy, Assigns, UpdatesOf
<1>12. /\ saved' \in [Docs -> Shown \union {None}]
       /\ \A e \in Docs : e # d => saved'[e] = saved[e] /\ DocumentConnection(e)' = DocumentConnection(e)
       /\ x = Disconnected => DocumentConnection(d)' = x
  <2>1. CASE x = Disconnected
    <3>1. Remembers(d, x, FALSE)
      BY <2>1 DEF SetDocumentConnection
    <3> QED
      BY <1>1, <1>3, <3>1, RememberedIsInForce
  <2>2. CASE x # Disconnected
    <3>1. saved' = saved
      BY <2>2 DEF SetDocumentConnection
    <3> QED
      BY <1>1, <1>4, <2>2, <3>1 DEF DocumentConnection, OrDisconnected
  <2> QED
    BY <2>1, <2>2
<1>13. OneActivity'
  BY <1>8, <1>9, <1>10, <1>11 DEF DocInd, OneActivity
<1>14. UpdatesFit'
  BY <1>1 DEF DocInd, UpdatesFit
<1>15. CallsHold'
  <2>1. ASSUME NEW b \in Assignments, NEW e \in Docs \ disturbed', Assigns(b, e)',
               assignments'[b].at # "infer"
        PROVE  DocumentConnection(e)' = assignments'[b].conn
    <3>1. CASE b = c
      <4>1. e = d
        BY <1>5, <1>6, <1>7, <2>1, <3>1 DEF Assigns
      <4> QED
        BY <1>6, <1>7, <1>12, <2>1, <3>1, <4>1
    <3>2. CASE b # c
      <4>1. Assigns(b, e) /\ e # d
        BY <1>8, <1>11, <2>1, <3>2
      <4> QED
        BY <1>7, <1>10, <1>12, <2>1, <3>2, <4>1 DEF DocInd, CallsHold
    <3> QED
      BY <3>1, <3>2
  <2>2. ASSUME NEW u \in Updates, NEW e \in Docs \ disturbed', UpdatesOf(u, e)', updates'[u].at = "infer"
        PROVE  saved'[e] = None
    <3>1. UpdatesOf(u, e) /\ e # d
      BY <1>9, <1>11, <2>2
    <3> QED
      BY <1>1, <1>10, <1>12, <2>2, <3>1 DEF DocInd, CallsHold
  <2>3. ASSUME NEW e \in refreshes' \ disturbed'
        PROVE  /\ saved'[e] = None
               /\ \A b \in Assignments : Assigns(b, e)' => assignments'[b].at \notin {"infer", "store"}
    <3>1. e # d /\ e \in refreshes \ disturbed /\ e \in Docs
      BY <1>1, <1>3, <1>10, <1>11, <2>3, DocTypes
    <3>2. \A b \in Assignments : Assigns(b, e)' => Assigns(b, e) /\ b # c
      BY <1>1, <1>8, <3>1 DEF Assigns
    <3> QED
      BY <1>7, <1>12, <3>1, <3>2 DEF DocInd, CallsHold
  <2> QED
    BY <2>1, <2>2, <2>3 DEF CallsHold
<1>16. ServerIsTold'
  <2>1. ASSUME NEW e \in Docs \ disturbed', \A b \in Assignments : ~Assigns(b, e)'
        PROVE  ServerAgrees(e)'
    <3>1. e # d /\ \A b \in Assignments : ~Assigns(b, e)
      BY <1>8, <2>1
    <3>2. ServerAgrees(e)
      BY <1>10, <2>1, <3>1 DEF DocInd, ServerIsTold
    <3> QED
      BY <1>1, <1>12, <3>1, <3>2 DEF ServerAgrees
  <2> QED
    BY <2>1 DEF ServerIsTold
<1>17. BarFollows'
  <2>1. SUFFICES ASSUME None \notin disturbed' PROVE BarFollows'
    BY DEF BarFollows
  <2>2. \A e \in refreshes' : e = active'
    BY <1>1, <1>10, <2>1 DEF DocInd, BarFollows
  <2>3. ASSUME active' \notin {None} \union disturbed'
        PROVE  \/ active' \in refreshes'
               \/ \E b \in Assignments : Assigns(b, active)' /\ assignments'[b].at \in {"infer", "store"}
               \/ bar' = DocumentConnection(active)'
    <3>1. \/ active \in refreshes
          \/ \E b \in Assignments : Assigns(b, active) /\ assignments[b].at \in {"infer", "store"}
          \/ bar = DocumentConnection(active)
      BY <1>1, <1>10, <2>1, <2>3 DEF DocInd, BarFollows
    <3>2. CASE active = d
      <4>1. Assigns(c, active)'
        BY <1>1, <1>5, <1>6, <1>7, <3>2 DEF Assigns
      <4> QED
        BY <1>6, <1>7, <4>1
    <3>3. CASE active # d
      <4>1. active \in Docs /\ DocumentConnection(active)' = DocumentConnection(active)
        BY <1>1, <1>3, <1>12, <2>3, <3>3, DocTypes DEF DocumentConnection
      <4>2. ASSUME NEW b \in Assignments, Assigns(b, active), assignments[b].at \in {"infer", "store"}
            PROVE  Assigns(b, active)' /\ assignments'[b].at \in {"infer", "store"}
        BY <1>1, <1>7, <4>2 DEF Assigns
      <4> QED
        BY <1>1, <3>1, <4>1, <4>2
    <3> QED
      BY <3>2, <3>3
  <2> QED
    BY <2>2, <2>3 DEF BarFollows
<1>18. DocTypeOK'
  <2>1. item' \in Shown
    BY <1>1, <1>4
  <2>2. fromTree' \in BOOLEAN
    BY Zenon, <1>2, <1>4
  <2> QED
    BY Zenon, <1>1, <1>3, <1>7, <1>10, <1>12, <2>1, <2>2 DEF DocTypeOK, Shown, Update, Assignment
<1> QED
  BY <1>13, <1>14, <1>15, <1>16, <1>17, <1>18 DEF DocInd

\* A call has its answer: what it remembers is in force.
LEMMA DocIndSetInferred ==
  ASSUME DocumentAssumption, DocumentRecordAssumption, DocInd,
         NEW c \in Assignments, NEW fails \in BOOLEAN, SetInferred(c, fails)
  PROVE  DocInd'
<1>a. DocTypeOK /\ assignments[c] # None
  BY DEF DocInd, SetInferred
<1>b. assignments[c].doc \in Docs /\ assignments[c].conn \in Shown
  BY <1>a, DocTypes DEF Assignment
<1> SUFFICES ASSUME NEW d \in Docs, NEW x \in Shown, d = assignments[c].doc, x = assignments[c].conn
             PROVE  DocInd'
  BY <1>b
<1>1. /\ assignments[c] # None /\ assignments[c].at = "infer"
      /\ Remembers(d, x, ~fails /\ inferred[d] = x)
      /\ assignments' = [assignments EXCEPT ![c].at = "store"]
      /\ UNCHANGED <<inferred, serverHas, active, fromTree, updates, item, bar, refreshes, disturbed>>
  BY DEF SetInferred
<1>2. DocTypeOK
  BY DEF DocInd
<1>3. /\ assignments \in [Assignments -> Assignment \union {None}]
      /\ assignments[c] \in Assignment /\ d \in Docs /\ x \in Shown
  BY <1>1, <1>2, DocTypes DEF Assignment
<1>4. /\ assignments' \in [Assignments -> Assignment \union {None}]
      /\ assignments'[c] # None /\ assignments'[c].at = "store" /\ assignments'[c].conn = x
      /\ \A b \in Assignments : b # c => assignments'[b] = assignments[b]
      /\ \A b \in Assignments, e \in Docs : Assigns(b, e)' <=> Assigns(b, e)
  BY <1>1, <1>2, <1>3, CallProceeds
<1>5. Assigns(c, d) /\ \A e \in Docs : Assigns(c, e) => e = d
  BY <1>1 DEF Assigns
<1>6. /\ saved' \in [Docs -> Shown \union {None}] /\ DocumentConnection(d)' = x
      /\ \A e \in Docs : e # d => saved'[e] = saved[e] /\ DocumentConnection(e)' = DocumentConnection(e)
  <2>1. PICK matches \in BOOLEAN : matches = (~fails /\ inferred[d] = x)
    BY Zenon
  <2>2. Remembers(d, x, matches) /\ (matches => inferred[d] = x)
    BY <1>1, <2>1
  <2> QED
    BY <1>1, <1>2, <2>2, RememberedIsInForce
<1>7. \A u, e : UpdatesOf(u, e)' <=> UpdatesOf(u, e)
  BY <1>1 DEF UpdatesOf
<1>8. d \notin disturbed =>
         /\ \A b \in Assignments : Assigns(b, d) => b = c
         /\ \A u \in Updates : ~UpdatesOf(u, d)
         /\ d \notin refreshes
  <2>1. d \in refreshes \ disturbed => assignments[c].at \notin {"infer", "store"}
    BY <1>5 DEF DocInd, CallsHold
  <2> QED
    BY <1>1, <1>3, <1>5, <2>1 DEF DocInd, OneActivity
<1>9. OneActivity' /\ UpdatesFit'
  BY <1>1, <1>4, <1>7 DEF DocInd, OneActivity, UpdatesFit
<1>10. CallsHold'
  <2>1. ASSUME NEW b \in Assignments, NEW e \in Docs \ disturbed', Assigns(b, e)',
               assignments'[b].at # "infer"
        PROVE  DocumentConnection(e)' = assignments'[b].conn
    <3>1. Assigns(b, e)
      BY <1>4, <2>1
    <3>2. CASE b = c
      BY <1>4, <1>5, <1>6, <3>1, <3>2
    <3>3. CASE b # c
      <4>1. e # d
        BY <1>1, <1>8, <2>1, <3>1, <3>3
      <4> QED
        BY <1>1, <1>4, <1>6, <2>1, <3>1, <3>3, <4>1 DEF DocInd, CallsHold
    <3> QED
      BY <3>2, <3>3
  <2>2. ASSUME NEW u \in Updates, NEW e \in Docs \ disturbed', UpdatesOf(u, e)', updates'[u].at = "infer"
        PROVE  saved'[e] = None
    <3>1. UpdatesOf(u, e) /\ e # d
      BY <1>1, <1>7, <1>8, <2>2
    <3> QED
      BY <1>1, <1>6, <2>2, <3>1 DEF DocInd, CallsHold
  <2>3. ASSUME NEW e \in refreshes' \ disturbed'
        PROVE  /\ saved'[e] = None
               /\ \A b \in Assignments : Assigns(b, e)' => assignments'[b].at \notin {"infer", "store"}
    <3>1. e # d /\ e \in refreshes \ disturbed /\ e \in Docs
      BY <1>1, <1>2, <1>8, <2>3, DocTypes
    <3>2. \A b \in Assignments : Assigns(b, e)' => Assigns(b, e) /\ b # c
      BY <1>4, <1>5, <3>1
    <3> QED
      BY <1>4, <1>6, <3>1, <3>2 DEF DocInd, CallsHold
  <2> QED
    BY <2>1, <2>2, <2>3 DEF CallsHold
<1>11. ServerIsTold'
  <2>1. ASSUME NEW e \in Docs \ disturbed', \A b \in Assignments : ~Assigns(b, e)'
        PROVE  ServerAgrees(e)'
    <3>1. e # d /\ \A b \in Assignments : ~Assigns(b, e)
      BY <1>4, <1>5, <2>1
    <3>2. ServerAgrees(e)
      BY <1>1, <2>1, <3>1 DEF DocInd, ServerIsTold
    <3> QED
      BY <1>1, <1>6, <3>1, <3>2 DEF ServerAgrees
  <2> QED
    BY <2>1 DEF ServerIsTold
<1>12. BarFollows'
  <2>1. SUFFICES ASSUME None \notin disturbed' PROVE BarFollows'
    BY DEF BarFollows
  <2>2. \A e \in refreshes' : e = active'
    BY <1>1, <2>1 DEF DocInd, BarFollows
  <2>3. ASSUME active' \notin {None} \union disturbed'
        PROVE  \/ active' \in refreshes'
               \/ \E b \in Assignments : Assigns(b, active)' /\ assignments'[b].at \in {"infer", "store"}
               \/ bar' = DocumentConnection(active)'
    <3>1. \/ active \in refreshes
          \/ \E b \in Assignments : Assigns(b, active) /\ assignments[b].at \in {"infer", "store"}
          \/ bar = DocumentConnection(active)
      BY <1>1, <2>1, <2>3 DEF DocInd, BarFollows
    <3>2. active \in Docs /\ active' = active
      BY <1>1, <1>2, <2>3, DocTypes
    <3>3. \A b \in Assignments : Assigns(b, active)' <=> Assigns(b, active)
      BY <1>1, <1>4, <3>2 DEF Assigns
    <3>4. CASE active = d
      BY <1>4, <1>5, <3>3, <3>4
    <3>5. CASE active # d
      <4>1. DocumentConnection(active)' = DocumentConnection(active)
        BY <1>6, <3>2, <3>5 DEF DocumentConnection
      <4>2. ASSUME NEW b \in Assignments, Assigns(b, active), assignments[b].at \in {"infer", "store"}
            PROVE  Assigns(b, active)' /\ assignments'[b].at \in {"infer", "store"}
        BY <1>4, <3>3, <4>2
      <4> QED
        BY <1>1, <3>1, <4>1, <4>2
    <3> QED
      BY <3>4, <3>5
  <2> QED
    BY <2>2, <2>3 DEF BarFollows
<1>13. DocTypeOK'
  BY Zenon, <1>1, <1>2, <1>4, <1>6 DEF DocTypeOK, Shown, Update, Assignment
<1> QED
  BY <1>9, <1>10, <1>11, <1>12, <1>13 DEF DocInd

\* What the tree has found of a call's document.
LEMMA TreeFinds ==
  ASSUME DocumentAssumption, DocumentRecordAssumption, DocTypeOK, NEW c \in Assignments,
         assignments[c] # None, NEW x \in Shown, TreeFound(c, x)
  PROVE  /\ item' \in Shown /\ serverHas' \in [Docs -> Shown]
         /\ \A e \in Docs : e # assignments[c].doc => serverHas'[e] = serverHas[e]
         /\ \E at \in {"send", "treeFetch"} :
               \/ assignments' = [assignments EXCEPT ![c].at = at]
               \/ assignments' = [assignments EXCEPT ![c].at = at, ![c].found = x]
<1>1. serverHas \in [Docs -> Shown] /\ item \in Shown
  BY DocTypes
<1> QED
  BY <1>1 DEF TreeFound, Shown

\* A call whose choice is stored goes on; the bar is refreshed, or stays, and the
\* server is told something of its document only.
LEMMA DocIndCallGoesOn ==
  ASSUME DocumentAssumption, DocumentRecordAssumption, DocInd, NEW c \in Assignments,
         assignments[c] # None, assignments[c].at # "infer",
         NEW at \in {"treeInfer", "treeFetch", "send"}, NEW x \in Shown,
         \/ assignments' = [assignments EXCEPT ![c].at = at]
         \/ assignments' = [assignments EXCEPT ![c].at = at, ![c].found = x],
         item' \in Shown, serverHas' \in [Docs -> Shown],
         \A e \in Docs : e # assignments[c].doc => serverHas'[e] = serverHas[e],
         \/ assignments[c].at # "store" /\ UNCHANGED <<bar, refreshes>>
         \/ RefreshBar(IF assignments[c].doc = active THEN active ELSE None),
         UNCHANGED <<inferred, saved, active, fromTree, updates, disturbed>>
  PROVE  DocInd'
<1> DEFINE d == assignments[c].doc
<1>1. DocTypeOK
  BY DEF DocInd
<1>2. /\ assignments \in [Assignments -> Assignment \union {None}]
      /\ assignments[c] \in Assignment /\ d \in Docs /\ active \in Docs \union {None}
      /\ bar \in Shown /\ refreshes \subseteq Docs
  BY <1>1, DocTypes DEF Assignment
<1>3. /\ assignments' \in [Assignments -> Assignment \union {None}]
      /\ assignments'[c] # None /\ assignments'[c].at = at
      /\ assignments'[c].conn = assignments[c].conn
      /\ \A b \in Assignments : b # c => assignments'[b] = assignments[b]
      /\ \A b \in Assignments, e \in Docs : Assigns(b, e)' <=> Assigns(b, e)
  <2>1. at \in {"infer", "store", "treeInfer", "treeFetch", "send"}
    OBVIOUS
  <2> QED
    BY <1>1, <2>1, CallProceeds
<1>4. Assigns(c, d) /\ \A e \in Docs : Assigns(c, e) => e = d
  BY DEF Assigns
<1>5. /\ \A e : DocumentConnection(e)' = DocumentConnection(e)
      /\ \A u, e : UpdatesOf(u, e)' <=> UpdatesOf(u, e)
  BY DEF DocumentConnection, OrDisconnected, UpdatesOf
<1>6. /\ refreshes' \in {refreshes, refreshes \union {d}} /\ refreshes' \subseteq Docs
      /\ d \in refreshes' \ refreshes => active = d /\ saved[d] = None
      /\ bar' \in Shown
      /\ active # d => UNCHANGED <<bar, refreshes>>
      /\ \/ assignments[c].at # "store" /\ UNCHANGED <<bar, refreshes>>
         \/ active = d => d \in refreshes' \/ bar' = DocumentConnection(d)
  <2>1. CASE assignments[c].at # "store" /\ UNCHANGED <<bar, refreshes>>
    BY <1>2, <2>1
  <2>2. CASE RefreshBar(IF d = active THEN active ELSE None)
    <3>1. CASE d = active
      BY <1>1, <1>2, <2>2, <3>1, ConnectionIsShown, DocumentAssumption DEF RefreshBar
    <3>2. CASE d # active
      BY <1>2, <2>2, <3>2 DEF RefreshBar
    <3> QED
      BY <3>1, <3>2
  <2> QED
    BY <2>1, <2>2
<1> HIDE DEF d
<1>7. d \notin disturbed => \A b \in Assignments : Assigns(b, d) => b = c
  BY <1>2, <1>4 DEF DocInd, OneActivity
<1>8. OneActivity' /\ UpdatesFit'
  BY <1>3, <1>5 DEF DocInd, OneActivity, UpdatesFit
<1>9. CallsHold'
  <2>1. ASSUME NEW b \in Assignments, NEW e \in Docs \ disturbed', Assigns(b, e)',
               assignments'[b].at # "infer"
        PROVE  DocumentConnection(e)' = assignments'[b].conn
    <3>1. Assigns(b, e) /\ assignments[b].at # "infer" /\ assignments'[b].conn = assignments[b].conn
      BY <1>3, <2>1
    <3> QED
      BY <1>5, <3>1 DEF DocInd, CallsHold
  <2>2. ASSUME NEW u \in Updates, NEW e \in Docs \ disturbed', UpdatesOf(u, e)', updates'[u].at = "infer"
        PROVE  saved'[e] = None
    BY <1>5, <2>2 DEF DocInd, CallsHold
  <2>3. ASSUME NEW e \in refreshes' \ disturbed'
        PROVE  /\ saved'[e] = None
               /\ \A b \in Assignments : Assigns(b, e)' => assignments'[b].at \notin {"infer", "store"}
    <3>1. e \in Docs
      BY <1>6
    <3>2. CASE e \in refreshes
      BY <1>3, <2>3, <3>1, <3>2 DEF DocInd, CallsHold
    <3>3. CASE e \notin refreshes
      <4>1. e = d /\ saved[d] = None
        BY <1>6, <2>3, <3>3
      <4>2. \A b \in Assignments : Assigns(b, e)' => b = c
        BY <1>3, <1>7, <2>3, <3>1, <4>1
      <4> QED
        BY <1>3, <4>1, <4>2
    <3> QED
      BY <3>2, <3>3
  <2> QED
    BY <2>1, <2>2, <2>3 DEF CallsHold
<1>10. ServerIsTold'
  <2>1. ASSUME NEW e \in Docs \ disturbed', \A b \in Assignments : ~Assigns(b, e)'
        PROVE  ServerAgrees(e)'
    <3>1. e # d /\ \A b \in Assignments : ~Assigns(b, e)
      BY <1>3, <1>4, <2>1
    <3>2. ServerAgrees(e)
      BY <2>1, <3>1 DEF DocInd, ServerIsTold
    <3>3. serverHas'[e] = serverHas[e]
      BY <3>1 DEF d
    <3> QED
      BY <1>5, <3>2, <3>3 DEF ServerAgrees
  <2> QED
    BY <2>1 DEF ServerIsTold
<1>11. BarFollows'
  <2>1. SUFFICES ASSUME None \notin disturbed' PROVE BarFollows'
    BY DEF BarFollows
  <2>2. \A e \in refreshes : e = active
    BY <2>1 DEF DocInd, BarFollows
  <2>3. \A e \in refreshes' : e = active'
    BY <1>6, <2>2
  <2>4. ASSUME active' \notin {None} \union disturbed'
        PROVE  \/ active' \in refreshes'
               \/ \E b \in Assignments : Assigns(b, active)' /\ assignments'[b].at \in {"infer", "store"}
               \/ bar' = DocumentConnection(active)'
    <3>1. \/ active \in refreshes
          \/ \E b \in Assignments : Assigns(b, active) /\ assignments[b].at \in {"infer", "store"}
          \/ bar = DocumentConnection(active)
      BY <2>1, <2>4 DEF DocInd, BarFollows
    <3>2. active \in Docs /\ active' = active /\ active \notin disturbed
      BY <1>2, <2>4
    <3>3. DocumentConnection(active)' = DocumentConnection(active)
      BY <1>5 DEF DocumentConnection
    <3>4. \A b \in Assignments : Assigns(b, active)' <=> Assigns(b, active)
      BY <1>3, <3>2 DEF Assigns
    <3>5. CASE active # d
      <4>1. ASSUME NEW b \in Assignments, Assigns(b, active), assignments[b].at \in {"infer", "store"}
            PROVE  Assigns(b, active)' /\ assignments'[b].at \in {"infer", "store"}
        <5>1. b # c
          BY <1>4, <3>2, <3>5, <4>1
        <5> QED
          BY <1>3, <3>4, <4>1, <5>1
      <4> QED
        BY <1>6, <3>1, <3>2, <3>3, <3>5, <4>1
    <3>6. CASE active = d
      <4>1. CASE assignments[c].at # "store" /\ UNCHANGED <<bar, refreshes>>
        <5>1. ~ \E b \in Assignments : Assigns(b, active) /\ assignments[b].at \in {"infer", "store"}
          BY <1>7, <3>2, <3>6, <4>1
        <5> QED
          BY <3>1, <3>2, <3>3, <4>1, <5>1
      <4>2. CASE d \in refreshes' \/ bar' = DocumentConnection(d)
        BY <3>2, <3>3, <3>6, <4>2
      <4> QED
        BY <1>6, <3>6, <4>1, <4>2
    <3> QED
      BY <3>5, <3>6
  <2> QED
    BY <2>3, <2>4 DEF BarFollows
<1>12. DocTypeOK'
  BY Zenon, <1>1, <1>3, <1>6 DEF DocTypeOK, Shown, Update, Assignment
<1> QED
  BY <1>8, <1>9, <1>10, <1>11, <1>12 DEF DocInd

LEMMA DocIndSetStored ==
  ASSUME DocumentAssumption, DocumentRecordAssumption, DocInd, NEW c \in Assignments, SetStored(c)
  PROVE  DocInd'
<1> DEFINE d == assignments[c].doc
<1>1. /\ assignments[c] # None /\ assignments[c].at = "store"
      /\ RefreshBar(IF d = active THEN d ELSE None)
      /\ IF fromTree \/ d # active
         THEN assignments' = [assignments EXCEPT ![c].at = "send"] /\ UNCHANGED <<serverHas, item>>
         ELSE IF saved[d] = None
              THEN assignments' = [assignments EXCEPT ![c].at = "treeInfer"] /\ UNCHANGED <<serverHas, item>>
              ELSE TreeFound(c, saved[d])
      /\ UNCHANGED <<inferred, saved, active, fromTree, updates, disturbed>>
  BY DEF SetStored
<1>2. DocTypeOK
  BY DEF DocInd
<1>3. /\ assignments[c] \in Assignment /\ d \in Docs /\ saved \in [Docs -> Shown \union {None}]
      /\ item \in Shown /\ serverHas \in [Docs -> Shown]
  BY <1>1, <1>2, DocTypes DEF Assignment
<1>4. \E at \in {"treeInfer", "treeFetch", "send"}, x \in Shown :
         /\ \/ assignments' = [assignments EXCEPT ![c].at = at]
            \/ assignments' = [assignments EXCEPT ![c].at = at, ![c].found = x]
         /\ item' \in Shown /\ serverHas' \in [Docs -> Shown]
         /\ \A e \in Docs : e # d => serverHas'[e] = serverHas[e]
  <2>1. CASE fromTree \/ d # active
    BY <1>1, <1>3, <2>1
  <2>2. CASE ~(fromTree \/ d # active) /\ saved[d] = None
    BY <1>1, <1>3, <2>2
  <2>3. CASE ~(fromTree \/ d # active) /\ saved[d] # None
    <3>1. TreeFound(c, saved[d]) /\ saved[d] \in Shown
      BY <1>1, <1>3, <2>3
    <3> QED
      BY <1>1, <1>2, <3>1, TreeFinds
  <2> QED
    BY <2>1, <2>2, <2>3
<1>5. RefreshBar(IF d = active THEN active ELSE None)
  BY <1>1
<1>6. assignments[c].at # "infer"
  BY <1>1
<1> QED
  BY <1>1, <1>4, <1>5, <1>6, DocIndCallGoesOn

LEMMA DocIndSetTreeInferred ==
  ASSUME DocumentAssumption, DocumentRecordAssumption, DocInd, NEW c \in Assignments, SetTreeInferred(c)
  PROVE  DocInd'
<1> DEFINE d == assignments[c].doc
           x == OrDisconnected(inferred[d])
<1>1. /\ assignments[c] # None /\ assignments[c].at = "treeInfer" /\ TreeFound(c, x)
      /\ UNCHANGED <<inferred, saved, active, fromTree, updates, bar, refreshes, disturbed>>
  BY DEF SetTreeInferred
<1>2. DocTypeOK
  BY DEF DocInd
<1>3. assignments[c] \in Assignment /\ d \in Docs /\ x \in Shown
  BY <1>1, <1>2, DocTypes DEF Assignment, OrDisconnected, Shown
<1>4. /\ item' \in Shown /\ serverHas' \in [Docs -> Shown]
      /\ \A e \in Docs : e # d => serverHas'[e] = serverHas[e]
      /\ \E at \in {"send", "treeFetch"} :
            \/ assignments' = [assignments EXCEPT ![c].at = at]
            \/ assignments' = [assignments EXCEPT ![c].at = at, ![c].found = x]
  BY <1>1, <1>2, <1>3, TreeFinds
<1>5. PICK at \in {"treeInfer", "treeFetch", "send"}, y \in Shown :
            \/ assignments' = [assignments EXCEPT ![c].at = at]
            \/ assignments' = [assignments EXCEPT ![c].at = at, ![c].found = y]
  BY <1>3, <1>4
<1>6. assignments[c].at # "infer" /\ assignments[c].at # "store" /\ UNCHANGED <<bar, refreshes>>
  BY <1>1
<1>7. UNCHANGED <<inferred, saved, active, fromTree, updates, disturbed>> /\ assignments[c] # None
  BY <1>1
<1>8. \A e \in Docs : e # assignments[c].doc => serverHas'[e] = serverHas[e]
  BY <1>4
<1>9. \/ assignments[c].at # "store" /\ UNCHANGED <<bar, refreshes>>
      \/ RefreshBar(IF assignments[c].doc = active THEN active ELSE None)
  BY <1>6
<1>10. item' \in Shown /\ serverHas' \in [Docs -> Shown] /\ assignments[c].at # "infer"
  BY <1>4, <1>6
<1>11. CASE assignments' = [assignments EXCEPT ![c].at = at]
  BY <1>7, <1>8, <1>9, <1>10, <1>11, DocIndCallGoesOn
<1>12. CASE assignments' = [assignments EXCEPT ![c].at = at, ![c].found = y]
  BY <1>7, <1>8, <1>9, <1>10, <1>12, DocIndCallGoesOn
<1> QED
  BY <1>5, <1>11, <1>12

LEMMA DocIndSetTreeRevealed ==
  ASSUME DocumentAssumption, DocumentRecordAssumption, DocInd, NEW c \in Assignments, SetTreeRevealed(c)
  PROVE  DocInd'
<1>1. /\ assignments[c] # None /\ assignments[c].at = "treeFetch"
      /\ assignments' = [assignments EXCEPT ![c].at = "send"]
      /\ item' = (IF active = None THEN item ELSE assignments[c].found)
      /\ UNCHANGED <<inferred, saved, serverHas, active, fromTree, updates, bar, refreshes, disturbed>>
  BY DEF SetTreeRevealed
<1>2. DocTypeOK
  BY DEF DocInd
<1>3. /\ assignments[c] \in Assignment /\ assignments[c].found \in Shown
      /\ item \in Shown /\ serverHas \in [Docs -> Shown]
  BY <1>1, <1>2, DocTypes DEF Assignment
<1>4. item' \in Shown /\ serverHas' \in [Docs -> Shown] /\ Disconnected \in Shown
  BY <1>1, <1>3 DEF Shown
<1> QED
  BY <1>1, <1>4, DocIndCallGoesOn

\* The last thing a call does is to tell the server, of the connection in force.
LEMMA DocIndSetSent ==
  ASSUME DocumentAssumption, DocumentRecordAssumption, DocInd, NEW c \in Assignments, SetSent(c)
  PROVE  DocInd'
<1> DEFINE d == assignments[c].doc
           x == assignments[c].conn
<1>1. /\ assignments[c] # None /\ assignments[c].at = "send"
      /\ serverHas' = [serverHas EXCEPT ![d] = x]
      /\ assignments' = [assignments EXCEPT ![c] = None]
      /\ UNCHANGED <<inferred, saved, active, updates, item, bar, refreshes, disturbed>>
  BY DEF SetSent
<1>2. DocTypeOK
  BY DEF DocInd
<1>3. /\ assignments \in [Assignments -> Assignment \union {None}]
      /\ assignments[c] \in Assignment /\ d \in Docs /\ x \in Shown
      /\ serverHas \in [Docs -> Shown] /\ fromTree \in BOOLEAN
  BY <1>1, <1>2, DocTypes DEF Assignment
<1>4. /\ assignments' \in [Assignments -> Assignment \union {None}] /\ assignments'[c] = None
      /\ \A b \in Assignments : b # c => assignments'[b] = assignments[b]
      /\ serverHas' \in [Docs -> Shown] /\ serverHas'[d] = x
      /\ \A e \in Docs : e # d => serverHas'[e] = serverHas[e]
  BY <1>1, <1>3
<1>5. Assigns(c, d) /\ \A e : Assigns(c, e) => e = d
  BY <1>1 DEF Assigns
<1>6. d \notin disturbed => DocumentConnection(d) = x
  BY <1>1, <1>3, <1>5 DEF DocInd, CallsHold
<1> HIDE DEF d, x
<1>7. \A b \in Assignments : \A e : Assigns(b, e)' <=> Assigns(b, e) /\ b # c
  BY <1>4 DEF Assigns
<1>8. /\ \A e : DocumentConnection(e)' = DocumentConnection(e)
      /\ \A u, e : UpdatesOf(u, e)' <=> UpdatesOf(u, e)
  BY <1>1 DEF DocumentConnection, OrDisconnected, UpdatesOf
<1>9. OneActivity' /\ UpdatesFit'
  BY <1>1, <1>7, <1>8 DEF DocInd, OneActivity, UpdatesFit
<1>10. CallsHold'
  BY <1>1, <1>4, <1>7, <1>8 DEF DocInd, CallsHold
<1>11. ServerIsTold'
  <2>1. ASSUME NEW e \in Docs \ disturbed', \A b \in Assignments : ~Assigns(b, e)'
        PROVE  ServerAgrees(e)'
    <3>1. CASE e = d
      BY <1>1, <1>4, <1>6, <1>8, <2>1, <3>1 DEF ServerAgrees
    <3>2. CASE e # d
      <4>1. \A b \in Assignments : ~Assigns(b, e)
        BY <1>5, <1>7, <2>1, <3>2
      <4>2. ServerAgrees(e)
        BY <1>1, <2>1, <4>1 DEF DocInd, ServerIsTold
      <4> QED
        BY <1>1, <1>4, <1>8, <3>2, <4>2 DEF ServerAgrees
    <3> QED
      BY <3>1, <3>2
  <2> QED
    BY <2>1 DEF ServerIsTold
<1>12. BarFollows'
  <2>1. SUFFICES ASSUME None \notin disturbed' PROVE BarFollows'
    BY DEF BarFollows
  <2>2. \A e \in refreshes' : e = active'
    BY <1>1, <2>1 DEF DocInd, BarFollows
  <2>3. ASSUME active' \notin {None} \union disturbed'
        PROVE  \/ active' \in refreshes'
               \/ \E b \in Assignments : Assigns(b, active)' /\ assignments'[b].at \in {"infer", "store"}
               \/ bar' = DocumentConnection(active)'
    <3>1. \/ active \in refreshes
          \/ \E b \in Assignments : Assigns(b, active) /\ assignments[b].at \in {"infer", "store"}
          \/ bar = DocumentConnection(active)
      BY <1>1, <2>1, <2>3 DEF DocInd, BarFollows
    <3>2. ASSUME NEW b \in Assignments, Assigns(b, active), assignments[b].at \in {"infer", "store"}
          PROVE  Assigns(b, active)' /\ assignments'[b].at \in {"infer", "store"}
      <4>1. b # c
        BY <1>1, <3>2
      <4> QED
        BY <1>1, <1>4, <3>2, <4>1 DEF Assigns
    <3>3. DocumentConnection(active)' = DocumentConnection(active)
      BY <1>1 DEF DocumentConnection, OrDisconnected
    <3> QED
      BY <1>1, <3>1, <3>2, <3>3
  <2> QED
    BY <2>2, <2>3 DEF BarFollows
<1>13. DocTypeOK'
  <2>1. fromTree' \in BOOLEAN
    <3>1. fromTree' = (fromTree /\ ~assignments[c].tree)
      BY DEF SetSent
    <3> QED
      BY Zenon, <3>1
  <2> QED
    BY Zenon, <1>1, <1>2, <1>4, <2>1 DEF DocTypeOK, Shown, Update, Assignment
<1> QED
  BY <1>9, <1>10, <1>11, <1>12, <1>13 DEF DocInd

LEMMA DocIndNext ==
  ASSUME DocumentAssumption, DocumentRecordAssumption, DocInd, [DocNext]_docVars
  PROVE  DocInd'
<1>1. ASSUME NEW d \in Docs \union {None}, ActivateEditor(d) PROVE DocInd'
  BY <1>1, DocIndActivateEditor
<1>2. ASSUME NEW u \in Updates, UpdateTree(u) PROVE DocInd'
  BY <1>2, DocIndUpdateTree
<1>3. ASSUME NEW c \in Assignments, NEW d \in Docs, NEW x \in Shown, NEW tree \in BOOLEAN,
             SetDocumentConnection(c, d, x, tree)
      PROVE  DocInd'
  BY <1>3, DocIndSetDocumentConnection
<1>4. CASE Answers
  <2>1. ASSUME NEW d \in Docs, BarInferred(d) PROVE DocInd'
    BY <2>1, DocIndBarInferred
  <2>2. ASSUME NEW u \in Updates, UpdateInferred(u) \/ UpdateRevealed(u) PROVE DocInd'
    BY <2>2, DocIndUpdateInferred, DocIndUpdateRevealed
  <2>3. ASSUME NEW c \in Assignments, NEW fails \in BOOLEAN, SetInferred(c, fails) PROVE DocInd'
    BY <2>3, DocIndSetInferred
  <2>4. ASSUME NEW c \in Assignments,
               SetStored(c) \/ SetTreeInferred(c) \/ SetTreeRevealed(c) \/ SetSent(c)
        PROVE  DocInd'
    BY <2>4, DocIndSetStored, DocIndSetTreeInferred, DocIndSetTreeRevealed, DocIndSetSent
  <2> QED
    BY Zenon, <1>4, <2>1, <2>2, <2>3, <2>4 DEF Answers
<1>5. CASE UNCHANGED docVars
  BY <1>5, DocIndStutter
<1> QED
  BY Zenon, <1>1, <1>2, <1>3, <1>4, <1>5 DEF DocNext

\* The server and the status bar have the connection in force for a document, once
\* nothing is under way on it and unless two activities on it overlapped
\* (setDocumentConnection, the tree update and the status bar's refresh).
THEOREM ConnectionsAreTold == DocSpec => []AssignmentsAgree
<1> USE DocumentAssumption, DocumentRecordAssumption
<1>1. DocInit => DocInd
  BY DocIndInit
<1>2. DocInd /\ [DocNext]_docVars => DocInd'
  BY DocIndNext
<1>3. DocInd => AssignmentsAgree
  <2> SUFFICES ASSUME DocInd PROVE AssignmentsAgree
    OBVIOUS
  <2>1. active \in Docs \union {None}
    BY DocTypes DEF DocInd
  <2>2. \A d \in Docs : ~Busy(d) => \A c \in Assignments : ~Assigns(c, d)
    BY DEF Busy, Assigns
  <2>3. ServerAgreesUndisturbed
    BY <2>2 DEF DocInd, ServerIsTold, ServerAgreesUndisturbed
  <2>4. BarAgreesUndisturbed
    BY <2>1, <2>2 DEF DocInd, BarFollows, BarAgreesUndisturbed
  <2> QED
    BY <2>3, <2>4 DEF DocInd, AssignmentsAgree
<1> QED
  BY <1>1, <1>2, <1>3, PTL DEF DocSpec

-----------------------------------------------------------------------------
\* Notebooks: an operation sets cells of the notebook, and clears others, or is a close.
WorkFits ==
    work # None =>
        /\ work.set \subseteq work.all
        /\ IF work.close THEN work.set = {} ELSE work.clear \intersect work.all = {}

\* What the cell c is to be told by the operation under way.
Due(c) == IF c \in work.all /\ ~work.close THEN work.conn ELSE None

\* The server knows of a cell what the client does, or is told once listeners are done.
CellsAreTold ==
    /\ pick # None => pick[1] \in picked
    /\ \A c \in KqlCells \ picked :
          IF work # None /\ work.now = c THEN transient[c] = Due(c) ELSE cellTold[c] = transient[c]

\* Only cells that an operation clears, or has set, have a connection.
ConnectedAreKnown ==
    \A c \in KqlCells \ picked : transient[c] # None =>
        IF work = None THEN c \in synced
        ELSE c \in work.clear \/ (~work.close /\ c \in work.all)

\* An operation has given its connection to the cells it is done with.
WorkIsDone ==
    work # None /\ ~work.close =>
        \A c \in (work.all \ work.set) \ picked : transient[c] = work.conn

\* An event takes the connection from the metadata.
EventsAreBare == \A i \in 1 .. Len(queue) : queue[i].kind = "event" => queue[i].conn = None

\* After the notebook is closed its connections are cleared; only calls of
\* setConnection that outlive it come later, and they are excused.
ClosedIsCleared ==
    IF isOpen
    THEN (\A i \in 1 .. Len(queue) : queue[i].kind # "close") /\ (work # None => ~work.close)
    ELSE \E i \in 0 .. Len(queue) :
            /\ \A j \in (i + 1) .. Len(queue) : queue[j].kind = "explicit"
            /\ IF i = 0 THEN work # None /\ ~missed => work.close ELSE queue[i].kind = "close"

\* The last operation is for the notebook as it is, and leaves its cells so.
LastIsCurrent ==
    queue = <<>> /\ ~missed =>
        IF work # None
        THEN isOpen => work.all = cells /\ work.conn = meta
        ELSE \A c \in KqlCells \ picked :
                transient[c] = IF isOpen /\ c \in cells THEN meta ELSE None

NcInd ==
    /\ NcTypeOK /\ WorkFits /\ CellsAreTold /\ ConnectedAreKnown
    /\ WorkIsDone /\ EventsAreBare /\ ClosedIsCleared /\ LastIsCurrent
-----------------------------------------------------------------------------
LEMMA NcTypes ==
  ASSUME NcTypeOK
  PROVE  /\ isOpen \in BOOLEAN /\ cells \subseteq KqlCells /\ meta \in ConnOrNone
         /\ edits \in Seq(NbConns) /\ applied \in Seq(NbConns) /\ queue \in Seq(Op)
         /\ work \in Work \union {None}
         /\ work # None => work.clear \intersect work.set = {}
         /\ synced \subseteq KqlCells
         /\ transient \in [KqlCells -> ConnOrNone]
         /\ cellSaved \in [KqlCells -> ConnOrNone]
         /\ cellTold \in [KqlCells -> ConnOrNone]
         /\ pick \in (KqlCells \X NbConns) \union {None}
         /\ picked \subseteq KqlCells /\ missed \in BOOLEAN
         /\ changes \in 0 .. MaxChanges
BY Zenon DEF NcTypeOK

\* The operations stay as they are when the rest of the state changes.
LEMMA NcTypesStay ==
  ASSUME NcTypeOK,
         isOpen' \in BOOLEAN, cells' \subseteq KqlCells, meta' \in ConnOrNone,
         edits' \in Seq(NbConns), applied' \in Seq(NbConns), queue' \in Seq(Op),
         changes' \in 0 .. MaxChanges,
         UNCHANGED <<work, synced, cellVars, pick, picked, missed>>
  PROVE  NcTypeOK'
BY Zenon DEF NcTypeOK, Work, ConnOrNone, Op, cellVars

LEMMA NcIndInit ==
  ASSUME NotebookConnAssumption, NcInit
  PROVE  NcInd
<1>1. /\ isOpen = TRUE /\ cells \in SUBSET KqlCells /\ meta \in ConnOrNone
      /\ edits = <<>> /\ applied = <<>> /\ queue = <<Event>>
      /\ work = None /\ synced = {}
      /\ transient = [c \in KqlCells |-> None]
      /\ cellSaved = [c \in KqlCells |-> None]
      /\ cellTold = [c \in KqlCells |-> None]
      /\ pick = None /\ picked = {} /\ missed = FALSE /\ changes = 0
  BY Zenon DEF NcInit
<1>2. Event \in Op /\ Event.kind = "event" /\ Event.conn = None
  BY DEF Event, Op, ConnOrNone
<1>3. queue \in Seq(Op) /\ Len(queue) = 1 /\ queue[1] = Event
  BY <1>1, <1>2
<1>4. NcTypeOK
  <2>1. /\ transient \in [KqlCells -> ConnOrNone] /\ cellSaved \in [KqlCells -> ConnOrNone]
        /\ cellTold \in [KqlCells -> ConnOrNone]
    BY <1>1 DEF ConnOrNone
  <2>2. edits \in Seq(NbConns) /\ applied \in Seq(NbConns) /\ changes \in 0 .. MaxChanges
    BY <1>1, NotebookConnAssumption
  <2> QED
    BY <1>1, <1>3, <2>1, <2>2 DEF NcTypeOK
<1>5. WorkFits /\ CellsAreTold /\ ConnectedAreKnown /\ WorkIsDone
  BY <1>1 DEF WorkFits, CellsAreTold, ConnectedAreKnown, WorkIsDone
<1>6. EventsAreBare /\ ClosedIsCleared
  BY <1>1, <1>2, <1>3 DEF EventsAreBare, ClosedIsCleared
<1>7. LastIsCurrent
  BY <1>3 DEF LastIsCurrent
<1> QED
  BY <1>4, <1>5, <1>6, <1>7 DEF NcInd

\* A change of the notebook is followed by an operation on the queue.
LEMMA NcIndEnqueues ==
  ASSUME NcInd, NcTypeOK', UNCHANGED <<work, synced, cellVars, pick, picked, missed>>,
         \/ UNCHANGED <<notebook, queue>>
         \/ \E op \in Op :
               /\ queue' = Append(queue, op)
               /\ \/ op.kind = "explicit" /\ isOpen' = isOpen
                  \/ op.kind = "event" /\ op.conn = None /\ isOpen /\ isOpen'
                  \/ op.kind = "close" /\ isOpen /\ ~isOpen'
  PROVE  NcInd'
<1>1. queue \in Seq(Op)
  BY NcTypes DEF NcInd
<1>2. WorkFits' /\ CellsAreTold' /\ ConnectedAreKnown' /\ WorkIsDone'
  BY DEF NcInd, WorkFits, CellsAreTold, Due, ConnectedAreKnown, WorkIsDone, cellVars
<1>3. CASE UNCHANGED <<notebook, queue>>
  BY <1>2, <1>3 DEF NcInd, EventsAreBare, ClosedIsCleared, LastIsCurrent, notebook, cellVars
<1>4. ASSUME NEW op \in Op, queue' = Append(queue, op),
             \/ op.kind = "explicit" /\ isOpen' = isOpen
             \/ op.kind = "event" /\ op.conn = None /\ isOpen /\ isOpen'
             \/ op.kind = "close" /\ isOpen /\ ~isOpen'
      PROVE  NcInd'
  <2>1. /\ Len(queue) \in Nat /\ Len(queue') = Len(queue) + 1
        /\ \A i \in 1 .. Len(queue) : queue'[i] = queue[i]
        /\ queue'[Len(queue) + 1] = op
    BY <1>1, <1>4, AppendProperties, LenProperties
  <2>2. LastIsCurrent'
    BY <2>1 DEF LastIsCurrent
  <2>3. ClosedIsCleared'
    <3>1. CASE isOpen'
      <4>1. isOpen /\ op.kind # "close"
        BY <1>4, <3>1
      <4>2. ASSUME NEW i \in 1 .. Len(queue') PROVE queue'[i].kind # "close"
        <5>1. CASE i \in 1 .. Len(queue)
          BY <2>1, <4>1, <5>1 DEF NcInd, ClosedIsCleared
        <5>2. CASE i = Len(queue) + 1
          BY <2>1, <4>1, <5>2
        <5> QED
          BY <2>1, <5>1, <5>2
      <4> QED
        BY <3>1, <4>1, <4>2 DEF NcInd, ClosedIsCleared
    <3>2. CASE isOpen /\ ~isOpen'
      <4>1. op.kind = "close"
        BY <1>4, <3>2
      <4>2. Len(queue) + 1 \in 0 .. Len(queue') /\ Len(queue) + 1 # 0
        BY <2>1
      <4>3. \A j \in (Len(queue) + 1 + 1) .. Len(queue') : queue'[j].kind = "explicit"
        BY <2>1
      <4> QED
        BY <2>1, <3>2, <4>1, <4>2, <4>3 DEF ClosedIsCleared
    <3>3. CASE ~isOpen /\ ~isOpen'
      <4>1. op.kind = "explicit"
        BY <1>4, <3>3
      <4>2. PICK i \in 0 .. Len(queue) :
               /\ \A j \in (i + 1) .. Len(queue) : queue[j].kind = "explicit"
               /\ IF i = 0 THEN work # None /\ ~missed => work.close ELSE queue[i].kind = "close"
        BY <3>3 DEF NcInd, ClosedIsCleared
      <4>3. i \in 0 .. Len(queue')
        BY <2>1
      <4>4. ASSUME NEW j \in (i + 1) .. Len(queue') PROVE queue'[j].kind = "explicit"
        <5>1. CASE j \in (i + 1) .. Len(queue)
          <6>1. j \in 1 .. Len(queue)
            BY <5>1
          <6> QED
            BY <2>1, <4>2, <5>1, <6>1
        <5>2. CASE j = Len(queue) + 1
          BY <2>1, <4>1, <5>2
        <5> QED
          BY <2>1, <5>1, <5>2
      <4>5. IF i = 0 THEN work' # None /\ ~missed' => work'.close ELSE queue'[i].kind = "close"
        <5>1. CASE i = 0
          BY <4>2, <5>1
        <5>2. CASE i # 0
          <6>1. i \in 1 .. Len(queue)
            BY <5>2
          <6> QED
            BY <2>1, <4>2, <5>2, <6>1
        <5> QED
          BY <5>1, <5>2
      <4> QED
        BY <3>3, <4>3, <4>4, <4>5 DEF ClosedIsCleared
    <3> QED
      BY <1>4, <3>1, <3>2, <3>3
  <2>4. EventsAreBare'
    <3>1. ASSUME NEW i \in 1 .. Len(queue'), queue'[i].kind = "event" PROVE queue'[i].conn = None
      <4>1. CASE i \in 1 .. Len(queue)
        BY <2>1, <3>1, <4>1 DEF NcInd, EventsAreBare
      <4>2. CASE i = Len(queue) + 1
        BY <1>4, <2>1, <3>1, <4>2
      <4> QED
        BY <2>1, <4>1, <4>2
    <3> QED
      BY <3>1 DEF EventsAreBare
  <2> QED
    BY <1>2, <2>2, <2>3, <2>4 DEF NcInd
<1> QED
  BY <1>3, <1>4

\* The user edits the notebook or sets its connection; an edit is applied, or setConnection resumes.
LEMMA NcIndNotebook ==
  ASSUME NotebookConnAssumption, NcInd,
         \/ EditCells \/ EditMetadata \/ CloseNotebook \/ \E x \in NbConns : SetConnection(x)
         \/ SynchronizeExplicit \/ \E accepted \in BOOLEAN : EditApplied(accepted)
  PROVE  NcInd'
<1>1. NcTypeOK
  BY DEF NcInd
<1>2. /\ isOpen \in BOOLEAN /\ cells \subseteq KqlCells /\ meta \in ConnOrNone
      /\ edits \in Seq(NbConns) /\ applied \in Seq(NbConns) /\ queue \in Seq(Op)
      /\ changes \in 0 .. MaxChanges /\ MaxChanges \in Nat
  BY <1>1, NcTypes, NotebookConnAssumption
<1>3. Event \in Op /\ Event.kind = "event" /\ Event.conn = None
  BY DEF Event, Op, ConnOrNone
<1>4. \A op \in Op : Append(queue, op) \in Seq(Op)
  BY <1>2
<1>5. UserActs => isOpen /\ changes' \in 0 .. MaxChanges
  BY <1>2 DEF UserActs
<1>6. CASE EditCells
  <2>1. /\ UserActs /\ queue' = Append(queue, Event) /\ cells' \subseteq KqlCells
        /\ UNCHANGED <<isOpen, meta, edits, applied, work, synced, cellVars, pick, picked, missed>>
    BY <1>2, <1>6 DEF EditCells, Enqueue
  <2>2. NcTypeOK'
    BY <1>1, <1>2, <1>3, <1>4, <1>5, <2>1, NcTypesStay
  <2> QED
    BY <1>3, <1>5, <2>1, <2>2, NcIndEnqueues
<1>7. CASE EditMetadata
  <2>1. /\ UserActs /\ queue' = Append(queue, Event) /\ meta' \in ConnOrNone
        /\ UNCHANGED <<isOpen, cells, edits, applied, work, synced, cellVars, pick, picked, missed>>
    BY <1>7 DEF EditMetadata, Enqueue
  <2>2. NcTypeOK'
    BY <1>1, <1>2, <1>3, <1>4, <1>5, <2>1, NcTypesStay
  <2> QED
    BY <1>3, <1>5, <2>1, <2>2, NcIndEnqueues
<1>8. CASE CloseNotebook
  <2> DEFINE op == [kind |-> "close", conn |-> None]
  <2>1. /\ UserActs /\ isOpen' = FALSE /\ queue' = Append(queue, op)
        /\ UNCHANGED <<cells, meta, edits, applied, work, synced, cellVars, pick, picked, missed>>
    BY <1>8 DEF CloseNotebook, Enqueue
  <2>2. op \in Op /\ op.kind = "close"
    BY DEF Op, ConnOrNone
  <2> HIDE DEF op
  <2>3. NcTypeOK'
    BY <1>1, <1>2, <1>4, <1>5, <2>1, <2>2, NcTypesStay
  <2> QED
    BY <1>5, <2>1, <2>2, <2>3, NcIndEnqueues
<1>9. ASSUME NEW x \in NbConns, SetConnection(x) PROVE NcInd'
  <2> DEFINE op == [kind |-> "explicit", conn |-> x]
  <2>1. /\ UserActs
        /\ IF x = meta THEN queue' = Append(queue, op) /\ UNCHANGED edits
           ELSE edits' = Append(edits, x) /\ UNCHANGED queue
        /\ UNCHANGED <<notebook, applied, work, synced, cellVars, pick, picked, missed>>
    BY <1>9 DEF SetConnection, Enqueue
  <2>2. op \in Op /\ op.kind = "explicit"
    BY DEF Op, ConnOrNone
  <2> HIDE DEF op
  <2>3. edits' \in Seq(NbConns) /\ queue' \in Seq(Op)
    <3>1. Append(edits, x) \in Seq(NbConns)
      BY <1>2, AppendProperties
    <3> QED
      BY <1>2, <1>4, <2>1, <2>2, <3>1
  <2>4. UNCHANGED <<isOpen, cells, meta>>
    BY <2>1 DEF notebook
  <2>5. NcTypeOK'
    BY <1>1, <1>2, <1>5, <2>1, <2>3, <2>4, NcTypesStay
  <2> QED
    BY <2>1, <2>2, <2>4, <2>5, NcIndEnqueues
<1>10. CASE SynchronizeExplicit
  <2> DEFINE op == [kind |-> "explicit", conn |-> Head(applied)]
  <2>1. /\ applied # <<>> /\ applied' = Tail(applied) /\ queue' = Append(queue, op)
        /\ UNCHANGED <<notebook, edits, work, synced, cellVars, pick, picked, missed, changes>>
    BY <1>10 DEF SynchronizeExplicit, Enqueue
  <2>2. Head(applied) \in NbConns /\ Tail(applied) \in Seq(NbConns)
    BY <1>2, <2>1
  <2>3. op \in Op /\ op.kind = "explicit"
    BY <2>2 DEF Op, ConnOrNone
  <2> HIDE DEF op
  <2>4. UNCHANGED <<isOpen, cells, meta>>
    BY <2>1 DEF notebook
  <2>5. NcTypeOK'
    BY <1>1, <1>2, <1>4, <2>1, <2>2, <2>3, <2>4, NcTypesStay
  <2> QED
    BY <2>1, <2>3, <2>4, <2>5, NcIndEnqueues
<1>11. ASSUME NEW accepted \in BOOLEAN, EditApplied(accepted) PROVE NcInd'
  <2>1. /\ edits # <<>> /\ edits' = Tail(edits)
        /\ UNCHANGED <<isOpen, cells, work, synced, cellVars, pick, picked, missed, changes>>
    BY <1>11 DEF EditApplied
  <2>2. Head(edits) \in NbConns /\ Tail(edits) \in Seq(NbConns)
    BY <1>2, <2>1
  <2>3. CASE isOpen /\ accepted
    <3>1. /\ meta' = Head(edits) /\ applied' = Append(applied, Head(edits))
          /\ IF meta = Head(edits) THEN UNCHANGED queue ELSE queue' = Append(queue, Event)
      BY <1>11, <2>3 DEF EditApplied, Enqueue
    <3>2. applied' \in Seq(NbConns) /\ meta' \in ConnOrNone /\ queue' \in Seq(Op)
      <4>1. Append(applied, Head(edits)) \in Seq(NbConns)
        BY <1>2, <2>2, AppendProperties
      <4> QED
        BY <1>2, <1>3, <1>4, <2>2, <3>1, <4>1 DEF ConnOrNone
    <3>3. NcTypeOK'
      BY <1>1, <1>2, <2>1, <2>2, <3>2, NcTypesStay
    <3>4. CASE meta = Head(edits)
      <4>1. UNCHANGED <<notebook, queue>>
        BY <2>1, <3>1, <3>4 DEF notebook
      <4> QED
        BY <2>1, <3>3, <4>1, NcIndEnqueues
    <3>5. CASE meta # Head(edits)
      BY <1>3, <2>1, <2>3, <3>1, <3>3, <3>5, NcIndEnqueues
    <3> QED
      BY <3>4, <3>5
  <2>4. CASE ~(isOpen /\ accepted)
    <3>1. UNCHANGED <<meta, applied, queue>>
      BY <1>11, <2>4 DEF EditApplied
    <3>2. NcTypeOK'
      BY <1>1, <1>2, <2>1, <2>2, <3>1, NcTypesStay
    <3> QED
      BY <2>1, <3>1, <3>2, NcIndEnqueues DEF notebook
  <2> QED
    BY <2>3, <2>4
<1> QED
  BY Zenon, <1>6, <1>7, <1>8, <1>9, <1>10, <1>11

\* The first operation leaves the queue: what is known of those after it.
LEMMA QueueAdvances ==
  ASSUME NcInd, queue # <<>>, queue' = Tail(queue)
  PROVE  /\ Head(queue) \in Op /\ queue' \in Seq(Op)
         /\ Head(queue).kind \in {"event", "explicit", "close"} /\ Head(queue).conn \in ConnOrNone
         /\ Len(queue) \in Nat /\ Len(queue) >= 1 /\ Len(queue') = Len(queue) - 1
         /\ Head(queue) = queue[1]
         /\ \A i \in 1 .. (Len(queue) - 1) : queue'[i] = queue[i + 1]
<1>1. queue \in Seq(Op)
  BY NcTypes DEF NcInd
<1>2. /\ Head(queue) \in Op /\ queue' \in Seq(Op) /\ Len(queue') = Len(queue) - 1
      /\ \A i \in 1 .. (Len(queue) - 1) : queue'[i] = queue[i + 1]
  BY <1>1, HeadTailProperties
<1>3. Len(queue) \in Nat /\ Len(queue) >= 1 /\ Head(queue) = queue[1]
  BY <1>1, EmptySeq, LenProperties
<1> QED
  BY <1>2, <1>3 DEF Op

\* An operation starts: the cells to clear are those it does not set.
LEMMA NcIndStartWork ==
  ASSUME NotebookConnAssumption, WorkAssumption, NcInd, StartWork
  PROVE  NcInd'
<1> DEFINE op == Head(queue)
           w == WorkOf(op)
<1>1. /\ work = None /\ queue # <<>> /\ queue' = Tail(queue) /\ work' = w
      /\ synced' = IF op.kind = "close" THEN {} ELSE synced
      /\ missed' = CASE op.kind = "event" -> FALSE
                     [] op.kind = "explicit" -> op.conn # meta \/ ~isOpen
                     [] op.kind = "close" -> missed
      /\ UNCHANGED <<notebook, edits, applied, cellVars, pick, picked, changes>>
  BY DEF StartWork
<1>2. /\ op \in Op /\ queue' \in Seq(Op)
      /\ op.kind \in {"event", "explicit", "close"} /\ op.conn \in ConnOrNone
      /\ Len(queue) \in Nat /\ Len(queue) >= 1 /\ Len(queue') = Len(queue) - 1
      /\ op = queue[1]
      /\ \A i \in 1 .. (Len(queue) - 1) : queue'[i] = queue[i + 1]
  BY <1>1, QueueAdvances
<1> HIDE DEF op
<1>3. /\ isOpen \in BOOLEAN /\ cells \subseteq KqlCells /\ meta \in ConnOrNone
      /\ synced \subseteq KqlCells /\ missed \in BOOLEAN
  BY NcTypes DEF NcInd
<1>4. /\ w \in Work /\ w # None /\ w.now = None /\ w.all = cells
      /\ w.close <=> op.kind = "close"
      /\ w.clear = IF op.kind = "close" THEN synced ELSE synced \ cells
      /\ w.set = IF op.kind = "close" THEN {} ELSE cells
      /\ w.conn = IF op.conn = None THEN meta ELSE op.conn
  <2>1. w \in Work
    BY <1>2, <1>3 DEF WorkOf, Work, ConnOrNone
  <2> QED
    BY <2>1, WorkAssumption DEF WorkOf
<1> HIDE DEF w
<1>5. WorkFits'
  BY <1>1, <1>4 DEF WorkFits
<1>6. UNCHANGED <<isOpen, cells, meta, transient, cellSaved, cellTold, pick, picked>>
  BY <1>1 DEF notebook, cellVars
<1>7. CellsAreTold'
  <2>1. ASSUME NEW c \in KqlCells \ picked PROVE cellTold[c] = transient[c] /\ c # None
    <3>1. cellTold[c] = transient[c]
      BY <1>1, <2>1 DEF NcInd, CellsAreTold
    <3> QED
      BY <3>1, NotebookConnAssumption
  <2>2. pick # None => pick[1] \in picked
    BY DEF NcInd, CellsAreTold
  <2> QED
    BY <1>1, <1>4, <1>6, <2>1, <2>2 DEF CellsAreTold
<1>8. ConnectedAreKnown'
  BY <1>1, <1>4, <1>6 DEF NcInd, ConnectedAreKnown
<1>9. WorkIsDone'
  BY <1>1, <1>4 DEF WorkIsDone
<1>10. missed' \in BOOLEAN
  <2>1. CASE op.kind = "event"
    BY <1>1, <2>1
  <2>2. CASE op.kind = "explicit"
    <3>1. missed' = (op.conn # meta \/ ~isOpen)
      BY <1>1, <2>2
    <3> QED
      BY <3>1
  <2>3. CASE op.kind = "close"
    BY <1>1, <1>3, <2>3
  <2> QED
    BY <1>2, <2>1, <2>2, <2>3
<1>11. ClosedIsCleared'
  <2>1. CASE isOpen
    <3>1. \A i \in 1 .. Len(queue) : queue[i].kind # "close"
      BY <2>1 DEF NcInd, ClosedIsCleared
    <3>2. ASSUME NEW i \in 1 .. Len(queue') PROVE queue'[i].kind # "close"
      <4>1. i \in 1 .. (Len(queue) - 1) /\ i + 1 \in 1 .. Len(queue)
        BY <1>2
      <4> QED
        BY <1>2, <3>1, <4>1
    <3>3. op.kind # "close"
      BY <1>2, <3>1
    <3> QED
      BY <1>1, <1>4, <1>6, <2>1, <3>2, <3>3 DEF ClosedIsCleared
  <2>2. CASE ~isOpen
    <3>1. PICK i \in 0 .. Len(queue) :
             /\ \A j \in (i + 1) .. Len(queue) : queue[j].kind = "explicit"
             /\ IF i = 0 THEN work # None /\ ~missed => work.close ELSE queue[i].kind = "close"
      BY <2>2 DEF NcInd, ClosedIsCleared
    <3> DEFINE k == IF i = 0 THEN 0 ELSE i - 1
    <3>2. k \in 0 .. Len(queue')
      BY <1>2
    <3>3. ASSUME NEW j \in (k + 1) .. Len(queue') PROVE queue'[j].kind = "explicit"
      <4>1. j \in 1 .. (Len(queue) - 1) /\ j + 1 \in (i + 1) .. Len(queue)
        BY <1>2, <3>2
      <4> QED
        BY <1>2, <3>1, <4>1
    <3>4. IF k = 0 THEN work' # None /\ ~missed' => work'.close ELSE queue'[k].kind = "close"
      <4>1. CASE i = 0
        <5>1. op.kind = "explicit"
          BY <1>2, <3>1, <4>1
        <5>2. missed'
          BY <1>1, <2>2, <5>1
        <5> QED
          BY <4>1, <5>2
      <4>2. CASE i = 1
        <5>1. op.kind = "close"
          BY <1>2, <3>1, <4>2
        <5> QED
          BY <1>1, <1>4, <4>2, <5>1
      <4>3. CASE i \notin {0, 1}
        <5>1. i - 1 \in 1 .. (Len(queue) - 1) /\ k = i - 1 /\ k # 0 /\ i - 1 + 1 = i
          BY <1>2, <4>3
        <5> QED
          BY <1>2, <3>1, <4>3, <5>1
      <4> QED
        BY <4>1, <4>2, <4>3
    <3> QED
      BY <1>6, <2>2, <3>2, <3>3, <3>4 DEF ClosedIsCleared
  <2> QED
    BY <2>1, <2>2
<1>12. EventsAreBare'
  <2>1. ASSUME NEW i \in 1 .. Len(queue'), queue'[i].kind = "event" PROVE queue'[i].conn = None
    <3>1. i \in 1 .. (Len(queue) - 1) /\ i + 1 \in 1 .. Len(queue)
      BY <1>2
    <3> QED
      BY <1>2, <2>1, <3>1 DEF NcInd, EventsAreBare
  <2> QED
    BY <2>1 DEF EventsAreBare
<1>13. LastIsCurrent'
  <2>1. SUFFICES ASSUME ~missed', isOpen PROVE w.all = cells /\ w.conn = meta
    BY <1>1, <1>4, <1>6 DEF LastIsCurrent
  <2>2. op.kind # "close"
    BY <1>2, <2>1 DEF NcInd, ClosedIsCleared
  <2>3. CASE op.kind = "event"
    <3>1. op.conn = None
      BY <1>2, <2>3 DEF NcInd, EventsAreBare
    <3> QED
      BY <1>4, <3>1
  <2>4. CASE op.kind = "explicit"
    BY <1>1, <1>4, <2>1, <2>4
  <2> QED
    BY <1>2, <2>2, <2>3, <2>4
<1>14. NcTypeOK'
  <2>1. work' # None => work'.clear \intersect work'.set = {}
    BY <1>1, <1>4
  <2>2. synced' \subseteq KqlCells
    BY <1>1, <1>3
  <2> QED
    BY Zenon, <1>1, <1>2, <1>4, <1>6, <1>10, <2>1, <2>2 DEF NcInd, NcTypeOK, Work, ConnOrNone, Op
<1> QED
  BY <1>5, <1>7, <1>8, <1>9, <1>11, <1>12, <1>13, <1>14 DEF NcInd

\* An event that fails leaves the queue; what follows is excused until the next one.
LEMMA NcIndFail ==
  ASSUME NcInd, Fail
  PROVE  NcInd'
<1>1. /\ work = None /\ queue # <<>> /\ Head(queue).kind = "event" /\ queue' = Tail(queue)
      /\ missed' = TRUE
      /\ UNCHANGED <<notebook, edits, applied, work, synced, cellVars, pick, picked, changes>>
  BY DEF Fail
<1>2. /\ queue' \in Seq(Op) /\ Len(queue) \in Nat /\ Len(queue) >= 1 /\ Len(queue') = Len(queue) - 1
      /\ Head(queue) = queue[1]
      /\ \A i \in 1 .. (Len(queue) - 1) : queue'[i] = queue[i + 1]
  BY <1>1, QueueAdvances
<1>3. UNCHANGED <<isOpen, cells, meta, transient, cellSaved, cellTold>>
  BY <1>1 DEF notebook, cellVars
<1>4. WorkFits' /\ CellsAreTold' /\ ConnectedAreKnown' /\ WorkIsDone'
  BY <1>1, <1>3 DEF NcInd, WorkFits, CellsAreTold, ConnectedAreKnown, WorkIsDone, Due
<1>5. EventsAreBare'
  <2>1. ASSUME NEW i \in 1 .. Len(queue'), queue'[i].kind = "event" PROVE queue'[i].conn = None
    <3>1. i \in 1 .. (Len(queue) - 1) /\ i + 1 \in 1 .. Len(queue)
      BY <1>2
    <3> QED
      BY <1>2, <2>1, <3>1 DEF NcInd, EventsAreBare
  <2> QED
    BY <2>1 DEF EventsAreBare
<1>6. ClosedIsCleared'
  <2>1. CASE isOpen
    <3>1. ASSUME NEW i \in 1 .. Len(queue') PROVE queue'[i].kind # "close"
      <4>1. i \in 1 .. (Len(queue) - 1) /\ i + 1 \in 1 .. Len(queue)
        BY <1>2
      <4> QED
        BY <1>2, <2>1, <4>1 DEF NcInd, ClosedIsCleared
    <3> QED
      BY <1>1, <1>3, <2>1, <3>1 DEF ClosedIsCleared
  <2>2. CASE ~isOpen
    <3>1. PICK i \in 0 .. Len(queue) :
             /\ \A j \in (i + 1) .. Len(queue) : queue[j].kind = "explicit"
             /\ IF i = 0 THEN work # None /\ ~missed => work.close ELSE queue[i].kind = "close"
      BY <2>2 DEF NcInd, ClosedIsCleared
    <3>2. i # 0 /\ i # 1
      BY <1>1, <1>2, <3>1
    <3>3. i - 1 \in 0 .. Len(queue') /\ i - 1 # 0 /\ i - 1 \in 1 .. (Len(queue) - 1) /\ i - 1 + 1 = i
      BY <1>2, <3>2
    <3>4. ASSUME NEW j \in (i - 1 + 1) .. Len(queue') PROVE queue'[j].kind = "explicit"
      <4>1. j \in 1 .. (Len(queue) - 1) /\ j + 1 \in (i + 1) .. Len(queue)
        BY <1>2, <3>2
      <4> QED
        BY <1>2, <3>1, <4>1
    <3>5. queue'[i - 1].kind = "close"
      BY <1>2, <3>1, <3>2, <3>3
    <3> QED
      BY <1>3, <2>2, <3>3, <3>4, <3>5 DEF ClosedIsCleared
  <2> QED
    BY <2>1, <2>2
<1>7. LastIsCurrent'
  BY <1>1 DEF LastIsCurrent
<1>8. NcTypeOK'
  <2>1. missed' \in BOOLEAN
    BY <1>1
  <2> QED
    BY Zenon, <1>1, <1>2, <1>3, <2>1 DEF NcInd, NcTypeOK, Work, ConnOrNone, Op
<1> QED
  BY <1>4, <1>5, <1>6, <1>7, <1>8 DEF NcInd

\* A step that leaves the notebook and the queue alone.
LEMMA QueueStays ==
  ASSUME NcInd, UNCHANGED <<notebook, queue, missed>>,
         work' # None => work # None /\ work'.close = work.close
  PROVE  EventsAreBare' /\ ClosedIsCleared'
<1>1. EventsAreBare'
  BY DEF NcInd, EventsAreBare
<1>2. isOpen' = isOpen /\ queue' = queue /\ missed' = missed
  BY DEF notebook
<1>3. CASE isOpen
  <2>1. /\ \A i \in 1 .. Len(queue) : queue[i].kind # "close"
        /\ work # None => ~work.close
    BY <1>3 DEF NcInd, ClosedIsCleared
  <2>2. \A i \in 1 .. Len(queue') : queue'[i].kind # "close"
    BY <1>2, <2>1
  <2>3. work' # None => ~work'.close
    <3>1. ASSUME work' # None  PROVE ~work'.close
      <4>1. work # None /\ work'.close = work.close
        BY <3>1
      <4>2. ~work.close
        BY <2>1, <4>1
      <4> QED
        BY <4>1, <4>2, Zenon
    <3> QED
      BY <3>1
  <2>4. isOpen'
    BY <1>2, <1>3
  <2> QED
    BY <1>1, <2>2, <2>3, <2>4, Zenon DEF ClosedIsCleared
<1>4. CASE ~isOpen
  <2>1. PICK i \in 0 .. Len(queue) :
           /\ \A j \in (i + 1) .. Len(queue) : queue[j].kind = "explicit"
           /\ IF i = 0 THEN work # None /\ ~missed => work.close ELSE queue[i].kind = "close"
    BY <1>4 DEF NcInd, ClosedIsCleared
  <2>2. IF i = 0 THEN work' # None /\ ~missed' => work'.close ELSE queue'[i].kind = "close"
    <3>1. CASE i = 0
      <4>1. ASSUME work' # None, ~missed'  PROVE work'.close
        <5>1. work # None /\ work'.close = work.close
          BY <4>1
        <5>2. work.close
          BY <1>2, <2>1, <3>1, <4>1, <5>1
        <5> QED
          BY <5>1, <5>2, Zenon
      <4> QED
        BY <3>1, <4>1
    <3>2. CASE i # 0
      BY <1>2, <2>1, <3>2
    <3> QED
      BY <3>1, <3>2
  <2>3. \A j \in (i + 1) .. Len(queue') : queue'[j].kind = "explicit"
    BY <1>2, <2>1
  <2>4. i \in 0 .. Len(queue')
    BY <1>2
  <2>5. ~isOpen'
    BY <1>2, <1>4
  <2> QED
    BY <1>1, <2>2, <2>3, <2>4, <2>5, Zenon DEF ClosedIsCleared
<1> QED
  BY <1>1, <1>3, <1>4

\* An operation gives a cell the connection it is due, or takes it, and awaits
\* the listeners if that is a change.
LEMMA NcIndCellSet ==
  ASSUME NotebookConnAssumption, WorkAssumption, NcInd, NEW c \in KqlCells,
         ClearCell(c) \/ SetCell(c)
  PROVE  NcInd'
<1>1. /\ work # None /\ work.now = None
      /\ UNCHANGED <<notebook, edits, applied, queue, synced, cellSaved, pick, picked, missed, changes>>
  BY DEF ClearCell, SetCell
<1>2. /\ work \in Work /\ work.clear \intersect work.set = {} /\ synced \subseteq KqlCells
      /\ transient \in [KqlCells -> ConnOrNone] /\ cellTold \in [KqlCells -> ConnOrNone]
      /\ picked \subseteq KqlCells
  BY <1>1, NcTypes DEF NcInd
<1>3. /\ work.clear \subseteq KqlCells /\ work.set \subseteq KqlCells /\ work.all \subseteq KqlCells
      /\ work.conn \in ConnOrNone /\ work.close \in BOOLEAN
  BY <1>2 DEF Work
<1>4. /\ work.set \subseteq work.all
      /\ IF work.close THEN work.set = {} ELSE work.clear \intersect work.all = {}
  BY <1>1 DEF NcInd, WorkFits
<1> DEFINE x == IF c \in work.clear THEN None ELSE work.conn
<1>5. /\ c \in work.clear \union work.set
      /\ x = Due(c) /\ x \in ConnOrNone
      /\ transient' = [transient EXCEPT ![c] = x]
      /\ work' = [work EXCEPT !.clear = @ \ {c},
                              !.set = IF c \in work.clear THEN @ ELSE @ \ {c},
                              !.now = IF transient[c] = x THEN None ELSE c]
      /\ cellTold' = cellTold \/ (transient[c] = x /\ cellTold' = [cellTold EXCEPT ![c] = x])
  <2>1. CASE ClearCell(c)
    <3>1. /\ c \in work.clear \/ (work.clear = {} /\ c \in work.set /\ work.conn = None)
          /\ transient' = [transient EXCEPT ![c] = None]
          /\ work' = [work EXCEPT !.clear = @ \ {c},
                                  !.set = IF c \in work.clear THEN @ ELSE @ \ {c},
                                  !.now = IF transient[c] = None THEN None ELSE c]
          /\ cellTold' = cellTold
      BY <2>1 DEF ClearCell
    <3>2. x = None
      BY <3>1
    <3>3. x = Due(c)
      BY <1>4, <3>1, <3>2 DEF Due
    <3> QED
      BY <3>1, <3>2, <3>3 DEF ConnOrNone
  <2>2. CASE SetCell(c)
    <3>1. /\ work.clear = {} /\ c \in work.set
          /\ transient' = [transient EXCEPT ![c] = work.conn]
          /\ work' = [work EXCEPT !.set = @ \ {c},
                                  !.now = IF transient[c] = work.conn THEN None ELSE c]
          /\ cellTold' = IF transient[c] = work.conn THEN [cellTold EXCEPT ![c] = work.conn] ELSE cellTold
      BY <2>2 DEF SetCell
    <3>2. x = work.conn
      BY <3>1
    <3>3. x = Due(c)
      BY <1>4, <3>1, <3>2 DEF Due
    <3>4. work' = [work EXCEPT !.clear = @ \ {c},
                              !.set = IF c \in work.clear THEN @ ELSE @ \ {c},
                              !.now = IF transient[c] = x THEN None ELSE c]
      BY <1>2, <3>1, <3>2 DEF Work
    <3> QED
      BY <1>3, <3>1, <3>2, <3>3, <3>4
  <2> QED
    BY <2>1, <2>2
<1> HIDE DEF x
<1>6. /\ work' \in Work /\ work' # None
      /\ work'.clear = work.clear \ {c}
      /\ work'.set = work.set \ {c}
      /\ work'.all = work.all /\ work'.conn = work.conn /\ work'.close = work.close
      /\ work'.now = IF transient[c] = x THEN None ELSE c
  <2>1. work' \in Work
    BY <1>2, <1>5 DEF Work
  <2>2. /\ work'.clear = work.clear \ {c}
        /\ work'.set = IF c \in work.clear THEN work.set ELSE work.set \ {c}
        /\ work'.all = work.all /\ work'.conn = work.conn /\ work'.close = work.close
        /\ work'.now = IF transient[c] = x THEN None ELSE c
    BY <1>2, <1>5 DEF Work
  <2>3. c \in work.clear => work.set = work.set \ {c}
    BY <1>2
  <2> QED
    BY <2>1, <2>2, <2>3, WorkAssumption
<1>7. /\ transient' \in [KqlCells -> ConnOrNone] /\ cellTold' \in [KqlCells -> ConnOrNone]
      /\ transient'[c] = x /\ \A b \in KqlCells : b # c => transient'[b] = transient[b]
      /\ \A b \in KqlCells : b # c => cellTold'[b] = cellTold[b]
      /\ transient[c] = x => cellTold'[c] \in {cellTold[c], x}
  BY <1>2, <1>5
<1>8. UNCHANGED <<isOpen, cells, meta>>
  BY <1>1 DEF notebook
<1>9. WorkFits'
  BY <1>4, <1>6 DEF WorkFits
<1>10. CellsAreTold'
  <2>1. pick' # None => pick'[1] \in picked'
    BY <1>1 DEF NcInd, CellsAreTold
  <2>2. ASSUME NEW b \in KqlCells \ picked
        PROVE  IF work'.now = b THEN transient'[b] = Due(b)' ELSE cellTold'[b] = transient'[b]
    <3>1. b # None
      BY NotebookConnAssumption
    <3>2. cellTold[b] = transient[b]
      BY <1>1, <2>2, <3>1 DEF NcInd, CellsAreTold
    <3>3. Due(b)' = Due(b)
      BY <1>6 DEF Due
    <3>4. CASE b # c
      BY <1>6, <1>7, <3>1, <3>2, <3>4
    <3>5. CASE b = c /\ transient[c] = x
      BY <1>6, <1>7, <3>1, <3>2, <3>5
    <3>6. CASE b = c /\ transient[c] # x
      BY <1>5, <1>6, <1>7, <3>3, <3>6
    <3> QED
      BY <3>4, <3>5, <3>6
  <2> QED
    BY <1>1, <1>6, <2>1, <2>2 DEF CellsAreTold
<1>11. ConnectedAreKnown'
  <2>1. ASSUME NEW b \in KqlCells \ picked, transient'[b] # None
        PROVE  b \in work'.clear \/ (~work'.close /\ b \in work'.all)
    <3>1. CASE b # c
      BY <1>1, <1>6, <1>7, <2>1, <3>1 DEF NcInd, ConnectedAreKnown
    <3>2. CASE b = c
      BY <1>5, <1>6, <1>7, <2>1, <3>2 DEF Due
    <3> QED
      BY <3>1, <3>2
  <2> QED
    BY <1>1, <1>6, <2>1 DEF ConnectedAreKnown
<1>12. WorkIsDone'
  <2>1. ASSUME ~work'.close, NEW b \in (work'.all \ work'.set) \ picked
        PROVE  transient'[b] = work'.conn
    <3>1. CASE b # c
      <4>1. b \in (work.all \ work.set) \ picked /\ b \in KqlCells
        BY <1>3, <1>6, <2>1, <3>1
      <4> QED
        BY <1>1, <1>6, <1>7, <2>1, <3>1, <4>1 DEF NcInd, WorkIsDone
    <3>2. CASE b = c
      BY <1>5, <1>6, <1>7, <2>1, <3>2 DEF Due
    <3> QED
      BY <3>1, <3>2
  <2> QED
    BY <1>1, <2>1 DEF WorkIsDone
<1>13. EventsAreBare' /\ ClosedIsCleared'
  BY <1>1, <1>6, QueueStays
<1>14. LastIsCurrent'
  BY <1>1, <1>6, <1>8 DEF NcInd, LastIsCurrent
<1>15. NcTypeOK'
  <2>1. work'.clear \intersect work'.set = {}
    BY <1>2, <1>6
  <2> QED
    BY Zenon, <1>1, <1>6, <1>7, <1>8, <2>1 DEF NcInd, NcTypeOK, Work, ConnOrNone, Op
<1> QED
  BY <1>9, <1>10, <1>11, <1>12, <1>13, <1>14, <1>15 DEF NcInd

\* The server is told of the cell what the cell was given.
LEMMA NcIndTellServer ==
  ASSUME NotebookConnAssumption, WorkAssumption, NcInd, TellServer
  PROVE  NcInd'
<1>1. /\ work # None /\ work.now # None
      /\ cellTold' = [cellTold EXCEPT ![work.now] = Due(work.now)]
      /\ work' = [work EXCEPT !.now = None]
      /\ UNCHANGED <<notebook, edits, applied, queue, synced, transient, cellSaved, pick, picked, missed, changes>>
  BY DEF TellServer, Due
<1>2. /\ work \in Work /\ cellTold \in [KqlCells -> ConnOrNone]
  BY <1>1, NcTypes DEF NcInd
<1>3. work.now \in KqlCells /\ work.conn \in ConnOrNone
  BY <1>1, <1>2 DEF Work
<1>4. /\ work' \in Work /\ work' # None /\ work'.now = None
      /\ work'.clear = work.clear /\ work'.set = work.set /\ work'.all = work.all
      /\ work'.conn = work.conn /\ work'.close = work.close
  <2>1. /\ work' \in Work /\ work'.now = None
        /\ work'.clear = work.clear /\ work'.set = work.set /\ work'.all = work.all
        /\ work'.conn = work.conn /\ work'.close = work.close
    BY <1>1, <1>2 DEF Work
  <2> QED
    BY <2>1, WorkAssumption
<1>5. /\ cellTold' \in [KqlCells -> ConnOrNone] /\ cellTold'[work.now] = Due(work.now)
      /\ \A b \in KqlCells : b # work.now => cellTold'[b] = cellTold[b]
  BY <1>1, <1>2, <1>3 DEF Due, ConnOrNone
<1>6. UNCHANGED <<isOpen, cells, meta>>
  BY <1>1 DEF notebook
<1>7. CellsAreTold'
  <2>1. ASSUME NEW b \in KqlCells \ picked PROVE cellTold'[b] = transient[b] /\ b # None
    <3>1. IF work.now = b THEN transient[b] = Due(b) ELSE cellTold[b] = transient[b]
      BY <1>1, <2>1 DEF NcInd, CellsAreTold
    <3>2. b # None
      BY NotebookConnAssumption
    <3> QED
      BY <1>5, <3>1, <3>2
  <2>2. pick' # None => pick'[1] \in picked'
    BY <1>1 DEF NcInd, CellsAreTold
  <2> QED
    BY <1>1, <1>4, <2>1, <2>2 DEF CellsAreTold
<1>8. WorkFits' /\ ConnectedAreKnown' /\ WorkIsDone' /\ LastIsCurrent'
  BY <1>1, <1>4, <1>6 DEF NcInd, WorkFits, ConnectedAreKnown, WorkIsDone, LastIsCurrent
<1>9. EventsAreBare' /\ ClosedIsCleared'
  BY <1>1, <1>4, QueueStays
<1>10. NcTypeOK'
  <2>1. work'.clear \intersect work'.set = {}
    BY <1>1, <1>4, NcTypes DEF NcInd
  <2> QED
    BY Zenon, <1>1, <1>4, <1>5, <1>6, <2>1 DEF NcInd, NcTypeOK, Work, ConnOrNone, Op
<1> QED
  BY <1>7, <1>8, <1>9, <1>10 DEF NcInd

\* An operation ends with its cells as it wants them, and no other connected.
LEMMA NcIndFinish ==
  ASSUME NotebookConnAssumption, NcInd, Finish
  PROVE  NcInd'
<1>1. /\ work # None /\ work.now = None /\ work.clear = {} /\ work.set = {}
      /\ work' = None /\ synced' = IF work.close THEN synced ELSE work.all
      /\ UNCHANGED <<notebook, edits, applied, queue, cellVars, pick, picked, missed, changes>>
  BY DEF Finish
<1>2. work \in Work /\ work.all \subseteq KqlCells /\ synced \subseteq KqlCells
  BY <1>1, NcTypes DEF NcInd, Work
<1>3. UNCHANGED <<isOpen, cells, meta, transient, cellSaved, cellTold>>
  BY <1>1 DEF notebook, cellVars
<1>4. \A c \in KqlCells \ picked : transient[c] # None => ~work.close /\ c \in work.all
  BY <1>1 DEF NcInd, ConnectedAreKnown
<1>5. CellsAreTold'
  <2>1. ASSUME NEW b \in KqlCells \ picked PROVE cellTold[b] = transient[b]
    <3>1. b # None
      BY NotebookConnAssumption
    <3> QED
      BY <1>1, <2>1, <3>1 DEF NcInd, CellsAreTold
  <2>2. pick' # None => pick'[1] \in picked'
    BY <1>1 DEF NcInd, CellsAreTold
  <2> QED
    BY <1>1, <1>3, <2>1, <2>2 DEF CellsAreTold
<1>6. WorkFits' /\ ConnectedAreKnown' /\ WorkIsDone'
  BY <1>1, <1>3, <1>4 DEF WorkFits, ConnectedAreKnown, WorkIsDone
<1>7. EventsAreBare' /\ ClosedIsCleared'
  BY <1>1, QueueStays
<1>8. LastIsCurrent'
  <2>1. SUFFICES ASSUME queue = <<>>, ~missed, NEW c \in KqlCells \ picked
                 PROVE  transient[c] = IF isOpen /\ c \in cells THEN meta ELSE None
    BY <1>1, <1>3 DEF LastIsCurrent
  <2>2. CASE isOpen
    <3>1. ~work.close /\ work.all = cells /\ work.conn = meta
      BY <1>1, <2>1, <2>2 DEF NcInd, ClosedIsCleared, LastIsCurrent
    <3>2. c \in cells => transient[c] = meta
      BY <1>1, <2>1, <3>1 DEF NcInd, WorkIsDone
    <3> QED
      BY <1>4, <2>1, <2>2, <3>1, <3>2
  <2>3. CASE ~isOpen
    <3>1. PICK i \in 0 .. Len(queue) :
             IF i = 0 THEN work # None /\ ~missed => work.close ELSE queue[i].kind = "close"
      BY <2>3 DEF NcInd, ClosedIsCleared
    <3>2. Len(queue) = 0
      BY <2>1, LenProperties
    <3>3. work.close
      BY <1>1, <2>1, <3>1, <3>2
    <3> QED
      BY <1>4, <2>1, <2>3, <3>3
  <2> QED
    BY <2>2, <2>3
<1>9. NcTypeOK'
  <2>1. synced' \subseteq KqlCells
    BY <1>1, <1>2
  <2> QED
    BY Zenon, <1>1, <1>3, <2>1 DEF NcInd, NcTypeOK, Work, ConnOrNone, Op
<1> QED
  BY <1>5, <1>6, <1>7, <1>8, <1>9 DEF NcInd

\* A connection picked by hand is the user's.
LEMMA NcIndPick ==
  ASSUME NotebookConnAssumption, NcInd,
         PickSaved \/ \E c \in KqlCells, x \in NbConns : PickConnection(c, x)
  PROVE  NcInd'
<1>1. /\ UNCHANGED <<notebook, edits, applied, queue, work, synced, missed>>
      /\ picked \subseteq picked' /\ picked' \subseteq KqlCells
      /\ pick' \in (KqlCells \X NbConns) \union {None} /\ (pick' # None => pick'[1] \in picked')
      /\ transient' \in [KqlCells -> ConnOrNone] /\ cellSaved' \in [KqlCells -> ConnOrNone]
      /\ cellTold' \in [KqlCells -> ConnOrNone] /\ changes' \in 0 .. MaxChanges
      /\ \A b \in KqlCells \ picked' : transient'[b] = transient[b] /\ cellTold'[b] = cellTold[b]
  <2>1. /\ transient \in [KqlCells -> ConnOrNone] /\ cellSaved \in [KqlCells -> ConnOrNone]
        /\ cellTold \in [KqlCells -> ConnOrNone] /\ picked \subseteq KqlCells
        /\ pick \in (KqlCells \X NbConns) \union {None} /\ changes \in 0 .. MaxChanges
    BY NcTypes DEF NcInd
  <2>2. MaxChanges \in Nat
    BY NotebookConnAssumption
  <2>3. CASE PickSaved
    <3>1. /\ pick # None
          /\ cellSaved' = [cellSaved EXCEPT ![pick[1]] = pick[2]]
          /\ cellTold' = [cellTold EXCEPT ![pick[1]] = pick[2]] /\ pick' = None
          /\ UNCHANGED <<notebook, edits, applied, queue, work, synced, transient, picked, missed, changes>>
      BY <2>3 DEF PickSaved
    <3>2. pick[1] \in picked /\ pick[1] \in KqlCells /\ pick[2] \in ConnOrNone
      BY <2>1, <3>1 DEF NcInd, CellsAreTold, ConnOrNone
    <3> QED
      BY <2>1, <3>1, <3>2
  <2>4. ASSUME NEW c \in KqlCells, NEW x \in NbConns, PickConnection(c, x)
        PROVE  /\ UNCHANGED <<notebook, edits, applied, queue, work, synced, missed>>
               /\ picked \subseteq picked' /\ picked' \subseteq KqlCells
               /\ pick' \in (KqlCells \X NbConns) \union {None} /\ (pick' # None => pick'[1] \in picked')
               /\ transient' \in [KqlCells -> ConnOrNone] /\ cellSaved' \in [KqlCells -> ConnOrNone]
               /\ cellTold' \in [KqlCells -> ConnOrNone] /\ changes' \in 0 .. MaxChanges
               /\ \A b \in KqlCells \ picked' : transient'[b] = transient[b] /\ cellTold'[b] = cellTold[b]
    <3>1. /\ UserActs /\ transient' = [transient EXCEPT ![c] = None] /\ pick' = <<c, x>>
          /\ picked' = picked \union {c}
          /\ UNCHANGED <<notebook, edits, applied, queue, work, synced, cellSaved, cellTold, missed>>
      BY <2>4 DEF PickConnection
    <3>2. changes' \in 0 .. MaxChanges
      BY <2>1, <2>2, <3>1 DEF UserActs
    <3>3. transient' \in [KqlCells -> ConnOrNone]
      BY <2>1, <3>1 DEF ConnOrNone
    <3> QED
      BY <2>1, <3>1, <3>2, <3>3
  <2> QED
    BY <2>3, <2>4
<1>2. UNCHANGED <<isOpen, cells, meta>>
  BY <1>1 DEF notebook
<1>3. WorkFits' /\ CellsAreTold' /\ ConnectedAreKnown'
  BY <1>1, <1>2 DEF NcInd, WorkFits, CellsAreTold, Due, ConnectedAreKnown
<1>4. WorkIsDone' /\ LastIsCurrent'
  <2>1. work # None => work.all \subseteq KqlCells
    BY NcTypes DEF NcInd, Work
  <2> QED
    BY <1>1, <1>2, <2>1 DEF NcInd, WorkIsDone, LastIsCurrent
<1>5. EventsAreBare' /\ ClosedIsCleared'
  BY <1>1, QueueStays
<1>6. NcTypeOK'
  BY Zenon, <1>1, <1>2 DEF NcInd, NcTypeOK, Work, ConnOrNone, Op
<1> QED
  BY <1>3, <1>4, <1>5, <1>6 DEF NcInd

LEMMA NcIndNext ==
  ASSUME NotebookConnAssumption, WorkAssumption, NcInd, [NcNext]_ncVars
  PROVE  NcInd'
<1>1. CASE \/ EditCells \/ EditMetadata \/ CloseNotebook \/ \E x \in NbConns : SetConnection(x)
           \/ SynchronizeExplicit \/ \E accepted \in BOOLEAN : EditApplied(accepted)
  BY <1>1, NcIndNotebook
<1>2. CASE PickSaved \/ \E c \in KqlCells, x \in NbConns : PickConnection(c, x)
  BY <1>2, NcIndPick
<1>3. CASE StartWork
  BY <1>3, NcIndStartWork
<1>4. CASE Finish
  BY <1>4, NcIndFinish
<1>5. CASE TellServer
  BY <1>5, NcIndTellServer
<1>6. ASSUME NEW c \in KqlCells, ClearCell(c) \/ SetCell(c) PROVE NcInd'
  BY <1>6, NcIndCellSet
<1>7. CASE Fail
  BY <1>7, NcIndFail
<1>8. CASE UNCHANGED ncVars
  <2>1. /\ UNCHANGED <<isOpen, cells, meta, edits, applied, queue, work, synced, transient>>
        /\ UNCHANGED <<cellSaved, cellTold, pick, picked, missed, changes>>
    BY <1>8 DEF ncVars
  <2>2. NcTypeOK'
    BY Zenon, <2>1 DEF NcInd, NcTypeOK, Work, ConnOrNone, Op
  <2>3. /\ UNCHANGED <<work, synced, cellVars, pick, picked, missed>>
        /\ UNCHANGED <<notebook, queue>>
    BY <2>1 DEF cellVars, notebook
  <2> QED
    BY <2>2, <2>3, NcIndEnqueues
<1> QED
  BY Zenon, <1>1, <1>2, <1>3, <1>4, <1>5, <1>6, <1>7, <1>8 DEF NcNext, Progress

\* With nothing under way, the cells of an open notebook have the connection of its
\* metadata, in the client and on the server, and those that are gone have none
\* (synchronizeConnectionCore and clearConnections).
THEOREM CellsFollow == NcSpec => []CellsAgree
<1> USE NotebookConnAssumption, WorkAssumption
<1>1. NcInit => NcInd
  BY NcIndInit
<1>2. NcInd /\ [NcNext]_ncVars => NcInd'
  BY NcIndNext
<1>3. NcInd => CellsAgree
  <2> SUFFICES ASSUME NcInd PROVE CellsAgree
    OBVIOUS
  <2>1. work = None => \A c \in KqlCells \ picked : cellTold[c] = transient[c]
    BY DEF NcInd, CellsAreTold
  <2>2. cells \subseteq KqlCells
    BY NcTypes DEF NcInd
  <2>3. CellsFollowTheNotebook
    BY <2>1, <2>2 DEF NcInd, LastIsCurrent, CellsFollowTheNotebook, Idle
  <2>4. NothingOutlivesTheNotebook
    BY <2>1 DEF NcInd, LastIsCurrent, NothingOutlivesTheNotebook, Idle
  <2> QED
    BY <2>3, <2>4 DEF NcInd, CellsAgree
<1> QED
  BY <1>1, <1>2, <1>3, PTL DEF NcSpec

-----------------------------------------------------------------------------
(* The tree of databases *)

\* The server has loaded, and a request answers with, no schema of before the last
\* refresh, unless an answer was overtaken by it; an info is cached of a refreshed
\* database only while its refresh has been answered and not handled.
Is(r) == requests[r] # None
Ended(r, d) == Is(r) /\ requests[r].at = "answered" /\ d \in Forgets(requests[r])

VersionsHold ==
    /\ \A d \in Databases : atLeast[d] <= service[d]
    /\ \A d \in Databases : loaded[d] # None => loaded[d] >= atLeast[d]
    /\ \A r \in Requests : Is(r) /\ requests[r].op = "info" /\ requests[r].at = "answered" =>
          /\ requests[r].version # None
          /\ requests[r].db \notin overtaken => requests[r].version >= atLeast[requests[r].db]
    /\ \A d \in Listed \ overtaken :
          cachedInfo[d] # None /\ (\A r \in Requests : ~Ended(r, d)) => cachedInfo[d] >= atLeast[d]

\* Requests of one database name it.
RequestsFit == \A r \in Requests :
    Is(r) /\ requests[r].op \in {"info", "refresh"} => requests[r].db \in Databases

SchemaInd == SchemaTypeOK /\ RequestsFit /\ VersionsHold /\ DatabasesAreComplete

\* The types of the state.
LEMMA SchemaTypes ==
  ASSUME SchemaTypeOK
  PROVE  /\ places \subseteq Groups \union {Top} /\ places # {}
         /\ service \in [Databases -> Versions]
         /\ loaded \in [Databases -> Versions \union {None}]
         /\ known \in BOOLEAN /\ Listed \subseteq Databases
         /\ cachedInfo \in [Listed -> Versions \union {None}]
         /\ Listed # {} => known
         /\ requests \in [Requests -> Request \union {None}]
         /\ atLeast \in [Databases -> Versions]
         /\ overtaken \subseteq Databases /\ partial \in BOOLEAN
         /\ \A d \in Databases : loaded[d] # None => loaded[d] <= service[d]
BY Zenon DEF SchemaTypeOK

\* Versions are numbers from 1, and schemas are sets of entities.
LEMMA SchemaFacts ==
  ASSUME SchemasAssumption
  PROVE  /\ LastVersion \in Nat \ {0} /\ 1 \in Versions /\ None \notin Versions
         /\ \A v \in Versions : v \in Nat /\ v <= LastVersion
         /\ \A v \in Nat : 1 <= v /\ v <= LastVersion => v \in Versions
         /\ \A v \in Versions : \A e \in Schemas[v] : e \in Entity /\ Len(e.folder) <= MaxDepth
BY SchemasAssumption DEF SchemasAssumption, LastVersion, Versions

LEMMA SchemaInitInd ==
  ASSUME SchemaAssumption, SchemasAssumption, SchemaInit
  PROVE  SchemaInd
<1>1. SchemaTypeOK
  <2>1. places \subseteq Groups \union {Top} /\ places # {}
    BY DEF SchemaInit
  <2>2. /\ service \in [Databases -> Versions] /\ atLeast \in [Databases -> Versions]
        /\ loaded \in [Databases -> Versions \union {None}]
        /\ \A d \in Databases : loaded[d] # None => loaded[d] <= service[d]
    BY SchemaFacts DEF SchemaInit
  <2>3. Listed = {} /\ cachedInfo \in [Listed -> Versions \union {None}]
    BY DEF SchemaInit, Listed
  <2>4. requests \in [Requests -> Request \union {None}]
    BY DEF SchemaInit
  <2>5. known \in BOOLEAN /\ overtaken \subseteq Databases /\ partial \in BOOLEAN
    BY DEF SchemaInit
  <2> QED
    BY <2>1, <2>2, <2>3, <2>4, <2>5, Zenon DEF SchemaTypeOK
<1>2. RequestsFit
  BY DEF SchemaInit, RequestsFit, Is
<1>3. VersionsHold
  BY SchemaFacts DEF SchemaInit, VersionsHold, Is, Listed
<1>4. DatabasesAreComplete
  BY DEF SchemaInit, DatabasesAreComplete, Listed
<1> QED
  BY <1>1, <1>2, <1>3, <1>4 DEF SchemaInd

\* One request changes to x, which is nothing or a request.
LEMMA OneRequest ==
  ASSUME NEW S, requests \in [Requests -> S], NEW r \in Requests, NEW x, x \in S,
         requests' = [requests EXCEPT ![r] = x]
  PROVE  /\ requests' \in [Requests -> S] /\ requests'[r] = x
         /\ \A q \in Requests : q # r => requests'[q] = requests[q]
OBVIOUS

\* A request under way is a record.
LEMMA RequestFields ==
  ASSUME SchemaTypeOK, NEW r \in Requests, Is(r)
  PROVE  /\ requests[r] \in Request
         /\ requests[r] = [op |-> requests[r].op, db |-> requests[r].db,
                           at |-> requests[r].at, version |-> requests[r].version]
         /\ requests[r].op \in {"databases", "info", "refreshAll", "refresh"}
         /\ requests[r].db \in Databases \union {None}
         /\ requests[r].at \in {"asked", "answered"}
         /\ requests[r].version \in Versions \union {None}
<1>1. requests[r] \in Request
  BY SchemaTypes DEF Is
<1> QED
  BY <1>1 DEF Request

LEMMA ForgetsDatabases ==
  ASSUME NEW q, q.op \in {"info", "refresh"} => q.db \in Databases
  PROVE  Forgets(q) \subseteq Databases
BY DEF Forgets

\* A new request changes nothing yet.
LEMMA SchemaAsks ==
  ASSUME SchemasAssumption, RequestAssumption, SchemaInd, NEW r \in Requests,
         NEW op \in {"databases", "info", "refreshAll", "refresh"},
         NEW d \in Databases \union {None}, op \in {"info", "refresh"} => d \in Databases,
         Ask(r, op, d)
  PROVE  SchemaInd'
<1> DEFINE x == [op |-> op, db |-> d, at |-> "asked", version |-> None]
<1>1. x \in Request /\ x # None /\ x.op = op /\ x.db = d /\ x.at = "asked"
  BY RequestAssumption DEF Request
<1>2. requests' = [requests EXCEPT ![r] = x]
  BY DEF Ask
<1>3. SchemaTypeOK
  BY DEF SchemaInd
<1> HIDE DEF x
<1>4. /\ requests' \in [Requests -> Request \union {None}] /\ requests'[r] = x
      /\ \A q \in Requests : q # r => requests'[q] = requests[q]
  BY <1>1, <1>2, <1>3, SchemaTypes, OneRequest
<1>5. UNCHANGED <<places, service, loaded, known, cachedInfo, atLeast, overtaken, partial, Listed>>
  BY DEF Ask, schemaCache, schemaHistory, Listed
<1>6. SchemaTypeOK'
  BY <1>3, <1>4, <1>5, Zenon DEF SchemaTypeOK
<1>7. RequestsFit'
  BY <1>1, <1>4 DEF SchemaInd, RequestsFit, Is
<1>8. \A q \in Requests, e \in Databases : Ended(q, e)' <=> Ended(q, e)
  BY <1>1, <1>4, <1>2 DEF Ended, Is, Forgets, Ask
<1>9. VersionsHold'
  <2>1. /\ \A e \in Databases : atLeast[e] <= service[e]
        /\ \A e \in Databases : loaded[e] # None => loaded[e] >= atLeast[e]
    BY DEF SchemaInd, VersionsHold
  <2>2. ASSUME NEW q \in Requests, Is(q)', requests'[q].op = "info", requests'[q].at = "answered"
        PROVE  /\ requests'[q].version # None
               /\ requests'[q].db \notin overtaken => requests'[q].version >= atLeast[requests'[q].db]
    BY <2>2, <1>1, <1>4 DEF SchemaInd, VersionsHold, Is
  <2>3. ASSUME NEW e \in Listed \ overtaken, cachedInfo[e] # None, \A q \in Requests : ~Ended(q, e)'
        PROVE  cachedInfo[e] >= atLeast[e]
    BY <2>3, <1>8, <1>3, SchemaTypes DEF SchemaInd, VersionsHold
  <2> QED
    BY <2>1, <2>2, <2>3, <1>5 DEF VersionsHold
<1> QED
  BY <1>5, <1>6, <1>7, <1>9 DEF SchemaInd, DatabasesAreComplete

\* A request that is over leaves the others.
LEMMA RequestEnds ==
  ASSUME SchemasAssumption, RequestAssumption, SchemaInd, NEW r \in Requests, Done(r),
         UNCHANGED <<places, service, loaded, atLeast, overtaken>>
  PROVE  /\ requests' \in [Requests -> Request \union {None}]
         /\ RequestsFit'
         /\ \A d : \A q \in Requests : Ended(q, d)' <=> q # r /\ Ended(q, d)
         /\ \A q \in Requests : Is(q)' /\ requests'[q].op = "info" /\ requests'[q].at = "answered" =>
                /\ requests'[q].version # None
                /\ requests'[q].db \notin overtaken' => requests'[q].version >= atLeast'[requests'[q].db]
<1>1. SchemaTypeOK
  BY DEF SchemaInd
<1>2. /\ requests' \in [Requests -> Request \union {None}] /\ requests'[r] = None
      /\ \A q \in Requests : q # r => requests'[q] = requests[q]
  BY <1>1, SchemaTypes, OneRequest DEF Done
<1>3. RequestsFit'
  BY <1>2 DEF SchemaInd, RequestsFit, Is
<1>4. \A d : \A q \in Requests : Ended(q, d)' <=> q # r /\ Ended(q, d)
  BY <1>2 DEF Ended, Is
<1>5. ASSUME NEW q \in Requests, Is(q)', requests'[q].op = "info", requests'[q].at = "answered"
      PROVE  /\ requests'[q].version # None
             /\ requests'[q].db \notin overtaken' => requests'[q].version >= atLeast'[requests'[q].db]
  BY <1>5, <1>2 DEF SchemaInd, VersionsHold, Is
<1> QED
  BY <1>2, <1>3, <1>4, <1>5

\* The infos cached change as C says, where nothing else does.
LEMMA CacheChanges ==
  ASSUME SchemasAssumption, RequestAssumption, SchemaInd, NEW r \in Requests, Done(r),
         UNCHANGED <<places, service, loaded, atLeast, overtaken>>,
         known' \in BOOLEAN, partial' \in BOOLEAN,
         NEW L, L \subseteq Databases, Listed' = L,
         cachedInfo' \in [L -> Versions \union {None}], L # {} => known',
         ~partial' => L \in {{}, Databases},
         \A d \in L \ overtaken :
            cachedInfo'[d] # None /\ (\A q \in Requests : q # r => ~Ended(q, d)) => cachedInfo'[d] >= atLeast[d]
  PROVE  SchemaInd'
<1>1. SchemaTypeOK
  BY DEF SchemaInd
<1>2. SchemaTypeOK'
  <2>1. /\ places' \subseteq Groups \union {Top} /\ places' # {}
        /\ service' \in [Databases -> Versions] /\ atLeast' \in [Databases -> Versions]
        /\ loaded' \in [Databases -> Versions \union {None}]
        /\ overtaken' \subseteq Databases
        /\ \A d \in Databases : loaded'[d] # None => loaded'[d] <= service'[d]
    BY <1>1, SchemaTypes
  <2> QED
    BY <2>1, RequestEnds, Zenon DEF SchemaTypeOK
<1>3. VersionsHold'
  <2>1. /\ \A d \in Databases : atLeast'[d] <= service'[d]
        /\ \A d \in Databases : loaded'[d] # None => loaded'[d] >= atLeast'[d]
    BY DEF SchemaInd, VersionsHold
  <2>2. \A d : \A q \in Requests : Ended(q, d)' <=> q # r /\ Ended(q, d)
    BY RequestEnds
  <2>3. \A d \in Listed' \ overtaken' :
            cachedInfo'[d] # None /\ (\A q \in Requests : ~Ended(q, d)') => cachedInfo'[d] >= atLeast'[d]
    BY <2>2
  <2> QED
    BY <2>1, <2>3, RequestEnds DEF VersionsHold
<1> QED
  BY <1>2, <1>3, RequestEnds DEF SchemaInd, DatabasesAreComplete

LEMMA SchemaSetsDatabases ==
  ASSUME SchemasAssumption, RequestAssumption, SchemaInd, NEW r \in Requests, SetDatabases(r)
  PROVE  SchemaInd'
<1>1. PICK names \in {Databases, {}} : cachedInfo' = [d \in names |-> None]
  BY DEF SetDatabases
<1>2. /\ Listed' = names /\ cachedInfo' \in [names -> Versions \union {None}]
      /\ \A d \in names : cachedInfo'[d] = None
  BY <1>1 DEF Listed
<1>3. /\ Done(r) /\ known' = TRUE /\ partial' = partial
      /\ UNCHANGED <<places, service, loaded, atLeast, overtaken>>
  BY DEF SetDatabases, schemaHistory
<1>4. partial \in BOOLEAN
  BY SchemaTypes DEF SchemaInd
<1>5. names \subseteq Databases /\ names \in {{}, Databases}
  BY <1>1
<1> QED
  BY <1>2, <1>3, <1>4, <1>5, CacheChanges

LEMMA SchemaSetsInfo ==
  ASSUME SchemasAssumption, RequestAssumption, SchemaInd, NEW r \in Requests, SetInfo(r)
  PROVE  SchemaInd'
<1> DEFINE b == requests[r].db
           L == Listed \union {b}
<1>1. SchemaTypeOK
  BY DEF SchemaInd
<1>2. Is(r) /\ requests[r].op = "info" /\ requests[r].at = "answered"
  BY DEF SetInfo, Answered, Is
<1>3. b \in Databases /\ requests[r].version \in Versions \union {None}
  BY <1>1, <1>2, RequestFields DEF SchemaInd, RequestsFit
<1>4. /\ Listed' = L /\ partial' = (partial \/ b \notin Listed)
      /\ cachedInfo' = [x \in L |-> IF x = b THEN requests[r].version ELSE cachedInfo[x]]
  BY DEF SetInfo, Listed
<1>5. /\ Done(r) /\ known' = TRUE
      /\ UNCHANGED <<places, service, loaded, atLeast, overtaken>>
  BY DEF SetInfo
<1>6. L \subseteq Databases /\ partial' \in BOOLEAN /\ cachedInfo' \in [L -> Versions \union {None}]
  BY <1>1, <1>3, <1>4, SchemaTypes
<1>7. ~partial' => L \in {{}, Databases}
  BY <1>4, <1>3 DEF SchemaInd, DatabasesAreComplete
<1>8. ASSUME NEW d \in L \ overtaken, cachedInfo'[d] # None, \A q \in Requests : q # r => ~Ended(q, d)
      PROVE  cachedInfo'[d] >= atLeast[d]
  <2>1. ~Ended(r, d)
    BY <1>2 DEF Ended, Forgets
  <2>2. CASE d = b
    BY <2>2, <1>2, <1>4, <1>8 DEF SchemaInd, VersionsHold
  <2>3. CASE d # b
    BY <2>1, <2>3, <1>4, <1>8 DEF SchemaInd, VersionsHold
  <2> QED
    BY <2>2, <2>3
<1> QED
  BY <1>4, <1>5, <1>6, <1>7, <1>8, CacheChanges

LEMMA SchemaClearsCluster ==
  ASSUME SchemasAssumption, RequestAssumption, SchemaInd, NEW r \in Requests, ClearCluster(r)
  PROVE  SchemaInd'
<1>1. Listed' = {} /\ cachedInfo' \in [{} -> Versions \union {None}]
  BY DEF ClearCluster, Listed
<1>2. /\ Done(r) /\ known' = known /\ partial' = partial
      /\ UNCHANGED <<places, service, loaded, atLeast, overtaken>>
  BY DEF ClearCluster, schemaHistory
<1>3. partial \in BOOLEAN /\ known \in BOOLEAN
  BY SchemaTypes DEF SchemaInd
<1> QED
  BY <1>1, <1>2, <1>3, CacheChanges

LEMMA SchemaClearsDatabase ==
  ASSUME SchemasAssumption, RequestAssumption, SchemaInd, NEW r \in Requests, ClearDatabase(r)
  PROVE  SchemaInd'
<1> DEFINE b == requests[r].db
<1>1. SchemaTypeOK
  BY DEF SchemaInd
<1>2. Is(r) /\ requests[r].op = "refresh" /\ requests[r].at = "answered"
  BY DEF ClearDatabase, Answered, Is
<1>3. /\ Listed' = Listed /\ cachedInfo' \in [Listed -> Versions \union {None}]
      /\ \A d \in Listed : d # b => cachedInfo'[d] = cachedInfo[d]
      /\ b \in Listed => cachedInfo'[b] = None
  BY <1>1, SchemaTypes DEF ClearDatabase, ForgetsInfo, Listed
<1>4. /\ Done(r) /\ known' = known /\ partial' = partial
      /\ UNCHANGED <<places, service, loaded, atLeast, overtaken>>
  BY DEF ClearDatabase, schemaHistory
<1>5. /\ partial \in BOOLEAN /\ known \in BOOLEAN /\ Listed \subseteq Databases
      /\ Listed # {} => known
  BY <1>1, SchemaTypes
<1>6. ASSUME NEW d \in Listed \ overtaken, cachedInfo'[d] # None, \A q \in Requests : q # r => ~Ended(q, d)
      PROVE  cachedInfo'[d] >= atLeast[d]
  <2>1. d # b
    BY <1>3, <1>6
  <2>2. ~Ended(r, d)
    BY <2>1, <1>2 DEF Ended, Forgets
  <2> QED
    BY <2>1, <2>2, <1>3, <1>6 DEF SchemaInd, VersionsHold
<1>7. ~partial' => Listed \in {{}, Databases}
  BY <1>4 DEF SchemaInd, DatabasesAreComplete
<1> QED
  BY <1>3, <1>4, <1>5, <1>6, <1>7, CacheChanges

LEMMA SchemaFails ==
  ASSUME SchemasAssumption, RequestAssumption, SchemaInd, NEW r \in Requests, Fails(r)
  PROVE  SchemaInd'
<1>1. SchemaTypeOK
  BY DEF SchemaInd
<1>2. \A d : ~Ended(r, d)
  BY DEF Fails, Ended
<1>3. /\ Done(r) /\ known' = known /\ partial' = partial /\ cachedInfo' = cachedInfo /\ Listed' = Listed
      /\ UNCHANGED <<places, service, loaded, atLeast, overtaken>>
  BY DEF Fails, schemaHistory, schemaCache, Listed
<1>4. /\ partial \in BOOLEAN /\ known \in BOOLEAN /\ Listed \subseteq Databases
      /\ Listed # {} => known /\ cachedInfo \in [Listed -> Versions \union {None}]
  BY <1>1, SchemaTypes
<1>5. ~partial' => Listed \in {{}, Databases}
  BY <1>3 DEF SchemaInd, DatabasesAreComplete
<1>6. ASSUME NEW d \in Listed \ overtaken, cachedInfo'[d] # None, \A q \in Requests : q # r => ~Ended(q, d)
      PROVE  cachedInfo'[d] >= atLeast[d]
  BY <1>2, <1>3, <1>6 DEF SchemaInd, VersionsHold
<1>7. cachedInfo' \in [Listed -> Versions \union {None}] /\ (Listed # {} => known')
  BY <1>1, <1>3, SchemaTypes
<1> QED
  BY <1>3, <1>4, <1>5, <1>6, <1>7, CacheChanges

LEMMA ServiceMoves ==
  ASSUME SchemasAssumption, RequestAssumption, SchemaInd, NEW b \in Databases, ServiceChanges(b)
  PROVE  SchemaInd'
<1>1. SchemaTypeOK
  BY DEF SchemaInd
<1>2. /\ service' = [service EXCEPT ![b] = @ + 1] /\ service[b] < LastVersion
      /\ UNCHANGED <<places, loaded, known, cachedInfo, requests, atLeast, overtaken, partial, Listed>>
  BY DEF ServiceChanges, schemaHistory, schemaCache, Listed
<1>3. service' \in [Databases -> Versions] /\ \A d \in Databases : service[d] <= service'[d]
  <2>1. service[b] \in Versions /\ service[b] + 1 \in Versions
    BY <1>1, <1>2, SchemaTypes, SchemaFacts
  <2> QED
    BY <2>1, <1>1, <1>2, SchemaTypes, SchemaFacts
<1>4. \A d \in Databases : /\ loaded[d] # None => loaded[d] <= service'[d]
                           /\ atLeast[d] <= service'[d]
  BY <1>1, <1>3, SchemaTypes, SchemaFacts DEF SchemaInd, VersionsHold
<1>5. SchemaTypeOK'
  BY <1>1, <1>2, <1>3, <1>4, Zenon DEF SchemaTypeOK
<1>6. \A d : \A q \in Requests : Ended(q, d)' <=> Ended(q, d)
  BY <1>2 DEF Ended, Is
<1>7. VersionsHold'
  BY <1>2, <1>4, <1>6 DEF SchemaInd, VersionsHold, Is
<1> QED
  BY <1>2, <1>5, <1>7 DEF SchemaInd, DatabasesAreComplete, RequestsFit, Is


\* An answer: the request has it, and what was loaded and refreshed follows.
LEMMA AnswerFields ==
  ASSUME SchemasAssumption, RequestAssumption, SchemaTypeOK, NEW r \in Requests, Is(r),
         NEW v \in Versions \union {None},
         requests' = [requests EXCEPT ![r].at = "answered", ![r].version = v]
  PROVE  /\ requests' \in [Requests -> Request \union {None}]
         /\ Is(r)'
         /\ requests'[r].op = requests[r].op /\ requests'[r].db = requests[r].db
         /\ requests'[r].at = "answered" /\ requests'[r].version = v
         /\ \A q \in Requests : q # r => requests'[q] = requests[q]
<1> DEFINE new == requests'[r]
<1>1. requests \in [Requests -> Request \union {None}] /\ requests[r] \in Request
  BY RequestFields, SchemaTypes
<1>2. /\ DOMAIN requests' = Requests
      /\ \A q \in Requests : q # r => requests'[q] = requests[q]
      /\ requests' = [requests EXCEPT ![r] = new]
  BY <1>1
<1>3. new = [requests[r] EXCEPT !.at = "answered", !.version = v]
  BY <1>1
<1>4. /\ new \in Request /\ new.at = "answered" /\ new.version = v
      /\ new.op = requests[r].op /\ new.db = requests[r].db
  BY <1>1, <1>3 DEF Request
<1>5. new # None
  BY <1>4, RequestAssumption
<1>6. requests' \in [Requests -> Request \union {None}]
  BY <1>1, <1>2, <1>4
<1> QED
  BY <1>2, <1>4, <1>5, <1>6 DEF Is

LEMMA SchemaAnswers ==
  ASSUME SchemasAssumption, RequestAssumption, SchemaInd, NEW r \in Requests, ServerAnswers(r)
  PROVE  SchemaInd'
<1> DEFINE b == requests[r].db
           v == IF requests[r].op # "info" THEN None
                ELSE IF loaded[b] = None THEN service[b] ELSE loaded[b]
           F == Forgets(requests[r])
<1>1. SchemaTypeOK
  BY DEF SchemaInd
<1>2. Is(r) /\ requests[r].at = "asked"
  BY DEF ServerAnswers, Is
<1>3. /\ requests' = [requests EXCEPT ![r].at = "answered", ![r].version = v]
      /\ loaded' = [d \in Databases |-> IF d \in F THEN None
                                         ELSE IF requests[r].op = "info" /\ b = d THEN v ELSE loaded[d]]
      /\ atLeast' = [d \in Databases |-> IF d \in F THEN service[d] ELSE atLeast[d]]
      /\ overtaken' = (overtaken \ F) \union
            {d \in F : \E q \in Requests : requests[q] # None /\ requests[q].op = "info"
                            /\ requests[q].db = d /\ requests[q].at = "answered"}
      /\ UNCHANGED <<places, service, known, cachedInfo, partial, Listed>>
  BY DEF ServerAnswers, Overtakes, schemaCache, Listed
<1>4. requests[r].op \in {"info", "refresh"} => b \in Databases
  BY <1>2 DEF SchemaInd, RequestsFit
<1>5. F \subseteq Databases
  BY <1>4, ForgetsDatabases
<1>6. /\ requests[r].op = "info" => v \in Versions /\ v # None /\ v <= service[b] /\ v >= atLeast[b]
                                    /\ F = {}
      /\ requests[r].op # "info" => v = None
  <2>1. CASE requests[r].op # "info"
    BY <2>1
  <2>2. CASE requests[r].op = "info"
    <3>1. v = IF loaded[b] = None THEN service[b] ELSE loaded[b]
      BY <2>2
    <3>2. F = {}
      BY <2>2 DEF Forgets
    <3>3. b \in Databases
      BY <2>2, <1>4
    <3> HIDE DEF v, b, F
    <3> QED
      BY <2>2, <3>1, <3>2, <3>3, <1>1, SchemaTypes, SchemaFacts DEF SchemaInd, VersionsHold
  <2> QED
    BY <2>1, <2>2
<1>7. v \in Versions \union {None}
  BY <1>6
<1> HIDE DEF v, F
<1>8. /\ requests' \in [Requests -> Request \union {None}]
      /\ Is(r)'
      /\ requests'[r].op = requests[r].op /\ requests'[r].db = b
      /\ requests'[r].at = "answered" /\ requests'[r].version = v
      /\ \A q \in Requests : q # r => requests'[q] = requests[q]
  BY <1>1, <1>2, <1>3, <1>7, AnswerFields
<1> HIDE DEF b
<1>9. /\ loaded' \in [Databases -> Versions \union {None}]
      /\ atLeast' \in [Databases -> Versions] /\ overtaken' \subseteq Databases
  BY <1>1, <1>3, <1>5, <1>7, SchemaTypes
<1>10. \A d \in Databases : /\ atLeast'[d] <= service[d]
                            /\ loaded'[d] # None => loaded'[d] <= service[d] /\ loaded'[d] >= atLeast'[d]
  <2> SUFFICES ASSUME NEW d \in Databases
               PROVE  /\ atLeast'[d] <= service[d]
                      /\ loaded'[d] # None => loaded'[d] <= service[d] /\ loaded'[d] >= atLeast'[d]
    OBVIOUS
  <2>1. /\ service[d] \in Nat /\ atLeast[d] \in Nat
        /\ loaded[d] # None => loaded[d] \in Nat /\ loaded[d] <= service[d] /\ loaded[d] >= atLeast[d]
        /\ atLeast[d] <= service[d]
    BY <1>1, SchemaTypes, SchemaFacts DEF SchemaInd, VersionsHold
  <2>2. CASE d \in F
    BY <2>1, <2>2, <1>3
  <2>3. CASE d \notin F /\ requests[r].op = "info" /\ b = d
    BY <2>1, <2>3, <1>3, <1>6
  <2>4. CASE d \notin F /\ ~(requests[r].op = "info" /\ b = d)
    BY <2>1, <2>4, <1>3
  <2> QED
    BY <2>2, <2>3, <2>4
<1>11. SchemaTypeOK'
  BY <1>1, <1>3, <1>8, <1>9, <1>10, Zenon DEF SchemaTypeOK
<1>12. RequestsFit'
  BY <1>4, <1>8 DEF SchemaInd, RequestsFit, Is
<1>13. ASSUME NEW q \in Requests, Is(q)', requests'[q].op = "info", requests'[q].at = "answered"
       PROVE  /\ requests'[q].version # None
              /\ requests'[q].db \notin overtaken' => requests'[q].version >= atLeast'[requests'[q].db]
  <2>1. CASE q = r
    <3>1. requests[r].op = "info" /\ requests'[q].db = b /\ requests'[q].version = v
      BY <2>1, <1>13, <1>8
    <3>2. b \in Databases /\ b \notin F
      BY <3>1, <1>4, <1>6
    <3>3. atLeast'[b] = atLeast[b]
      BY <3>2, <1>3
    <3> QED
      BY <3>1, <3>3, <1>6
  <2>2. CASE q # r
    <3>1. requests'[q] = requests[q] /\ Is(q) /\ requests[q].op = "info" /\ requests[q].at = "answered"
      BY <2>2, <1>8, <1>13 DEF Is
    <3>2. /\ requests[q].version # None
          /\ requests[q].db \notin overtaken => requests[q].version >= atLeast[requests[q].db]
      BY <3>1 DEF SchemaInd, VersionsHold
    <3>3. requests[q].db \in Databases
      BY <3>1 DEF SchemaInd, RequestsFit
    <3>4. CASE requests[q].db \in F
      BY <3>1, <3>2, <3>4, <1>3 DEF Is
    <3>5. CASE requests[q].db \notin F
      BY <3>1, <3>2, <3>3, <3>5, <1>3
    <3> QED
      BY <3>4, <3>5
  <2> QED
    BY <2>1, <2>2
<1>14. ASSUME NEW d \in Listed \ overtaken', cachedInfo[d] # None, \A q \in Requests : ~Ended(q, d)'
       PROVE  cachedInfo[d] >= atLeast'[d]
  <2>1. d \notin F
    <3>1. CASE d \in F
      <4>1. Forgets(requests'[r]) = F
        BY <1>8 DEF F, Forgets, b
      <4>2. Ended(r, d)'
        BY <4>1, <3>1, <1>8 DEF Ended
      <4> QED
        BY <4>2, <1>14
    <3> QED
      BY <3>1
  <2>2. d \in Databases /\ d \notin overtaken /\ atLeast'[d] = atLeast[d]
    BY <2>1, <1>1, <1>3, <1>14, SchemaTypes
  <2>3. \A q \in Requests : ~Ended(q, d)
    BY <1>2, <1>8, <1>14 DEF Ended, Is
  <2> QED
    BY <2>2, <2>3, <1>14 DEF SchemaInd, VersionsHold
<1>15. VersionsHold'
  BY <1>3, <1>10, <1>13, <1>14 DEF VersionsHold
<1> QED
  BY <1>3, <1>11, <1>12, <1>15 DEF SchemaInd, DatabasesAreComplete

\* Every step keeps it.
LEMMA SchemaStepInd ==
  ASSUME SchemaAssumption, SchemasAssumption, RequestAssumption, SchemaInd, [SchemaNext]_schemaVars
  PROVE  SchemaInd'
<1>1. ASSUME NEW r \in Requests, Expand(r) PROVE SchemaInd'
  BY <1>1, SchemaAsks DEF Expand
<1>2. ASSUME NEW r \in Requests, RefreshCluster(r) PROVE SchemaInd'
  BY <1>2, SchemaAsks DEF RefreshCluster
<1>3. ASSUME NEW r \in Requests, NEW d \in Databases, GetSchema(r, d) PROVE SchemaInd'
  BY <1>3, SchemaAsks DEF GetSchema
<1>4. ASSUME NEW r \in Requests, NEW d \in Databases, RefreshDatabase(r, d) PROVE SchemaInd'
  BY <1>4, SchemaAsks DEF RefreshDatabase
<1>5. CASE UNCHANGED schemaVars
  <2>1. UNCHANGED <<places, service, loaded, known, cachedInfo, requests, atLeast, overtaken, partial, Listed>>
    BY <1>5 DEF schemaVars, Listed
  <2>2. SchemaTypeOK'
    BY <2>1, Zenon DEF SchemaInd, SchemaTypeOK
  <2>3. VersionsHold'
    BY <2>1 DEF SchemaInd, VersionsHold, Is, Ended
  <2> QED
    BY <2>1, <2>2, <2>3 DEF SchemaInd, DatabasesAreComplete, RequestsFit, Is
<1> QED
  BY <1>1, <1>2, <1>3, <1>4, <1>5, SchemaAnswers, SchemaSetsDatabases, SchemaSetsInfo,
     SchemaClearsCluster, SchemaClearsDatabase, SchemaFails, ServiceMoves DEF SchemaNext

(* What the tree shows.  Items have the forms below: a folder is one of an    *)
(* entity shown, a folder of entities the beginning of an entity's path.      *)
IsListItem(i) == i = ServerItem \/ \E g \in Groups : i = GroupItem(g)
IsDatabaseItem(i) == \E d \in Listed : i = DatabaseItem(d)
IsFolderItem(i) == \E d \in Listed : \E e \in Info(d) : i = FolderItem(d, e.type)
IsPathItem(i) == \E d \in Listed : \E e \in Info(d) : \E k \in 1 .. Len(e.folder) :
    e.type # Flat /\ i = EntityFolderItem(d, e.type, SubSeq(e.folder, 1, k))
IsEntityItem(i) == \E d \in Listed : \E e \in Info(d) : i = EntityItem(d, e)

WellFormed(i) ==
    \/ IsListItem(i) \/ IsDatabaseItem(i) \/ IsFolderItem(i) \/ IsPathItem(i) \/ IsEntityItem(i)

\* The entities of an info are entities, in few folders.
LEMMA InfoTypes ==
  ASSUME SchemasAssumption, SchemaTypeOK, NEW d, NEW e \in Info(d)
  PROVE  /\ e \in Entity /\ e.folder \in Seq(STRING) /\ Len(e.folder) \in 0 .. MaxDepth
         /\ e \in OfType(d, e.type) /\ d \in Listed /\ e.backslash \in BOOLEAN
<1>1. /\ d \in Listed /\ cachedInfo[d] # None /\ e \in Schemas[cachedInfo[d]]
  BY DEF Info
<1>2. cachedInfo[d] \in Versions
  BY <1>1, SchemaTypes
<1> DEFINE n == Len(e.folder)
<1>3. e \in Entity /\ n <= MaxDepth
  BY <1>1, <1>2, SchemaFacts
<1>4. e.folder \in Seq(STRING) /\ e.backslash \in BOOLEAN
  BY <1>3 DEF Entity
<1>5. n \in Nat
  BY <1>4, LenProperties
<1> QED
  <2>1. n \in 0 .. MaxDepth
    <3> HIDE DEF n
    <3> QED
      BY <1>3, <1>5 DEF MaxDepth
  <2>2. e \in OfType(d, e.type)
    BY DEF OfType
  <2> QED
    BY <1>1, <1>3, <1>4, <2>1, <2>2

\* Beginnings of a sequence.
LEMMA Beginnings ==
  ASSUME NEW f \in Seq(STRING), NEW k \in 0 .. Len(f)
  PROVE  /\ SubSeq(f, 1, k) \in Seq(STRING) /\ Len(SubSeq(f, 1, k)) = k
         /\ \A j \in 0 .. k : SubSeq(SubSeq(f, 1, k), 1, j) = SubSeq(f, 1, j)
<1>1. SubSeq(f, 1, k) \in Seq(STRING) /\ Len(SubSeq(f, 1, k)) = k
      /\ \A i \in 1 .. k : SubSeq(f, 1, k)[i] = f[i]
  OBVIOUS
<1>2. ASSUME NEW j \in 0 .. k
      PROVE  SubSeq(SubSeq(f, 1, k), 1, j) = SubSeq(f, 1, j)
  BY <1>1
<1> QED
  BY <1>1, <1>2

LEMMA WholeAndNone ==
  ASSUME NEW f \in Seq(STRING)
  PROVE  SubSeq(f, 1, Len(f)) = f /\ SubSeq(f, 1, 0) = <<>>
OBVIOUS

LEMMA BeginningIsPrefix ==
  ASSUME NEW f \in Seq(STRING), NEW k \in 0 .. Len(f)
  PROVE  IsPrefix(SubSeq(f, 1, k), f)
<1>1. k \in 0 .. k /\ Len(f) \in Nat
  BY LenProperties
<1> QED
  BY <1>1, Beginnings DEF IsPrefix

\* The children of each form of item.
LEMMA ChildrenOfRoot ==
  GetChildren(RootItem) = {GroupItem(g) : g \in Groups} \union (IF Top \in places THEN {ServerItem} ELSE {})
BY DEF GetChildren, RootItem

LEMMA ChildrenOfGroup ==
  ASSUME NEW g
  PROVE  GetChildren(GroupItem(g)) = IF g \in places THEN {ServerItem} ELSE {}
BY DEF GetChildren, GroupItem

LEMMA ChildrenOfServer == GetChildren(ServerItem) = {DatabaseItem(d) : d \in Listed}
BY DEF GetChildren, ServerItem

LEMMA ChildrenOfDatabase ==
  ASSUME NEW d
  PROVE  GetChildren(DatabaseItem(d)) = {FolderItem(d, e.type) : e \in Info(d)}
BY DEF GetChildren, DatabaseItem

LEMMA ChildrenOfFolder ==
  ASSUME NEW d, NEW t
  PROVE  GetChildren(FolderItem(d, t)) =
            IF t = Flat THEN {EntityItem(d, e) : e \in OfType(d, Flat)} ELSE EntityFolderChildren(d, t, <<>>)
BY DEF GetChildren, FolderItem

LEMMA ChildrenOfEntityFolder ==
  ASSUME NEW d, NEW t, NEW p
  PROVE  GetChildren(EntityFolderItem(d, t, p)) = EntityFolderChildren(d, t, p)
BY DEF GetChildren, EntityFolderItem

LEMMA ChildrenOfEntity ==
  ASSUME NEW d, NEW e
  PROVE  GetChildren(EntityItem(d, e)) = {}
BY DEF GetChildren, EntityItem

\* A child in a folder of entities is an entity of it, or a folder one level down.
LEMMA InFolder ==
  ASSUME SchemasAssumption, SchemaTypeOK, NEW d \in Listed, NEW t, t # Flat, NEW p \in Seq(STRING),
         NEW i \in EntityFolderChildren(d, t, p)
  PROVE  \/ IsPathItem(i)
         \/ \E e \in OfType(d, t) : e.folder = p /\ i = EntityItem(d, e)
<1>1. CASE \E e \in DirectEntities(OfType(d, t), p) : i = EntityItem(d, e)
  BY <1>1 DEF DirectEntities
<1>2. CASE \E f \in Subfolders(OfType(d, t), p) : i = EntityFolderItem(d, t, f)
  <2>1. PICK e \in OfType(d, t) : /\ Len(e.folder) > Len(p)
                                  /\ i = EntityFolderItem(d, t, SubSeq(e.folder, 1, Len(p) + 1))
    BY <1>2 DEF Subfolders
  <2>2. e \in Info(d) /\ e.type = t
    BY DEF OfType
  <2>3. Len(p) \in Nat /\ Len(e.folder) \in Nat
    BY <2>2, InfoTypes, LenProperties DEF MaxDepth
  <2>4. Len(p) + 1 \in 1 .. Len(e.folder)
    BY <2>1, <2>3
  <2> QED
    BY <2>1, <2>2, <2>4 DEF IsPathItem
<1> QED
  BY <1>1, <1>2 DEF EntityFolderChildren

LEMMA FolderIsWellFormed ==
  ASSUME SchemasAssumption, SchemaTypeOK, NEW d \in Listed, NEW t, t # Flat, NEW p \in Seq(STRING),
         NEW i \in EntityFolderChildren(d, t, p)
  PROVE  WellFormed(i)
<1>1. CASE IsPathItem(i)
  BY <1>1 DEF WellFormed
<1>2. CASE \E e \in OfType(d, t) : e.folder = p /\ i = EntityItem(d, e)
  BY <1>2 DEF WellFormed, IsEntityItem, OfType
<1> QED
  BY <1>1, <1>2, InFolder

LEMMA ChildrenAreWellFormed ==
  ASSUME SchemasAssumption, SchemaTypeOK, NEW i, WellFormed(i) \/ i = RootItem, NEW j \in GetChildren(i)
  PROVE  WellFormed(j)
<1>1. CASE i = RootItem
  BY <1>1, ChildrenOfRoot DEF WellFormed, IsListItem
<1>2. CASE IsListItem(i)
  BY <1>2, ChildrenOfGroup, ChildrenOfServer DEF WellFormed, IsListItem, IsDatabaseItem
<1>3. CASE IsDatabaseItem(i)
  BY <1>3, ChildrenOfDatabase DEF WellFormed, IsDatabaseItem, IsFolderItem
<1>4. CASE IsFolderItem(i)
  <2>1. PICK d \in Listed : \E e \in Info(d) : i = FolderItem(d, e.type)
    BY <1>4 DEF IsFolderItem
  <2>2. PICK e \in Info(d) : i = FolderItem(d, e.type)
    BY <2>1
  <2>3. CASE e.type = Flat
    BY <2>2, <2>3, ChildrenOfFolder DEF WellFormed, IsEntityItem, OfType
  <2>4. CASE e.type # Flat
    <3>1. j \in EntityFolderChildren(d, e.type, <<>>)
      BY <2>2, <2>4, ChildrenOfFolder
    <3>2. <<>> \in Seq(STRING)
      OBVIOUS
    <3> QED
      BY <2>4, <3>1, <3>2, FolderIsWellFormed
  <2> QED
    BY <2>3, <2>4
<1>5. CASE IsPathItem(i)
  <2>1. PICK d \in Listed : \E e \in Info(d) : \E k \in 1 .. Len(e.folder) :
            e.type # Flat /\ i = EntityFolderItem(d, e.type, SubSeq(e.folder, 1, k))
    BY <1>5 DEF IsPathItem
  <2>2. PICK e \in Info(d) : \E k \in 1 .. Len(e.folder) :
            e.type # Flat /\ i = EntityFolderItem(d, e.type, SubSeq(e.folder, 1, k))
    BY <2>1
  <2>3. PICK k \in 1 .. Len(e.folder) :
            e.type # Flat /\ i = EntityFolderItem(d, e.type, SubSeq(e.folder, 1, k))
    BY <2>2
  <2>4. SubSeq(e.folder, 1, k) \in Seq(STRING)
    BY InfoTypes, Beginnings
  <2>5. j \in EntityFolderChildren(d, e.type, SubSeq(e.folder, 1, k))
    BY <2>3, ChildrenOfEntityFolder
  <2> QED
    BY <2>3, <2>4, <2>5, FolderIsWellFormed
<1>6. CASE IsEntityItem(i)
  BY <1>6, ChildrenOfEntity DEF IsEntityItem
<1> QED
  BY <1>1, <1>2, <1>3, <1>4, <1>5, <1>6 DEF WellFormed

\* The levels of the tree.
Level1 == Under({RootItem})
Level2 == Under(Level1)
Level3 == Under(Level2)
Level4 == Under(Level3)
Level5 == Under(Level4)
Level6 == Under(Level5)
Level7 == Under(Level6)

LEMMA ItemsAreLevels ==
  Items = Level1 \union Level2 \union Level3 \union Level4 \union Level5 \union Level6 \union Level7
BY DEF Items, Level1, Level2, Level3, Level4, Level5, Level6, Level7

LEMMA ChildIsUnder ==
  ASSUME NEW S, NEW i \in S, NEW j \in GetChildren(i)
  PROVE  j \in Under(S)
BY DEF Under

LEMMA UnderIsWellFormed ==
  ASSUME SchemasAssumption, SchemaTypeOK, NEW S, \A i \in S : WellFormed(i) \/ i = RootItem
  PROVE  \A j \in Under(S) : WellFormed(j)
BY ChildrenAreWellFormed DEF Under

LEMMA ItemsAreWellFormed ==
  ASSUME SchemasAssumption, SchemaTypeOK
  PROVE  \A i \in Items : WellFormed(i)
<1>1. \A i \in Level1 : WellFormed(i)
  BY UnderIsWellFormed DEF Level1
<1>2. \A i \in Level2 : WellFormed(i)
  BY <1>1, UnderIsWellFormed DEF Level2
<1>3. \A i \in Level3 : WellFormed(i)
  BY <1>2, UnderIsWellFormed DEF Level3
<1>4. \A i \in Level4 : WellFormed(i)
  BY <1>3, UnderIsWellFormed DEF Level4
<1>5. \A i \in Level5 : WellFormed(i)
  BY <1>4, UnderIsWellFormed DEF Level5
<1>6. \A i \in Level6 : WellFormed(i)
  BY <1>5, UnderIsWellFormed DEF Level6
<1>7. \A i \in Level7 : WellFormed(i)
  BY <1>6, UnderIsWellFormed DEF Level7
<1> QED
  BY <1>1, <1>2, <1>3, <1>4, <1>5, <1>6, <1>7, ItemsAreLevels

\* The parents of each form of item, and the place of an entity.
Place(d, e) ==
    IF e.type = Flat \/ e.folder = <<>> THEN FolderItem(d, e.type) ELSE EntityFolderItem(d, e.type, e.folder)

LEMMA ParentOfEntity ==
  ASSUME NEW d, NEW e, ~e.backslash
  PROVE  GetParents(EntityItem(d, e)) = {Place(d, e)}
BY DEF GetParents, EntityItem, Place

LEMMA ParentOfEntityFolder ==
  ASSUME NEW d, NEW t, NEW p
  PROVE  GetParents(EntityFolderItem(d, t, p)) = {ParentFolder(d, t, p)}
BY DEF GetParents, EntityFolderItem

LEMMA ParentOfFolder ==
  ASSUME NEW d, NEW t
  PROVE  GetParents(FolderItem(d, t)) = {DatabaseItem(d)}
BY DEF GetParents, FolderItem

LEMMA ParentOfDatabase ==
  ASSUME NEW d
  PROVE  GetParents(DatabaseItem(d)) = {ServerItem}
BY DEF GetParents, DatabaseItem

LEMMA ParentOfServer ==
  GetParents(ServerItem) = {IF p = Top THEN RootItem ELSE GroupItem(p) : p \in places}
BY DEF GetParents, ServerItem

LEMMA ParentOfGroup ==
  ASSUME NEW g
  PROVE  GetParents(GroupItem(g)) = {RootItem}
BY DEF GetParents, GroupItem

\* Its place lists an entity.
LEMMA PlaceListsEntity ==
  ASSUME SchemasAssumption, SchemaTypeOK, NEW d \in Listed, NEW e \in Info(d)
  PROVE  EntityItem(d, e) \in GetChildren(Place(d, e))
<1>1. e \in OfType(d, e.type)
  BY InfoTypes
<1>2. CASE e.type = Flat
  BY <1>1, <1>2, ChildrenOfFolder DEF Place
<1>3. CASE e.type # Flat /\ e.folder = <<>>
  <2>1. EntityItem(d, e) \in EntityFolderChildren(d, e.type, <<>>)
    BY <1>1, <1>3 DEF EntityFolderChildren, DirectEntities
  <2> QED
    BY <2>1, <1>3, ChildrenOfFolder DEF Place
<1>4. CASE e.type # Flat /\ e.folder # <<>>
  <2>1. EntityItem(d, e) \in EntityFolderChildren(d, e.type, e.folder)
    BY <1>1 DEF EntityFolderChildren, DirectEntities
  <2> QED
    BY <2>1, <1>4, ChildrenOfEntityFolder DEF Place
<1> QED
  BY <1>2, <1>3, <1>4

\* The folder above lists the folder of entities of one more segment.
LEMMA FolderListsFolder ==
  ASSUME SchemasAssumption, SchemaTypeOK, NEW d \in Listed, NEW e \in Info(d), NEW k \in 1 .. Len(e.folder)
  PROVE  EntityFolderItem(d, e.type, SubSeq(e.folder, 1, k))
            \in EntityFolderChildren(d, e.type, SubSeq(e.folder, 1, k - 1))
<1> DEFINE f == e.folder
           p == SubSeq(f, 1, k - 1)
<1>1. f \in Seq(STRING) /\ e \in OfType(d, e.type)
  BY InfoTypes
<1>2. Len(f) \in Nat /\ k \in 1 .. Len(f)
  BY <1>1, LenProperties
<1>3. k - 1 \in 0 .. Len(f)
  BY <1>2
<1>4. Len(p) = k - 1 /\ IsPrefix(p, f)
  BY <1>1, <1>3, Beginnings, BeginningIsPrefix
<1> HIDE DEF f, p
<1>5. Len(f) > Len(p) /\ Len(p) + 1 = k
  BY <1>2, <1>4
<1>6. SubSeq(f, 1, k) \in Subfolders(OfType(d, e.type), p)
  BY <1>1, <1>4, <1>5 DEF Subfolders, f
<1>7. EntityFolderItem(d, e.type, SubSeq(f, 1, k)) \in EntityFolderChildren(d, e.type, p)
  BY <1>6 DEF EntityFolderChildren
<1> QED
  BY <1>7 DEF f, p

LEMMA ParentsListChildren ==
  ASSUME SchemaAssumption, SchemasAssumption, SchemaTypeOK
  PROVE  ParentListsChild
<1> SUFFICES ASSUME NEW i \in Items, i[1] = "entity" => ~i[3].backslash, NEW p \in GetParents(i)
             PROVE  i \in GetChildren(p)
  BY DEF ParentListsChild
<1>1. WellFormed(i)
  BY ItemsAreWellFormed
<1>2. CASE i = ServerItem
  <2>1. PICK q \in places : p = IF q = Top THEN RootItem ELSE GroupItem(q)
    BY <1>2, ParentOfServer
  <2> QED
    BY <2>1, <1>2, ChildrenOfRoot, ChildrenOfGroup
<1>3. CASE \E g \in Groups : i = GroupItem(g)
  BY <1>3, ParentOfGroup, ChildrenOfRoot
<1>4. CASE IsDatabaseItem(i)
  BY <1>4, ParentOfDatabase, ChildrenOfServer DEF IsDatabaseItem
<1>5. CASE IsFolderItem(i)
  BY <1>5, ParentOfFolder, ChildrenOfDatabase DEF IsFolderItem
<1>6. CASE IsPathItem(i)
  <2>1. PICK d \in Listed : \E e \in Info(d) : \E k \in 1 .. Len(e.folder) :
            e.type # Flat /\ i = EntityFolderItem(d, e.type, SubSeq(e.folder, 1, k))
    BY <1>6 DEF IsPathItem
  <2>2. PICK e \in Info(d) : \E k \in 1 .. Len(e.folder) :
            e.type # Flat /\ i = EntityFolderItem(d, e.type, SubSeq(e.folder, 1, k))
    BY <2>1
  <2>3. PICK k \in 1 .. Len(e.folder) :
            e.type # Flat /\ i = EntityFolderItem(d, e.type, SubSeq(e.folder, 1, k))
    BY <2>2
  <2> DEFINE path == SubSeq(e.folder, 1, k)
  <2>4. /\ e.folder \in Seq(STRING) /\ k \in 0 .. Len(e.folder) /\ k - 1 \in 0 .. k
        /\ k \in Nat /\ k >= 1
    BY InfoTypes, LenProperties
  <2>5. Len(path) = k /\ SubSeq(path, 1, k - 1) = SubSeq(e.folder, 1, k - 1)
    BY <2>4, Beginnings
  <2>6. p = ParentFolder(d, e.type, path)
    BY <2>3, ParentOfEntityFolder
  <2>7. i \in EntityFolderChildren(d, e.type, SubSeq(e.folder, 1, k - 1))
    BY <2>3, FolderListsFolder
  <2> HIDE DEF path
  <2>8. CASE k > 1
    <3>1. p = EntityFolderItem(d, e.type, SubSeq(e.folder, 1, k - 1))
      BY <2>5, <2>6, <2>8 DEF ParentFolder, Front
    <3> QED
      BY <3>1, <2>7, ChildrenOfEntityFolder
  <2>9. CASE ~(k > 1)
    <3>1. k - 1 = 0 /\ p = FolderItem(d, e.type)
      BY <2>4, <2>5, <2>6, <2>9 DEF ParentFolder
    <3>2. SubSeq(e.folder, 1, k - 1) = <<>>
      BY <3>1, <2>4, WholeAndNone
    <3> QED
      BY <3>1, <3>2, <2>3, <2>7, ChildrenOfFolder
  <2> QED
    BY <2>8, <2>9
<1>7. CASE IsEntityItem(i)
  <2>1. PICK d \in Listed : \E e \in Info(d) : i = EntityItem(d, e)
    BY <1>7 DEF IsEntityItem
  <2>2. PICK e \in Info(d) : i = EntityItem(d, e)
    BY <2>1
  <2>3. ~e.backslash
    BY <2>2 DEF EntityItem
  <2> QED
    BY <2>2, <2>3, ParentOfEntity, PlaceListsEntity
<1> QED
  BY <1>1, <1>2, <1>3, <1>4, <1>5, <1>6, <1>7 DEF WellFormed, IsListItem

\* The place of an entity is an item, at most four levels below its database.
LEMMA PlaceIsAnItem ==
  ASSUME SchemaAssumption, SchemasAssumption, SchemaTypeOK, NEW d \in Listed, NEW e \in Info(d)
  PROVE  Place(d, e) \in Items
<1> DEFINE f == e.folder
           F(k) == EntityFolderItem(d, e.type, SubSeq(f, 1, k))
<1>1. /\ f \in Seq(STRING) /\ Len(f) \in 0 .. MaxDepth
  BY InfoTypes
<1>2. ServerItem \in Level1 \/ ServerItem \in Level2
  <2>1. PICK p \in places : p \in Groups \union {Top}
    BY SchemaTypes
  <2>2. CASE p = Top
    BY <2>2, ChildrenOfRoot, ChildIsUnder DEF Level1
  <2>3. CASE p \in Groups
    <3>1. GroupItem(p) \in Level1
      BY <2>3, ChildrenOfRoot, ChildIsUnder DEF Level1
    <3> QED
      BY <3>1, ChildrenOfGroup, ChildIsUnder DEF Level2
  <2> QED
    BY <2>1, <2>2, <2>3
<1>3. DatabaseItem(d) \in Level2 \/ DatabaseItem(d) \in Level3
  BY <1>2, ChildrenOfServer, ChildIsUnder DEF Level2, Level3
<1>4. FolderItem(d, e.type) \in GetChildren(DatabaseItem(d))
  BY ChildrenOfDatabase
<1>5. FolderItem(d, e.type) \in Level3 \/ FolderItem(d, e.type) \in Level4
  BY <1>3, <1>4, ChildIsUnder DEF Level3, Level4
<1>6. CASE e.type = Flat \/ f = <<>>
  BY <1>5, <1>6, ItemsAreLevels DEF Place
<1>7. CASE e.type # Flat /\ f # <<>>
  <2>1. Len(f) \in 1 .. 3
    BY <1>1, <1>7, EmptySeq DEF MaxDepth
  <2>2. \A k \in 1 .. Len(f) : F(k) \in EntityFolderChildren(d, e.type, SubSeq(f, 1, k - 1))
    BY FolderListsFolder
  <2>3. F(1) \in GetChildren(FolderItem(d, e.type))
    <3>1. SubSeq(f, 1, 0) = <<>>
      BY <1>1, WholeAndNone
    <3>2. F(1) \in EntityFolderChildren(d, e.type, SubSeq(f, 1, 1 - 1)) /\ 1 - 1 = 0
      BY <2>1, <2>2
    <3>3. F(1) \in EntityFolderChildren(d, e.type, <<>>)
      BY <3>1, <3>2
    <3> QED
      BY <3>3, <1>7, ChildrenOfFolder
  <2>4. Len(f) >= 2 => F(2) \in GetChildren(F(1))
    <3>1. Len(f) >= 2 => F(2) \in EntityFolderChildren(d, e.type, SubSeq(f, 1, 2 - 1)) /\ 2 - 1 = 1
      BY <2>1, <2>2
    <3> QED
      BY <3>1, ChildrenOfEntityFolder
  <2>5. Len(f) >= 3 => F(3) \in GetChildren(F(2))
    <3>1. Len(f) >= 3 => F(3) \in EntityFolderChildren(d, e.type, SubSeq(f, 1, 3 - 1)) /\ 3 - 1 = 2
      BY <2>1, <2>2
    <3> QED
      BY <3>1, ChildrenOfEntityFolder
  <2>6. Place(d, e) = F(Len(f))
    BY <1>1, <1>7, WholeAndNone DEF Place
  <2> HIDE DEF F, f
  <2>7. F(1) \in Level4 \/ F(1) \in Level5
    BY <1>5, <2>3, ChildIsUnder DEF Level4, Level5
  <2>8. Len(f) >= 2 => F(2) \in Level5 \/ F(2) \in Level6
    BY <2>7, <2>4, ChildIsUnder DEF Level5, Level6
  <2>9. Len(f) >= 3 => F(3) \in Level6 \/ F(3) \in Level7
    BY <2>1, <2>8, <2>5, ChildIsUnder DEF Level6, Level7
  <2>10. Len(f) = 1 \/ Len(f) = 2 \/ Len(f) = 3
    BY <2>1
  <2>11. CASE Len(f) = 1
    BY <2>6, <2>7, <2>11, ItemsAreLevels
  <2>12. CASE Len(f) = 2
    BY <2>6, <2>8, <2>12, ItemsAreLevels
  <2>13. CASE Len(f) = 3
    BY <2>6, <2>9, <2>13, ItemsAreLevels
  <2> QED
    BY <2>10, <2>11, <2>12, <2>13
<1> QED
  BY <1>6, <1>7

\* Only its place lists it.
LEMMA OnlyPlaceLists ==
  ASSUME SchemasAssumption, SchemaTypeOK, NEW d \in Listed, NEW e \in Info(d), NEW i \in Items,
         EntityItem(d, e) \in GetChildren(i)
  PROVE  i = Place(d, e)
<1>1. WellFormed(i)
  BY ItemsAreWellFormed
<1>2. CASE i = ServerItem
  BY <1>2, ChildrenOfServer DEF EntityItem, DatabaseItem
<1>3. CASE \E g \in Groups : i = GroupItem(g)
  BY <1>3, ChildrenOfGroup DEF EntityItem, ServerItem
<1>4. CASE IsDatabaseItem(i)
  BY <1>4, ChildrenOfDatabase DEF IsDatabaseItem, EntityItem, FolderItem
<1>5. ASSUME NEW b, NEW t, NEW q, EntityItem(d, e) \in EntityFolderChildren(b, t, q)
      PROVE  b = d /\ e.type = t /\ e.folder = q
  BY <1>5 DEF EntityFolderChildren, EntityItem, EntityFolderItem, DirectEntities, OfType
<1>6. CASE IsFolderItem(i)
  <2>0. PICK b \in Listed : \E x \in Info(b) : i = FolderItem(b, x.type)
    BY <1>6 DEF IsFolderItem
  <2>1. PICK x \in Info(b) : i = FolderItem(b, x.type)
    BY <2>0
  <2>2. CASE x.type = Flat
    <3>1. EntityItem(d, e) \in {EntityItem(b, y) : y \in OfType(b, Flat)}
      BY <2>1, <2>2, ChildrenOfFolder
    <3>2. b = d /\ e.type = Flat
      BY <3>1 DEF EntityItem, OfType
    <3> QED
      BY <2>1, <2>2, <3>2 DEF Place
  <2>3. CASE x.type # Flat
    <3>1. EntityItem(d, e) \in EntityFolderChildren(b, x.type, <<>>)
      BY <2>1, <2>3, ChildrenOfFolder
    <3>2. b = d /\ e.type = x.type /\ e.folder = <<>>
      BY <3>1, <1>5
    <3> QED
      BY <2>1, <3>2 DEF Place
  <2> QED
    BY <2>2, <2>3
<1>7. CASE IsPathItem(i)
  <2>1. PICK b \in Listed : \E x \in Info(b) : \E k \in 1 .. Len(x.folder) :
            x.type # Flat /\ i = EntityFolderItem(b, x.type, SubSeq(x.folder, 1, k))
    BY <1>7 DEF IsPathItem
  <2>2. PICK x \in Info(b) : \E k \in 1 .. Len(x.folder) :
            x.type # Flat /\ i = EntityFolderItem(b, x.type, SubSeq(x.folder, 1, k))
    BY <2>1
  <2>3. PICK k \in 1 .. Len(x.folder) :
            x.type # Flat /\ i = EntityFolderItem(b, x.type, SubSeq(x.folder, 1, k))
    BY <2>2
  <2>4. EntityItem(d, e) \in EntityFolderChildren(b, x.type, SubSeq(x.folder, 1, k))
    BY <2>3, ChildrenOfEntityFolder
  <2>5. b = d /\ e.type = x.type /\ e.folder = SubSeq(x.folder, 1, k)
    BY <2>4, <1>5
  <2>6. e.folder # <<>>
    <3>1. x.folder \in Seq(STRING) /\ Len(x.folder) \in Nat
      BY InfoTypes, LenProperties
    <3>2. Len(e.folder) = k /\ k # 0
      BY <3>1, <2>5, Beginnings
    <3> QED
      BY <3>2
  <2> QED
    BY <2>3, <2>5, <2>6 DEF Place
<1>8. CASE IsEntityItem(i)
  BY <1>8, ChildrenOfEntity DEF IsEntityItem
<1> QED
  BY <1>1, <1>2, <1>3, <1>4, <1>6, <1>7, <1>8 DEF WellFormed, IsListItem

LEMMA EntitiesHaveOnePlace ==
  ASSUME SchemaAssumption, SchemasAssumption, SchemaTypeOK
  PROVE  EveryEntityHasOnePlace
<1> SUFFICES ASSUME NEW d \in Listed, NEW e \in Info(d)
             PROVE  Cardinality({i \in Items : EntityItem(d, e) \in GetChildren(i)}) = 1
  BY DEF EveryEntityHasOnePlace
<1>1. {i \in Items : EntityItem(d, e) \in GetChildren(i)} = {Place(d, e)}
  BY PlaceIsAnItem, PlaceListsEntity, OnlyPlaceLists
<1> QED
  BY <1>1, FS_Singleton

LEMMA IndMakesTreesSound ==
  ASSUME SchemaAssumption, SchemasAssumption, SchemaInd
  PROVE  TreeIsSound
<1>1. RefreshedStaysFresh
  <2> SUFFICES ASSUME NEW d \in Listed \ (overtaken \union Refreshing), cachedInfo[d] # None
               PROVE  cachedInfo[d] >= atLeast[d]
    BY DEF RefreshedStaysFresh
  <2>1. \A r \in Requests : ~Ended(r, d)
    BY DEF Refreshing, Ended, Is
  <2> QED
    BY <2>1 DEF SchemaInd, VersionsHold
<1> QED
  BY <1>1, ParentsListChildren, EntitiesHaveOnePlace DEF SchemaInd, TreeIsSound

-----------------------------------------------------------------------------
(* Theorems about the tree *)

\* The tree of databases is as fresh as the last refresh asked for, lists the
\* databases of a cluster whole, and has each entity in one place, under the parent
\* the editor climbs to: what is cached of a schema, what answers bring, and what
\* folders make of it agree (setClusterDatabases, setDatabaseInfo, getChildren,
\* getParent), for any databases, requests and schemas.
THEOREM TreesAreSound == SchemaSpec => []TreeIsSound
<1>1. SchemaInit => SchemaInd
  BY SchemaAssumption, SchemasAssumption, SchemaInitInd
<1>2. SchemaInd /\ [SchemaNext]_schemaVars => SchemaInd'
  BY SchemaAssumption, SchemasAssumption, RequestAssumption, SchemaStepInd
<1>3. SchemaInd => TreeIsSound
  BY SchemaAssumption, SchemasAssumption, IndMakesTreesSound
<1> QED
  BY <1>1, <1>2, <1>3, PTL DEF SchemaSpec
-----------------------------------------------------------------------------
(* Servers and groups *)

\* Calls that have yet to add the server, or the group, they were made for.
AddingServer == {c \in Commands : /\ commands[c] # None /\ commands[c].op \in {"ensure", "add"}
                                  /\ commands[c].at # "saving"}
AddingAGroup == {c \in Commands : /\ commands[c] # None /\ commands[c].op = "addGroup"
                                  /\ commands[c].at # "saving"}

\* The bounds keep room for them.
ListHasRoom ==
    /\ IsFiniteSet(servers) /\ Cardinality(servers) + Cardinality(AddingServer) <= MaxServers
    /\ IsFiniteSet(groups) /\ Cardinality(groups) + Cardinality(AddingAGroup) <= MaxGroups

\* A call has what its operation needs, and only an edit about to be made holds a server.
CommandsFit ==
    \A c \in Commands : commands[c] # None =>
        /\ commands[c].op = "ensure" => commands[c].to = Root
        /\ commands[c].op \notin {"addGroup", "removeGroup", "renameGroup"} =>
              commands[c].cluster # None
        /\ commands[c].op = "edit" => commands[c].new # None
        /\ commands[c].op \in {"addGroup", "renameGroup"} => commands[c].to # Root
        /\ commands[c].at # "rehost" => commands[c].held = None
        /\ commands[c].at = "rehost" => commands[c].op = "edit"

ListInd == ListTypeOK /\ ListHasRoom /\ CommandsFit /\ ToldWhenSaved
-----------------------------------------------------------------------------
\* The image of a finite set is finite and no larger.
LEMMA ImageIsFinite ==
  ASSUME NEW S, IsFiniteSet(S), NEW f
  PROVE  /\ IsFiniteSet({f[x] : x \in S})
         /\ Cardinality({f[x] : x \in S}) <= Cardinality(S)
<1> DEFINE T == {f[x] : x \in S}
           g == [x \in S |-> f[x]]
<1>1. g \in Surjection(S, T)
  BY DEF Surjection
<1> QED
  BY <1>1, FS_Surjection

\* A finite set of more members than another has one that the other lacks.
LEMMA LargerHasAnother ==
  ASSUME NEW S, NEW T, IsFiniteSet(T), Cardinality(T) < Cardinality(S)
  PROVE  \E x \in S : x \notin T
<1> SUFFICES ASSUME S \subseteq T PROVE FALSE
  OBVIOUS
<1>1. IsFiniteSet(S) /\ Cardinality(S) <= Cardinality(T)
  BY FS_Subset
<1>2. Cardinality(S) \in Nat /\ Cardinality(T) \in Nat
  BY <1>1, FS_CardinalityType
<1> QED
  BY <1>1, <1>2

LEMMA CommandsAreCounted == IsFiniteSet(Commands) /\ Cardinality(Commands) \in Nat
  BY ListAssumption, FS_CardinalityType

LEMMA IdsAreCounted ==
  /\ Cardinality(ServerIds) = MaxServers + Cardinality(Commands)
  /\ Cardinality(GroupIds) = MaxGroups + Cardinality(Commands)
<1> DEFINE n == Cardinality(Commands)
<1>1. n \in Nat /\ MaxServers \in Nat /\ MaxGroups \in Nat
  BY ListAssumption, CommandsAreCounted
<1>2. ASSUME NEW m \in Nat PROVE Cardinality(1 .. m) = m
  BY FS_Interval
<1> HIDE DEF n
<1>3. MaxServers + n \in Nat /\ MaxGroups + n \in Nat
  BY <1>1
<1> QED
  BY <1>2, <1>3 DEF ServerIds, GroupIds, n

\* There is an identifier for a server added or moved: others may hold as many
\* as there are other calls.
LEMMA ServersGetIds ==
  ASSUME ListInd, NEW c \in Commands, commands[c] # None, commands[c].at # "rehost"
  PROVE  FreshServer \in ServerIds
<1> USE ListAssumption DEF ListInd
<1> DEFINE ids == {s.id : s \in servers}
           others == {d \in Commands \ {c} : commands[d] # None}
           held == {commands[d].held : d \in others}
<1>1. IsFiniteSet(ids) /\ Cardinality(ids) <= Cardinality(servers)
  <2> DEFINE f == [s \in servers |-> s.id]
  <2>1. /\ IsFiniteSet({f[s] : s \in servers})
        /\ Cardinality({f[s] : s \in servers}) <= Cardinality(servers)
    BY ImageIsFinite DEF ListHasRoom
  <2>2. ids = {f[s] : s \in servers}
    OBVIOUS
  <2> QED
    BY <2>1, <2>2
<1>2. IsFiniteSet(held) /\ Cardinality(held) <= Cardinality(Commands) - 1
  <2>1. /\ IsFiniteSet(Commands \ {c}) /\ Cardinality(Commands \ {c}) = Cardinality(Commands) - 1
    BY CommandsAreCounted, FS_RemoveElement
  <2>2. IsFiniteSet(others) /\ Cardinality(others) <= Cardinality(Commands \ {c})
    BY <2>1, FS_Subset
  <2> DEFINE f == [d \in others |-> commands[d].held]
  <2>3. /\ IsFiniteSet({f[d] : d \in others})
        /\ Cardinality({f[d] : d \in others}) <= Cardinality(others)
    BY <2>2, ImageIsFinite
  <2>4. held = {f[d] : d \in others}
    OBVIOUS
  <2>5. Cardinality(held) \in Nat /\ Cardinality(others) \in Nat
    BY <2>2, <2>3, <2>4, FS_CardinalityType
  <2>6. Cardinality(Commands \ {c}) \in Nat
    BY <2>1, FS_CardinalityType
  <2>7. IsFiniteSet(held) /\ Cardinality(held) <= Cardinality(others)
    BY <2>3, <2>4
  <2> HIDE DEF held, others, f
  <2> QED
    BY <2>1, <2>2, <2>5, <2>6, <2>7, CommandsAreCounted
<1>3. Cardinality(servers) \in Nat /\ Cardinality(servers) <= MaxServers
  <2>1. IsFiniteSet(AddingServer)
    BY CommandsAreCounted, FS_Subset DEF AddingServer
  <2> QED
    BY <2>1, FS_CardinalityType DEF ListHasRoom
<1>4. IsFiniteSet(ids \union held) /\ Cardinality(ids \union held) < Cardinality(ServerIds)
  <2>1. /\ IsFiniteSet(ids \union held) /\ IsFiniteSet(ids \cap held)
        /\ Cardinality(ids \union held) = Cardinality(ids) + Cardinality(held) - Cardinality(ids \cap held)
    BY <1>1, <1>2, FS_Union, FS_Intersection
  <2>2. Cardinality(ids) \in Nat /\ Cardinality(held) \in Nat /\ Cardinality(ids \cap held) \in Nat
    BY <1>1, <1>2, <2>1, FS_CardinalityType
  <2> QED
    BY <1>1, <1>2, <1>3, <2>1, <2>2, IdsAreCounted, CommandsAreCounted
<1>5. PICK i \in ServerIds : i \notin ids \union held
  BY <1>4, LargerHasAnother
<1>6. i \notin ids \union Held
  <2>1. commands[c].held = None /\ i # None
    BY DEF CommandsFit, ServerIds
  <2> QED
    BY <1>5, <2>1 DEF Held
<1> QED
  BY <1>6 DEF FreshServer

\* And one for a group.
LEMMA GroupsGetIds ==
  ASSUME ListInd, NEW c \in AddingAGroup
  PROVE  FreshGroup \in GroupIds
<1> USE ListAssumption DEF ListInd
<1> DEFINE ids == {g.id : g \in groups}
           f == [g \in groups |-> g.id]
<1>1. IsFiniteSet(ids) /\ Cardinality(ids) <= Cardinality(groups)
  <2>1. IsFiniteSet({f[g] : g \in groups}) /\ Cardinality({f[g] : g \in groups}) <= Cardinality(groups)
    BY ImageIsFinite DEF ListHasRoom
  <2>2. ids = {f[g] : g \in groups}
    OBVIOUS
  <2> QED
    BY <2>1, <2>2
<1>2. IsFiniteSet(AddingAGroup) /\ Cardinality(AddingAGroup) \in Nat \ {0}
  <2>1. IsFiniteSet(AddingAGroup)
    BY CommandsAreCounted, FS_Subset DEF AddingAGroup
  <2> QED
    BY <2>1, FS_CardinalityType, FS_EmptySet
<1>3. Cardinality(ids) < Cardinality(GroupIds)
  BY <1>1, <1>2, IdsAreCounted, CommandsAreCounted, FS_CardinalityType DEF ListHasRoom
<1>4. \E i \in GroupIds : i \notin ids
  BY <1>1, <1>3, LargerHasAnother
<1> QED
  BY <1>4 DEF FreshGroup
-----------------------------------------------------------------------------
\* The lists leave the bounds their room when they do not grow and no call is
\* added to those that will add to them.
LEMMA RoomIsKept ==
  ASSUME ListHasRoom,
         IsFiniteSet(servers'), Cardinality(servers') <= Cardinality(servers),
         IsFiniteSet(groups'), Cardinality(groups') <= Cardinality(groups),
         AddingServer' \subseteq AddingServer, AddingAGroup' \subseteq AddingAGroup
  PROVE  ListHasRoom'
<1> USE ListAssumption
<1>1. IsFiniteSet(AddingServer) /\ IsFiniteSet(AddingAGroup)
  BY CommandsAreCounted, FS_Subset DEF AddingServer, AddingAGroup
<1>2. /\ IsFiniteSet(AddingServer') /\ Cardinality(AddingServer') <= Cardinality(AddingServer)
      /\ IsFiniteSet(AddingAGroup') /\ Cardinality(AddingAGroup') <= Cardinality(AddingAGroup)
  BY <1>1, FS_Subset
<1>3. /\ Cardinality(AddingServer) \in Nat /\ Cardinality(AddingServer') \in Nat
      /\ Cardinality(AddingAGroup) \in Nat /\ Cardinality(AddingAGroup') \in Nat
  BY <1>1, <1>2, FS_CardinalityType
<1>4. /\ Cardinality(servers) \in Nat /\ Cardinality(servers') \in Nat
      /\ Cardinality(groups) \in Nat /\ Cardinality(groups') \in Nat
  BY FS_CardinalityType DEF ListHasRoom
<1> HIDE DEF AddingServer, AddingAGroup
<1>5. /\ Cardinality(servers) + Cardinality(AddingServer) <= MaxServers
      /\ Cardinality(groups) + Cardinality(AddingAGroup) <= MaxGroups
  BY DEF ListHasRoom
<1>6. /\ Cardinality(servers') + Cardinality(AddingServer') <= MaxServers
      /\ Cardinality(groups') + Cardinality(AddingAGroup') <= MaxGroups
  BY <1>2, <1>3, <1>4, <1>5
<1> QED
  BY <1>6 DEF ListHasRoom

\* A call that goes on to its next wait, or ends.
LEMMA CallMoves ==
  ASSUME ListInd, NEW c \in Commands, commands[c] # None, commands[c].at # "rehost",
         NEW at \in {"kind", "saving"}, Goes(c, at) \/ Returns(c),
         at = "kind" => commands[c].at # "saving"
  PROVE  /\ commands' \in [Commands -> Command \union {None}]
         /\ CommandsFit'
         /\ AddingServer' \subseteq AddingServer /\ AddingAGroup' \subseteq AddingAGroup
         /\ \A d \in Commands \ {c} : commands'[d] = commands[d]
<1> USE DEF ListInd
<1>1. commands \in [Commands -> Command \union {None}] /\ commands[c] \in Command
  BY DEF ListTypeOK
<1>2. ASSUME NEW d \in Commands \ {c} PROVE commands'[d] = commands[d]
  BY <1>1 DEF Goes, Returns
<1>3. CASE Returns(c)
  <2>1. commands'[c] = None
    BY <1>1, <1>3 DEF Returns
  <2>2. commands' \in [Commands -> Command \union {None}]
    BY <1>1, <1>3 DEF Returns
  <2> QED
    BY <1>2, <2>1, <2>2 DEF CommandsFit, AddingServer, AddingAGroup
<1>4. CASE Goes(c, at)
  <2>1. /\ commands'[c] = [commands[c] EXCEPT !.at = at]
        /\ commands' \in [Commands -> Command \union {None}]
    BY <1>1, <1>4 DEF Goes, Command
  <2>2. /\ commands'[c].op = commands[c].op /\ commands'[c].to = commands[c].to
        /\ commands'[c].cluster = commands[c].cluster /\ commands'[c].new = commands[c].new
        /\ commands'[c].held = commands[c].held /\ commands'[c].at = at
    BY <1>1, <2>1 DEF Command
  <2>3. CommandsFit'
    BY <1>2, <2>2 DEF CommandsFit
  <2>4. AddingServer' \subseteq AddingServer /\ AddingAGroup' \subseteq AddingAGroup
    BY <1>2, <2>2 DEF AddingServer, AddingAGroup
  <2> QED
    BY <1>2, <2>1, <2>3, <2>4
<1> QED
  BY <1>3, <1>4

\* What is told is told of a finite list.
LEMMA ConfiguredIsABag ==
  ASSUME IsFiniteSet(servers)
  PROVE  getConfiguredConnections \in [Clusters -> Nat]
<1>1. ASSUME NEW k \in Clusters
      PROVE  Cardinality({s \in servers : s.cluster = k}) \in Nat
  BY FS_Subset, FS_CardinalityType
<1> QED
  BY <1>1 DEF getConfiguredConnections

\* A list that stays as it was told is still told, and one that changes is being stored.
LEMMA ToldIsKept ==
  ASSUME ToldWhenSaved, NEW c \in Commands,
         \A d \in Commands \ {c} : commands'[d] = commands[d],
         \/ InSaving(c)'
         \/ ~InSaving(c) /\ UNCHANGED <<servers, toldList>>
  PROVE  ToldWhenSaved'
  BY DEF ToldWhenSaved, InSaving, getConfiguredConnections
-----------------------------------------------------------------------------
LEMMA ListIndInit == ListInit => ListInd
<1> SUFFICES ASSUME ListInit PROVE ListInd
  OBVIOUS
<1> USE ListAssumption DEF ListInit
<1>1. ListTypeOK
  BY DEF ListTypeOK
<1>2. ListHasRoom
  <2>1. AddingServer = {} /\ AddingAGroup = {}
    BY DEF AddingServer, AddingAGroup
  <2> QED
    BY <2>1, FS_EmptySet DEF ListHasRoom
<1>3. CommandsFit
  BY DEF CommandsFit
<1>4. ToldWhenSaved
  <2>1. \A k \in Clusters : {s \in servers : s.cluster = k} = {}
    OBVIOUS
  <2> QED
    BY <2>1, FS_EmptySet DEF ToldWhenSaved, getConfiguredConnections
<1> QED
  BY <1>1, <1>2, <1>3, <1>4 DEF ListInd

\* The bounds leave room for the server, or the group, of a call that begins.
LEMMA AsksKeeps ==
  ASSUME ListInd, NEW c \in Commands, Asks(c)
  PROVE  ListInd'
<1> USE ListAssumption DEF ListInd
<1>1. PICK op \in Ops, k \in Clusters, new \in Clusters,
           from \in {g.name : g \in groups} \union {Root}, to \in Names \union {Root} :
        /\ op \in {"ensure", "add"} =>
              /\ Cardinality(servers) + Adding < MaxServers
              /\ from = Root
              /\ to \in {g.name : g \in groups} \union {Root}
        /\ op = "ensure" => to = Root
        /\ op = "addGroup" => Cardinality(groups) + AddingGroup < MaxGroups
        /\ op \in {"edit", "remove", "move", "rename"} =>
              \E p \in Places(from) : At(p, k) # {}
        /\ op \in {"removeGroup", "renameGroup"} => from # Root
        /\ op = "move" => to # from /\ to \in {g.name : g \in groups} \union {Root}
        /\ op \in {"addGroup", "renameGroup"} => to # Root /\ to # from
        /\ op \in {"edit", "remove", "removeGroup", "rename"} => to = Root
        /\ op = "addGroup" => from = Root
        /\ commands' = [commands EXCEPT ![c] =
              [op |-> op, from |-> from, to |-> to, held |-> None,
               cluster |-> IF op \in {"addGroup", "removeGroup", "renameGroup"}
                           THEN None ELSE k,
               new |-> IF op = "edit" THEN new ELSE None,
               at |-> IF op \in {"ensure", "add", "edit"} THEN "host" ELSE "prompt"]]
  BY Zenon DEF Asks
<1>2. commands[c] = None /\ UNCHANGED <<servers, groups, cached, toldList>>
  BY DEF Asks
<1>3. commands \in [Commands -> Command \union {None}] /\ groups \subseteq GroupRecord
  BY DEF ListTypeOK
<1>4. /\ commands'[c].op = op /\ commands'[c].to = to /\ commands'[c].held = None
      /\ op \notin {"addGroup", "removeGroup", "renameGroup"} => commands'[c].cluster # None
      /\ op = "edit" => commands'[c].new # None
      /\ op \in {"addGroup", "renameGroup"} => to # Root
      /\ commands'[c].at \in {"host", "prompt"} /\ commands'[c] # None
      /\ commands' \in [Commands -> Command \union {None}]
      /\ \A d \in Commands \ {c} : commands'[d] = commands[d]
  <2> DEFINE asked == [op |-> op, from |-> from, to |-> to, held |-> None,
               cluster |-> IF op \in {"addGroup", "removeGroup", "renameGroup"}
                           THEN None ELSE k,
               new |-> IF op = "edit" THEN new ELSE None,
               at |-> IF op \in {"ensure", "add", "edit"} THEN "host" ELSE "prompt"]
  <2>1. asked \in Command
    BY <1>3 DEF Command, GroupRecord, Ops
  <2>2. /\ asked.op = op /\ asked.to = to /\ asked.held = None
        /\ op \notin {"addGroup", "removeGroup", "renameGroup"} => asked.cluster # None
        /\ op = "edit" => asked.new # None
        /\ asked.at \in {"host", "prompt"} /\ asked # None
    BY <2>1, CommandAssumption
  <2>3. commands' = [commands EXCEPT ![c] = asked]
    BY <1>1
  <2> HIDE DEF asked
  <2> QED
    BY <1>1, <1>3, <2>1, <2>2, <2>3
<1>5. ListTypeOK'
  BY <1>2, <1>4 DEF ListTypeOK
<1>6. CommandsFit'
  BY <1>1, <1>4 DEF CommandsFit
<1>7. ToldWhenSaved'
  BY <1>2, <1>4 DEF ToldWhenSaved, InSaving, getConfiguredConnections
<1>8. IsFiniteSet(servers) /\ Cardinality(servers) + Cardinality(AddingServer') <= MaxServers
  <2> DEFINE old == {d \in Commands : commands[d] # None /\ commands[d].op \in {"ensure", "add"}}
  <2>1. IsFiniteSet(servers) /\ Cardinality(servers) + Cardinality(AddingServer) <= MaxServers
    BY DEF ListHasRoom
  <2>2. IsFiniteSet(AddingServer) /\ IsFiniteSet(old)
    BY CommandsAreCounted, FS_Subset DEF AddingServer
  <2>3. /\ Cardinality(AddingServer) \in Nat /\ Cardinality(old) \in Nat
        /\ Cardinality(servers) \in Nat
    BY <2>1, <2>2, FS_CardinalityType
  <2>4. CASE op \in {"ensure", "add"}
    <3>1. AddingServer' \subseteq old \union {c}
      BY <1>4 DEF AddingServer
    <3>2. IsFiniteSet(old \union {c}) /\ Cardinality(old \union {c}) <= Cardinality(old) + 1
      <4> HIDE DEF old
      <4> QED
        <5>1. /\ IsFiniteSet(old \union {c})
              /\ Cardinality(old \union {c}) =
                   IF c \in old THEN Cardinality(old) ELSE Cardinality(old) + 1
          BY <2>2, FS_AddElement
        <5> QED
          BY <2>3, <5>1
    <3>3. IsFiniteSet(AddingServer') /\ Cardinality(AddingServer') <= Cardinality(old \union {c})
      BY <3>1, <3>2, FS_Subset
    <3>4. Cardinality(AddingServer') \in Nat /\ Cardinality(old \union {c}) \in Nat
      BY <3>2, <3>3, FS_CardinalityType
    <3>5. Cardinality(servers) + Cardinality(old) < MaxServers
      BY <1>1, <2>4 DEF Adding
    <3> HIDE DEF old
    <3> QED
      BY <2>1, <2>3, <3>2, <3>3, <3>4, <3>5
  <2>5. CASE op \notin {"ensure", "add"}
    <3>1. AddingServer' \subseteq AddingServer
      BY <1>2, <1>4, <2>5 DEF AddingServer
    <3>2. IsFiniteSet(AddingServer') /\ Cardinality(AddingServer') <= Cardinality(AddingServer)
      BY <3>1, <2>2, FS_Subset
    <3>3. Cardinality(AddingServer') \in Nat
      BY <3>2, FS_CardinalityType
    <3> HIDE DEF AddingServer
    <3> QED
      BY <2>1, <2>3, <3>2, <3>3
  <2> QED
    BY <2>4, <2>5
<1>9. IsFiniteSet(groups) /\ Cardinality(groups) + Cardinality(AddingAGroup') <= MaxGroups
  <2> DEFINE old == {d \in Commands : commands[d] # None /\ commands[d].op = "addGroup"}
  <2>1. IsFiniteSet(groups) /\ Cardinality(groups) + Cardinality(AddingAGroup) <= MaxGroups
    BY DEF ListHasRoom
  <2>2. IsFiniteSet(AddingAGroup) /\ IsFiniteSet(old)
    BY CommandsAreCounted, FS_Subset DEF AddingAGroup
  <2>3. /\ Cardinality(AddingAGroup) \in Nat /\ Cardinality(old) \in Nat
        /\ Cardinality(groups) \in Nat
    BY <2>1, <2>2, FS_CardinalityType
  <2>4. CASE op = "addGroup"
    <3>1. AddingAGroup' \subseteq old \union {c}
      BY <1>4 DEF AddingAGroup
    <3>2. IsFiniteSet(old \union {c}) /\ Cardinality(old \union {c}) <= Cardinality(old) + 1
      <4> HIDE DEF old
      <4> QED
        <5>1. /\ IsFiniteSet(old \union {c})
              /\ Cardinality(old \union {c}) =
                   IF c \in old THEN Cardinality(old) ELSE Cardinality(old) + 1
          BY <2>2, FS_AddElement
        <5> QED
          BY <2>3, <5>1
    <3>3. IsFiniteSet(AddingAGroup') /\ Cardinality(AddingAGroup') <= Cardinality(old \union {c})
      BY <3>1, <3>2, FS_Subset
    <3>4. Cardinality(AddingAGroup') \in Nat /\ Cardinality(old \union {c}) \in Nat
      BY <3>2, <3>3, FS_CardinalityType
    <3>5. Cardinality(groups) + Cardinality(old) < MaxGroups
      BY <1>1, <2>4 DEF AddingGroup
    <3> HIDE DEF old
    <3> QED
      BY <2>1, <2>3, <3>2, <3>3, <3>4, <3>5
  <2>5. CASE op # "addGroup"
    <3>1. AddingAGroup' \subseteq AddingAGroup
      BY <1>2, <1>4, <2>5 DEF AddingAGroup
    <3>2. IsFiniteSet(AddingAGroup') /\ Cardinality(AddingAGroup') <= Cardinality(AddingAGroup)
      BY <3>1, <2>2, FS_Subset
    <3>3. Cardinality(AddingAGroup') \in Nat
      BY <3>2, FS_CardinalityType
    <3> HIDE DEF AddingAGroup
    <3> QED
      BY <2>1, <2>3, <3>2, <3>3
  <2> QED
    BY <2>4, <2>5
<1>10. ListHasRoom'
  BY <1>2, <1>8, <1>9 DEF ListHasRoom
<1> QED
  BY <1>5, <1>6, <1>7, <1>10

\* A step that leaves the lists alone, takes one call on and, if it tells, tells
\* the list as it is.
LEMMA ListsStay ==
  ASSUME ListInd, NEW c \in Commands, commands[c] # None, commands[c].at # "rehost",
         NEW at \in {"kind", "saving"}, Goes(c, at) \/ Returns(c),
         at = "kind" => commands[c].at # "saving",
         UNCHANGED <<servers, groups, cached>>,
         \/ UNCHANGED toldList /\ (InSaving(c)' \/ ~InSaving(c))
         \/ toldList' = getConfiguredConnections
  PROVE  ListInd'
<1> USE DEF ListInd
<1>1. /\ commands' \in [Commands -> Command \union {None}]
      /\ CommandsFit'
      /\ AddingServer' \subseteq AddingServer /\ AddingAGroup' \subseteq AddingAGroup
      /\ \A d \in Commands \ {c} : commands'[d] = commands[d]
  BY CallMoves
<1>2. IsFiniteSet(servers) /\ IsFiniteSet(groups)
  BY DEF ListHasRoom
<1>3. ListTypeOK'
  <2>1. toldList' \in [Clusters -> Nat]
    BY <1>2, ConfiguredIsABag DEF ListTypeOK
  <2> QED
    BY <1>1, <2>1 DEF ListTypeOK
<1>4. ListHasRoom'
  <2>1. Cardinality(servers) \in Nat /\ Cardinality(groups) \in Nat
    BY <1>2, FS_CardinalityType
  <2> QED
    BY <1>1, <1>2, <2>1, RoomIsKept
<1>5. ToldWhenSaved'
  <2>1. CASE UNCHANGED toldList /\ (InSaving(c)' \/ ~InSaving(c))
    BY <1>1, <2>1, ToldIsKept
  <2>2. CASE toldList' = getConfiguredConnections
    BY <2>2 DEF ToldWhenSaved, getConfiguredConnections
  <2> QED
    BY <2>1, <2>2
<1> QED
  BY <1>1, <1>3, <1>4, <1>5

\* A step that changes the lists, makes neither longer and leaves its call to be stored.
LEMMA ListsChange ==
  ASSUME ListInd, NEW c \in Commands, commands[c] # None, commands[c].at # "rehost", Saves(c),
         servers' \subseteq ServerRecord, groups' \subseteq GroupRecord,
         cached' \in [Clusters -> Nat],
         IsFiniteSet(servers'), Cardinality(servers') <= Cardinality(servers),
         IsFiniteSet(groups'), Cardinality(groups') <= Cardinality(groups)
  PROVE  ListInd'
<1> USE DEF ListInd
<1>1. Goes(c, "saving") /\ UNCHANGED toldList
  BY DEF Saves
<1>2. /\ commands' \in [Commands -> Command \union {None}]
      /\ CommandsFit'
      /\ AddingServer' \subseteq AddingServer /\ AddingAGroup' \subseteq AddingAGroup
      /\ \A d \in Commands \ {c} : commands'[d] = commands[d]
  BY <1>1, CallMoves
<1>3. ListTypeOK'
  BY <1>1, <1>2 DEF ListTypeOK
<1>4. ListHasRoom'
  BY <1>2, RoomIsKept
<1>5. InSaving(c)'
  <2>1. commands[c] \in Command /\ commands'[c] = [commands[c] EXCEPT !.at = "saving"]
    BY <1>1 DEF Goes, ListTypeOK
  <2>2. commands'[c] \in Command /\ commands'[c].at = "saving"
    BY <2>1 DEF Command
  <2> QED
    BY <2>2, CommandAssumption DEF InSaving
<1>6. ToldWhenSaved'
  BY <1>2, <1>5, ToldIsKept
<1> QED
  BY <1>2, <1>3, <1>4, <1>6

LEMMA AddServerKeeps ==
  ASSUME ListInd, NEW c \in Commands, AddServer(c)
  PROVE  ListInd'
<1> USE ListAssumption DEF ListInd
<1>1. /\ commands[c] # None /\ commands[c].at = "kind" /\ commands[c].op \in {"ensure", "add"}
      /\ Goes(c, "saving") /\ UNCHANGED <<groups, cached, toldList>>
  BY DEF AddServer, Saves
<1>2. commands[c] \in Command /\ commands \in [Commands -> Command \union {None}]
  BY <1>1 DEF ListTypeOK
<1>3. IsFiniteSet(servers) /\ Cardinality(servers) \in Nat /\ IsFiniteSet(groups)
  BY FS_CardinalityType DEF ListHasRoom
<1>4. /\ commands' \in [Commands -> Command \union {None}]
      /\ CommandsFit'
      /\ AddingServer' \subseteq AddingServer /\ AddingAGroup' \subseteq AddingAGroup
      /\ \A d \in Commands \ {c} : commands'[d] = commands[d]
  BY <1>1, CallMoves
<1>5. commands'[c] # None /\ commands'[c].at = "saving"
  <2>1. commands'[c] = [commands[c] EXCEPT !.at = "saving"]
    BY <1>1, <1>2 DEF Goes
  <2>2. commands'[c] \in Command /\ commands'[c].at = "saving"
    BY <1>2, <2>1 DEF Command
  <2> QED
    BY <2>2, CommandAssumption
<1>6. ASSUME NEW p \in Places(commands[c].to)
      PROVE  NewServer(commands[c].cluster, p) \in ServerRecord
  <2>1. FreshServer \in ServerIds
    BY <1>1, ServersGetIds
  <2>2. p \in GroupIds \union {Root}
    BY <1>6 DEF Places, ListTypeOK, GroupRecord
  <2>3. commands[c].cluster \in Clusters
    BY <1>1, <1>2 DEF Command, CommandsFit
  <2> QED
    BY <2>1, <2>2, <2>3 DEF NewServer, ServerRecord
<1>7. PICK new \in ServerRecord : servers' \in {servers, servers \union {new}}
  <2>1. CASE UNCHANGED servers
    <3>1. ServerRecord # {}
      <4>1. FreshServer \in ServerIds /\ commands[c].cluster \in Clusters
        BY <1>1, <1>2, ServersGetIds DEF Command, CommandsFit
      <4>2. [id |-> FreshServer, cluster |-> commands[c].cluster, group |-> Root] \in ServerRecord
        BY <4>1 DEF ServerRecord
      <4> QED
        BY <4>2
    <3> QED
      BY <2>1, <3>1
  <2>2. CASE \E p \in Places(commands[c].to) :
               servers' = servers \union {NewServer(commands[c].cluster, p)}
    BY <1>6, <2>2
  <2> QED
    BY <2>1, <2>2 DEF AddServer
<1> servers' \subseteq ServerRecord
  BY <1>7 DEF ListTypeOK
<1>8. ListTypeOK'
  BY <1>1, <1>4 DEF ListTypeOK
<1>9. ListHasRoom'
  <2>1. IsFiniteSet(servers') /\ Cardinality(servers') <= Cardinality(servers) + 1
    <3>1. IsFiniteSet(servers \union {new})
          /\ Cardinality(servers \union {new}) =
                IF new \in servers THEN Cardinality(servers) ELSE Cardinality(servers) + 1
      BY <1>3, FS_AddElement
    <3>2. Cardinality(servers \union {new}) <= Cardinality(servers) + 1
      BY <1>3, <3>1
    <3>3. CASE servers' = servers
      BY <1>3, <3>3
    <3>4. CASE servers' = servers \union {new}
      BY <3>1, <3>2, <3>4
    <3> QED
      BY <1>7, <3>3, <3>4
  <2>2. c \in AddingServer /\ AddingServer' \subseteq AddingServer \ {c}
    BY <1>1, <1>4, <1>5 DEF AddingServer
  <2>3. IsFiniteSet(AddingServer) /\ Cardinality(AddingServer) \in Nat
    BY CommandsAreCounted, FS_Subset, FS_CardinalityType DEF AddingServer
  <2>4. /\ IsFiniteSet(AddingServer \ {c})
        /\ Cardinality(AddingServer \ {c}) = Cardinality(AddingServer) - 1
    BY <2>2, <2>3, FS_RemoveElement
  <2>5. IsFiniteSet(AddingServer') /\ Cardinality(AddingServer') <= Cardinality(AddingServer \ {c})
    BY <2>2, <2>4, FS_Subset
  <2>6. Cardinality(AddingServer') \in Nat /\ Cardinality(servers') \in Nat
    BY <2>1, <2>5, FS_CardinalityType
  <2>7. Cardinality(servers) + Cardinality(AddingServer) <= MaxServers
    BY DEF ListHasRoom
  <2>8. IsFiniteSet(AddingAGroup) /\ Cardinality(AddingAGroup) \in Nat
    BY CommandsAreCounted, FS_Subset, FS_CardinalityType DEF AddingAGroup
  <2>9. IsFiniteSet(AddingAGroup') /\ Cardinality(AddingAGroup') <= Cardinality(AddingAGroup)
    BY <1>4, <2>8, FS_Subset
  <2>10. Cardinality(AddingAGroup') \in Nat /\ Cardinality(groups) \in Nat
    BY <1>3, <2>9, FS_CardinalityType
  <2>11. Cardinality(groups) + Cardinality(AddingAGroup) <= MaxGroups
    BY DEF ListHasRoom
  <2> HIDE DEF AddingServer, AddingAGroup
  <2>12. Cardinality(servers') + Cardinality(AddingServer') <= MaxServers
    BY <1>3, <2>1, <2>3, <2>4, <2>5, <2>6, <2>7
  <2>13. Cardinality(groups) + Cardinality(AddingAGroup') <= MaxGroups
    BY <2>8, <2>9, <2>10, <2>11
  <2> QED
    BY <1>1, <1>3, <2>1, <2>12, <2>13 DEF ListHasRoom
<1>10. ToldWhenSaved'
  BY <1>4, <1>5, ToldIsKept DEF InSaving
<1> QED
  BY <1>4, <1>8, <1>9, <1>10

LEMMA AddServerGroupKeeps ==
  ASSUME ListInd, NEW c \in Commands, AddServerGroup(c)
  PROVE  ListInd'
<1> USE ListAssumption DEF ListInd
<1>1. /\ commands[c] # None /\ commands[c].at = "prompt" /\ commands[c].op = "addGroup"
      /\ Goes(c, "saving") /\ UNCHANGED <<servers, cached, toldList>>
      /\ groups' = groups \union {[id |-> FreshGroup, name |-> commands[c].to]}
  BY DEF AddServerGroup, Confirmed, Saves
<1> DEFINE new == [id |-> FreshGroup, name |-> commands[c].to]
<1>2. commands[c] \in Command /\ commands \in [Commands -> Command \union {None}]
  BY <1>1 DEF ListTypeOK
<1>3. /\ IsFiniteSet(servers) /\ Cardinality(servers) \in Nat
      /\ IsFiniteSet(groups) /\ Cardinality(groups) \in Nat
  BY FS_CardinalityType DEF ListHasRoom
<1>4. /\ commands' \in [Commands -> Command \union {None}]
      /\ CommandsFit'
      /\ AddingServer' \subseteq AddingServer /\ AddingAGroup' \subseteq AddingAGroup
      /\ \A d \in Commands \ {c} : commands'[d] = commands[d]
  BY <1>1, CallMoves
<1>5. commands'[c] # None /\ commands'[c].at = "saving"
  <2>1. commands'[c] = [commands[c] EXCEPT !.at = "saving"]
    BY <1>1, <1>2 DEF Goes
  <2>2. commands'[c] \in Command /\ commands'[c].at = "saving"
    BY <1>2, <2>1 DEF Command
  <2> QED
    BY <2>2, CommandAssumption
<1>6. c \in AddingAGroup
  BY <1>1 DEF AddingAGroup
<1>7. new \in GroupRecord
  <2>1. FreshGroup \in GroupIds
    BY <1>6, GroupsGetIds
  <2>2. commands[c].to \in Names
    BY <1>1, <1>2 DEF Command, CommandsFit
  <2> QED
    BY <2>1, <2>2 DEF GroupRecord
<1>8. ListTypeOK'
  BY <1>1, <1>4, <1>7 DEF ListTypeOK
<1>9. ListHasRoom'
  <2>1. IsFiniteSet(groups') /\ Cardinality(groups') <= Cardinality(groups) + 1
    <3>1. IsFiniteSet(groups \union {new})
          /\ Cardinality(groups \union {new}) =
                IF new \in groups THEN Cardinality(groups) ELSE Cardinality(groups) + 1
      BY <1>3, FS_AddElement
    <3>2. Cardinality(groups \union {new}) <= Cardinality(groups) + 1
      BY <1>3, <3>1
    <3> QED
      BY <1>1, <3>1, <3>2
  <2>2. AddingAGroup' \subseteq AddingAGroup \ {c}
    BY <1>4, <1>5 DEF AddingAGroup
  <2>3. IsFiniteSet(AddingAGroup) /\ Cardinality(AddingAGroup) \in Nat
    BY CommandsAreCounted, FS_Subset, FS_CardinalityType DEF AddingAGroup
  <2>4. /\ IsFiniteSet(AddingAGroup \ {c})
        /\ Cardinality(AddingAGroup \ {c}) = Cardinality(AddingAGroup) - 1
    BY <1>6, <2>3, FS_RemoveElement
  <2>5. IsFiniteSet(AddingAGroup') /\ Cardinality(AddingAGroup') <= Cardinality(AddingAGroup \ {c})
    BY <2>2, <2>4, FS_Subset
  <2>6. Cardinality(AddingAGroup') \in Nat /\ Cardinality(groups') \in Nat
    BY <2>1, <2>5, FS_CardinalityType
  <2>7. /\ Cardinality(groups) + Cardinality(AddingAGroup) <= MaxGroups
        /\ Cardinality(servers) + Cardinality(AddingServer) <= MaxServers
    BY DEF ListHasRoom
  <2>8. IsFiniteSet(AddingServer) /\ Cardinality(AddingServer) \in Nat
    BY CommandsAreCounted, FS_Subset, FS_CardinalityType DEF AddingServer
  <2>9. IsFiniteSet(AddingServer') /\ Cardinality(AddingServer') <= Cardinality(AddingServer)
    BY <1>4, <2>8, FS_Subset
  <2>10. Cardinality(AddingServer') \in Nat
    BY <2>9, FS_CardinalityType
  <2> HIDE DEF AddingServer, AddingAGroup
  <2>11. Cardinality(groups') + Cardinality(AddingAGroup') <= MaxGroups
    BY <1>3, <2>1, <2>3, <2>4, <2>5, <2>6, <2>7
  <2>12. Cardinality(servers) + Cardinality(AddingServer') <= MaxServers
    BY <1>3, <2>7, <2>8, <2>9, <2>10
  <2> QED
    BY <1>1, <1>3, <2>1, <2>11, <2>12 DEF ListHasRoom
<1>10. ToldWhenSaved'
  BY <1>4, <1>5, ToldIsKept DEF InSaving
<1> QED
  BY <1>4, <1>8, <1>9, <1>10

LEMMA EditServerKeeps ==
  ASSUME ListInd, NEW c \in Commands, EditServer(c)
  PROVE  ListInd'
<1> USE ListAssumption DEF ListInd
<1> DEFINE old == commands[c].cluster
           new == commands[c].new
           f == [s \in servers |-> IF s.id = commands[c].held THEN [s EXCEPT !.cluster = new] ELSE s]
<1>1. /\ commands[c] # None /\ commands[c].at = "rehost" /\ commands[c].op = "edit"
      /\ UNCHANGED <<groups, toldList>>
  BY DEF EditServer, CommandsFit
<1>2. commands[c] \in Command /\ commands \in [Commands -> Command \union {None}]
  BY <1>1 DEF ListTypeOK
<1>3. old \in Clusters /\ new \in Clusters
  BY <1>1, <1>2 DEF Command, CommandsFit
<1>4. /\ \A d \in Commands \ {c} : commands'[d] = commands[d]
      /\ commands' \in [Commands -> Command \union {None}]
      /\ commands'[c] \in Command
      /\ commands'[c].op = "edit" /\ commands'[c].at = "saving" /\ commands'[c].held = None
      /\ commands'[c].cluster = old /\ commands'[c].new = new
  <2> DEFINE edited == [commands[c] EXCEPT !.at = "saving", !.held = None]
  <2>1. commands' = [commands EXCEPT ![c] = edited]
    BY <1>2 DEF EditServer
  <2>2. /\ edited \in Command /\ edited.op = "edit" /\ edited.at = "saving" /\ edited.held = None
        /\ edited.cluster = old /\ edited.new = new
    BY <1>1, <1>2 DEF Command
  <2> HIDE DEF edited
  <2>3. commands'[c] = edited
    BY <1>2, <2>1
  <2>4. commands' \in [Commands -> Command \union {None}]
    BY <1>2, <2>1, <2>2
  <2>5. \A d \in Commands \ {c} : commands'[d] = commands[d]
    BY <1>2, <2>1
  <2> QED
    BY <2>2, <2>3, <2>4, <2>5 DEF edited
<1>5. CommandsFit'
  <2>1. old # None /\ new # None
    BY <1>3
  <2> HIDE DEF old, new
  <2> QED
    BY <1>4, <2>1 DEF CommandsFit
<1>6. AddingServer' \subseteq AddingServer /\ AddingAGroup' \subseteq AddingAGroup
  BY <1>4 DEF AddingServer, AddingAGroup
<1>7. servers' = {f[s] : s \in servers}
  BY DEF EditServer
<1>8. servers' \subseteq ServerRecord
  BY <1>3, <1>7 DEF ListTypeOK, ServerRecord
<1>9. cached' \in [Clusters -> Nat]
  <2>1. cached \in [Clusters -> Nat]
    BY DEF ListTypeOK
  <2>2. CASE UNCHANGED cached
    BY <2>1, <2>2
  <2>3. CASE old # new /\ cached[old] > 0
             /\ cached' = [cached EXCEPT ![old] = @ - 1, ![new] = @ + 1]
    <3>1. cached[old] - 1 \in Nat /\ cached[new] + 1 \in Nat
      BY <1>3, <2>1, <2>3
    <3> QED
      BY <1>3, <2>1, <2>3, <3>1
  <2> QED
    BY <2>2, <2>3 DEF EditServer
<1>10. ListTypeOK'
  BY <1>1, <1>4, <1>8, <1>9 DEF ListTypeOK
<1>11. ListHasRoom'
  <2>1. IsFiniteSet(servers) /\ IsFiniteSet(groups) /\ Cardinality(groups) \in Nat
    BY FS_CardinalityType DEF ListHasRoom
  <2>2. IsFiniteSet(servers') /\ Cardinality(servers') <= Cardinality(servers)
    <3> HIDE DEF f
    <3> QED
      BY <1>7, <2>1, ImageIsFinite
  <2> QED
    BY <1>1, <1>6, <2>1, <2>2, RoomIsKept
<1>12. ToldWhenSaved'
  <2>1. InSaving(c)'
    BY <1>4, CommandAssumption DEF InSaving
  <2> QED
    BY <1>4, <2>1, ToldIsKept
<1> QED
  BY <1>5, <1>10, <1>11, <1>12

LEMMA RemovalsKeep ==
  ASSUME ListInd, NEW c \in Commands, RemoveServer(c) \/ RemoveServerGroup(c)
  PROVE  ListInd'
<1> USE DEF ListInd
<1>1. commands[c] # None /\ commands[c].at = "prompt" /\ Saves(c)
  BY DEF RemoveServer, RemoveServerGroup, Confirmed
<1>2. servers' \subseteq servers /\ groups' \subseteq groups
  BY DEF RemoveServer, RemoveServerGroup
<1>3. cached' \in [Clusters -> Nat]
  BY DEF RemoveServer, RemoveServerGroup, ListTypeOK
<1>4. /\ IsFiniteSet(servers') /\ Cardinality(servers') <= Cardinality(servers)
      /\ IsFiniteSet(groups') /\ Cardinality(groups') <= Cardinality(groups)
  BY <1>2, FS_Subset DEF ListHasRoom
<1>5. servers' \subseteq ServerRecord /\ groups' \subseteq GroupRecord
  BY <1>2 DEF ListTypeOK
<1> QED
  BY <1>1, <1>3, <1>4, <1>5, ListsChange

\* A move takes at least one server from where it was before it puts one elsewhere.
LEMMA MoveServerKeeps ==
  ASSUME ListInd, NEW c \in Commands, MoveServer(c)
  PROVE  ListInd'
<1> USE DEF ListInd
<1> DEFINE k == commands[c].cluster
           sources == {p \in Places(commands[c].from) : At(p, k) # {}}
           targets == Places(commands[c].to)
           copy == NewServer(k, CHOOSE q \in targets : TRUE)
<1>1. /\ commands[c] # None /\ commands[c].at = "prompt" /\ commands[c].op = "move"
      /\ UNCHANGED <<groups, cached>>
  BY DEF MoveServer, Confirmed
<1>2. IsFiniteSet(servers) /\ IsFiniteSet(groups) /\ cached \in [Clusters -> Nat]
  BY DEF ListHasRoom, ListTypeOK
<1>3. Cardinality(servers) \in Nat /\ Cardinality(groups) \in Nat
  BY <1>2, FS_CardinalityType
<1>4. CASE Returns(c) /\ UNCHANGED <<servers, toldList>>
  BY <1>1, <1>4, ListsStay DEF InSaving
<1>5. ASSUME Saves(c), NEW p \in sources,
             servers' = (servers \ At(p, k)) \union (IF targets = {} THEN {} ELSE {copy})
      PROVE  ListInd'
  <2> DEFINE kept == servers \ At(p, k)
  <2>1. PICK s \in servers : s \in At(p, k)
    BY <1>5 DEF At
  <2>2. IsFiniteSet(kept) /\ Cardinality(kept) <= Cardinality(servers) - 1
    <3>1. /\ IsFiniteSet(servers \ {s}) /\ Cardinality(servers \ {s}) = Cardinality(servers) - 1
      BY <1>2, <2>1, FS_RemoveElement
    <3>2. kept \subseteq servers \ {s}
      BY <2>1
    <3>3. IsFiniteSet(kept) /\ Cardinality(kept) <= Cardinality(servers \ {s})
      BY <3>1, <3>2, FS_Subset
    <3> QED
      BY <3>1, <3>3
  <2>3. Cardinality(kept) \in Nat
    BY <2>2, FS_CardinalityType
  <2>4. CASE targets = {}
    <3>1. servers' = kept
      BY <1>5, <2>4
    <3> HIDE DEF kept
    <3>2. Cardinality(kept) <= Cardinality(servers)
      BY <1>3, <2>2, <2>3
    <3>3. servers' \subseteq ServerRecord
      BY <3>1 DEF kept, ListTypeOK
    <3>4. groups' \subseteq GroupRecord /\ Cardinality(groups') <= Cardinality(groups)
      BY <1>1, <1>3 DEF ListTypeOK
    <3> QED
      BY <1>1, <1>2, <1>5, <2>2, <3>1, <3>2, <3>3, <3>4, ListsChange
  <2>5. CASE targets # {}
    <3>1. servers' = kept \union {copy}
      BY <1>5, <2>5
    <3>2. copy \in ServerRecord
      <4>1. FreshServer \in ServerIds
        BY <1>1, ServersGetIds
      <4>2. (CHOOSE q \in targets : TRUE) \in targets
        BY <2>5
      <4>3. targets \subseteq GroupIds \union {Root}
        BY DEF Places, ListTypeOK, GroupRecord
      <4>4. k \in Clusters
        BY <1>1 DEF ListTypeOK, CommandsFit, Command
      <4> QED
        BY <4>1, <4>2, <4>3, <4>4 DEF NewServer, ServerRecord
    <3>3. servers' \subseteq ServerRecord
      BY <3>1, <3>2 DEF ListTypeOK
    <3> HIDE DEF kept, copy
    <3>4. /\ IsFiniteSet(kept \union {copy})
          /\ Cardinality(kept \union {copy}) =
                IF copy \in kept THEN Cardinality(kept) ELSE Cardinality(kept) + 1
      BY <2>2, FS_AddElement
    <3>5. Cardinality(kept \union {copy}) <= Cardinality(kept) + 1
      BY <2>3, <3>4
    <3>6. Cardinality(kept \union {copy}) \in Nat
      BY <3>4, FS_CardinalityType
    <3>7. Cardinality(kept \union {copy}) <= Cardinality(servers)
      BY <1>3, <2>2, <2>3, <3>5, <3>6
    <3>8. groups' \subseteq GroupRecord /\ Cardinality(groups') <= Cardinality(groups)
      BY <1>1, <1>3 DEF ListTypeOK
    <3> QED
      BY <1>1, <1>2, <1>5, <3>1, <3>3, <3>4, <3>7, <3>8, ListsChange
  <2> QED
    BY <2>4, <2>5
<1> QED
  <2>1. IF sources = {} THEN Returns(c) /\ UNCHANGED <<servers, toldList>>
        ELSE /\ \E p \in sources :
                  servers' = (servers \ At(p, k)) \union (IF targets = {} THEN {} ELSE {copy})
             /\ Saves(c)
    BY DEF MoveServer
  <2> HIDE DEF sources, targets, copy, k
  <2> QED
    BY <1>4, <1>5, <2>1

LEMMA RenamesKeep ==
  ASSUME ListInd, NEW c \in Commands, RenameServer(c) \/ RenameServerGroup(c)
  PROVE  ListInd'
<1> USE DEF ListInd
<1>1. commands[c] # None /\ commands[c].at = "prompt" /\ UNCHANGED <<servers, cached>>
  BY DEF RenameServer, RenameServerGroup, Confirmed
<1>2. IsFiniteSet(servers) /\ IsFiniteSet(groups) /\ cached \in [Clusters -> Nat]
  BY DEF ListHasRoom, ListTypeOK
<1>3. Cardinality(servers) \in Nat /\ Cardinality(groups) \in Nat
  BY <1>2, FS_CardinalityType
<1>4. CASE Returns(c) /\ UNCHANGED <<groups, toldList>>
  BY <1>1, <1>4, ListsStay DEF InSaving
<1>5. CASE Saves(c) /\ UNCHANGED groups
  <2>1. Cardinality(servers') <= Cardinality(servers) /\ Cardinality(groups') <= Cardinality(groups)
    BY <1>1, <1>3, <1>5
  <2>2. servers' \subseteq ServerRecord /\ groups' \subseteq GroupRecord
    BY <1>1, <1>5 DEF ListTypeOK
  <2> QED
    BY <1>1, <1>2, <1>5, <2>1, <2>2, ListsChange
<1>6. ASSUME RenameServerGroup(c), Saves(c), NEW p,
             groups' = {IF g.id = p THEN [g EXCEPT !.name = commands[c].to] ELSE g : g \in groups}
      PROVE  ListInd'
  <2> DEFINE f == [g \in groups |-> IF g.id = p THEN [g EXCEPT !.name = commands[c].to] ELSE g]
  <2>1. groups' = {f[g] : g \in groups}
    BY <1>6
  <2>2. commands[c].to \in Names
    BY <1>1, <1>6 DEF RenameServerGroup, Confirmed, CommandsFit, ListTypeOK, Command
  <2>3. groups' \subseteq GroupRecord
    BY <2>1, <2>2 DEF ListTypeOK, GroupRecord
  <2>4. IsFiniteSet(groups') /\ Cardinality(groups') <= Cardinality(groups)
    <3> HIDE DEF f
    <3> QED
      BY <1>2, <2>1, ImageIsFinite
  <2>5. servers' \subseteq ServerRecord /\ Cardinality(servers') <= Cardinality(servers)
    BY <1>1, <1>3 DEF ListTypeOK
  <2> QED
    BY <1>1, <1>2, <1>6, <2>3, <2>4, <2>5, ListsChange
<1>7. CASE RenameServer(c)
  BY <1>4, <1>5, <1>7 DEF RenameServer
<1>8. CASE RenameServerGroup(c)
  BY <1>4, <1>6, <1>8 DEF RenameServerGroup
<1> QED
  BY <1>7, <1>8

LEMMA FindEditedKeeps ==
  ASSUME ListInd, NEW c \in Commands, FindEdited(c)
  PROVE  ListInd'
<1> USE DEF ListInd
<1>1. /\ commands[c] # None /\ commands[c].at = "kind" /\ commands[c].op = "edit"
      /\ UNCHANGED <<servers, groups, cached, toldList>>
  BY DEF FindEdited
<1>2. CASE Returns(c)
  BY <1>1, <1>2, ListsStay DEF InSaving
<1>3. ASSUME NEW s \in servers,
             commands' = [commands EXCEPT ![c].held = s.id, ![c].at = "rehost"]
      PROVE  ListInd'
  <2> DEFINE finding == [commands[c] EXCEPT !.held = s.id, !.at = "rehost"]
  <2>1. commands[c] \in Command /\ commands \in [Commands -> Command \union {None}]
    BY <1>1 DEF ListTypeOK
  <2>2. commands' = [commands EXCEPT ![c] = finding]
    BY <1>3, <2>1
  <2>3. finding \in Command
    BY <2>1 DEF Command, ListTypeOK, ServerRecord
  <2>4. /\ finding.op = "edit" /\ finding.at = "rehost"
        /\ finding.cluster = commands[c].cluster /\ finding.new = commands[c].new
    BY <1>1, <2>1 DEF Command
  <2> HIDE DEF finding
  <2>5. /\ commands' \in [Commands -> Command \union {None}] /\ commands'[c] = finding
        /\ \A d \in Commands \ {c} : commands'[d] = commands[d]
    BY <2>1, <2>2, <2>3
  <2>6. CommandsFit'
    BY <1>1, <2>4, <2>5 DEF CommandsFit
  <2>7. AddingServer' \subseteq AddingServer /\ AddingAGroup' \subseteq AddingAGroup
    BY <2>4, <2>5 DEF AddingServer, AddingAGroup
  <2>8. ListHasRoom'
    <3>1. IsFiniteSet(servers) /\ IsFiniteSet(groups)
      BY DEF ListHasRoom
    <3>2. Cardinality(servers') <= Cardinality(servers) /\ Cardinality(groups') <= Cardinality(groups)
      BY <1>1, <3>1, FS_CardinalityType
    <3> QED
      BY <1>1, <2>7, <3>1, <3>2, RoomIsKept
  <2>9. ListTypeOK'
    BY <1>1, <2>5 DEF ListTypeOK
  <2>10. ToldWhenSaved'
    BY <1>1, <2>5, ToldIsKept DEF InSaving
  <2> QED
    BY <2>6, <2>8, <2>9, <2>10
<1> QED
  <2>1. UNION {At(p, commands[c].cluster) : p \in Places(commands[c].from)} \subseteq servers
    BY DEF At
  <2> QED
    BY <1>2, <1>3, <2>1 DEF FindEdited

LEMMA EnsureClusterConnectionKeeps ==
  ASSUME ListInd, NEW k \in Clusters, EnsureClusterConnection(k)
  PROVE  ListInd'
<1> USE DEF ListInd
<1>1. UNCHANGED <<servers, groups, toldList, commands>>
  BY DEF EnsureClusterConnection
<1>2. ListTypeOK'
  BY DEF EnsureClusterConnection, ListTypeOK
<1>3. ListHasRoom'
  BY <1>1 DEF ListHasRoom, AddingServer, AddingAGroup
<1>4. CommandsFit'
  BY <1>1 DEF CommandsFit
<1>5. ToldWhenSaved'
  BY <1>1 DEF ToldWhenSaved, InSaving, getConfiguredConnections
<1> QED
  BY <1>2, <1>3, <1>4, <1>5

LEMMA ListIndNext == ListInd /\ [ListNext]_listVars => ListInd'
<1> SUFFICES ASSUME ListInd, [ListNext]_listVars
             PROVE  ListInd'
  OBVIOUS
<1>1. CASE UNCHANGED listVars
  BY <1>1 DEF listVars, ListInd, ListTypeOK, ListHasRoom, CommandsFit, ToldWhenSaved,
              AddingServer, AddingAGroup, InSaving, getConfiguredConnections
<1>2. ASSUME NEW c \in Commands, Asks(c) PROVE ListInd'
  BY <1>2, AsksKeeps
<1>3. ASSUME NEW c \in Commands, HostKnown(c) PROVE ListInd'
  BY <1>3, ListsStay DEF HostKnown, InSaving
<1>4. ASSUME NEW c \in Commands, AddServer(c) PROVE ListInd'
  BY <1>4, AddServerKeeps
<1>5. ASSUME NEW c \in Commands, FindEdited(c) PROVE ListInd'
  BY <1>5, FindEditedKeeps
<1>6. ASSUME NEW c \in Commands, EditServer(c) PROVE ListInd'
  BY <1>6, EditServerKeeps
<1>7. ASSUME NEW c \in Commands, AddServerGroup(c) PROVE ListInd'
  BY <1>7, AddServerGroupKeeps
<1>8. ASSUME NEW c \in Commands, RemoveServer(c) \/ RemoveServerGroup(c) PROVE ListInd'
  BY <1>8, RemovalsKeep
<1>9. ASSUME NEW c \in Commands, MoveServer(c) PROVE ListInd'
  BY <1>9, MoveServerKeeps
<1>10. ASSUME NEW c \in Commands, RenameServer(c) \/ RenameServerGroup(c) PROVE ListInd'
  BY <1>10, RenamesKeep
<1>11. ASSUME NEW c \in Commands, Dismissed(c) PROVE ListInd'
  BY <1>11, ListsStay DEF Dismissed, InSaving
<1>12. ASSUME NEW c \in Commands, Saved(c) PROVE ListInd'
  BY <1>12, ListsStay DEF Saved
<1>13. ASSUME NEW k \in Clusters, EnsureClusterConnection(k) PROVE ListInd'
  BY <1>13, EnsureClusterConnectionKeeps
<1> QED
  BY <1>1, <1>2, <1>3, <1>4, <1>5, <1>6, <1>7, <1>8, <1>9, <1>10, <1>11, <1>12, <1>13
     DEF ListNext, ListHandles
-----------------------------------------------------------------------------
\* The list of servers keeps its form, and whenever no call is storing it the
\* language server has been told of exactly the servers listed: every operation
\* of ConnectionManager that changes the list ends in saveServersAndGroups, which
\* sends the list as it is after its await.
THEOREM ServersAreTold == ListSpec => []ListIsTold
<1>1. ListInd => ListIsTold
  BY DEF ListInd, ListIsTold
<1> QED
  BY <1>1, ListIndInit, ListIndNext, PTL DEF ListSpec

\* ensureServer never ends, nor gets to store the list, without the cluster in it:
\* the lookup after getHostName finds a server or the addition after
\* fetchServerKind makes one, whatever other calls did meanwhile.
THEOREM EnsuredServersAreListed == ListSpec => EnsureLists
<1>1. ListInd /\ [ListNext]_listVars =>
        [\A c \in Commands :
          (/\ commands[c] # None /\ commands[c].op = "ensure"
           /\ commands[c].at \in {"host", "kind"}
           /\ commands'[c] = None \/ commands'[c].at = "saving")
          => \E s \in servers' : s.cluster = commands[c].cluster]_listVars
  <2> SUFFICES ASSUME ListInd, ListNext, NEW c \in Commands,
                      commands[c] # None, commands[c].op = "ensure",
                      commands[c].at \in {"host", "kind"},
                      commands'[c] = None \/ commands'[c].at = "saving"
               PROVE  \E s \in servers' : s.cluster = commands[c].cluster
    OBVIOUS
  <2> USE DEF ListInd
  <2>1. commands[c] \in Command /\ commands \in [Commands -> Command \union {None}]
    BY DEF ListTypeOK
  <2>2. commands[c].to = Root
    BY DEF CommandsFit
  <2>3. commands'[c] # commands[c]
    BY <2>1
  <2>4. CASE HostKnown(c)
    <3>1. CASE Returns(c)
      <4>1. ~Goes(c, "kind")
        BY <2>1, <3>1, CommandAssumption DEF Returns, Goes, Command
      <4> QED
        BY <2>4, <4>1 DEF HostKnown, findServerInfo
    <3>2. CASE Goes(c, "kind")
      <4>1. commands'[c] = [commands[c] EXCEPT !.at = "kind"]
        BY <2>1, <3>2 DEF Goes
      <4>2. commands'[c] \in Command /\ commands'[c].at = "kind"
        BY <2>1, <4>1 DEF Command
      <4> QED
        BY <4>2, CommandAssumption
    <3> QED
      BY <2>4, <3>1, <3>2 DEF HostKnown
  <2>5. CASE AddServer(c)
    <3>1. Places(commands[c].to) = {Root}
      BY <2>2 DEF Places
    <3>2. servers' = servers \union {NewServer(commands[c].cluster, Root)}
      BY <2>5, <3>1 DEF AddServer
    <3>3. NewServer(commands[c].cluster, Root).cluster = commands[c].cluster
      BY DEF NewServer
    <3> QED
      BY <3>2, <3>3
  <2>6. ASSUME NEW d \in Commands, d # c, Asks(d) \/ ListHandles(d) \/ Dismissed(d)
        PROVE  commands'[c] = commands[c]
    <3>1. CASE Asks(d)
      BY <2>1, <2>6, <3>1 DEF Asks
    <3>2. CASE ListHandles(d) \/ Dismissed(d)
      BY <2>1, <2>6, <3>2
         DEF ListHandles, HostKnown, AddServer, FindEdited, EditServer, AddServerGroup,
             RemoveServer, RemoveServerGroup, MoveServer, RenameServer, RenameServerGroup,
             Saved, Dismissed, Goes, Returns, Saves
    <3> QED
      BY <2>6, <3>1, <3>2
  <2>7. ~(\E k \in Clusters : EnsureClusterConnection(k))
    BY <2>3 DEF EnsureClusterConnection
  <2>8. Asks(c) \/ ListHandles(c) \/ Dismissed(c)
    BY <2>3, <2>6, <2>7 DEF ListNext
  <2> QED
    BY <2>4, <2>5, <2>8
       DEF Asks, ListHandles, FindEdited, EditServer, AddServerGroup, RemoveServer, Confirmed,
           RemoveServerGroup, MoveServer, RenameServer, RenameServerGroup, Saved, Dismissed
<1> QED
  BY <1>1, ListIndInit, ListIndNext, PTL DEF ListSpec, EnsureLists

==============================================================================
