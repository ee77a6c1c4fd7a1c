------------------------------ MODULE SchemaTree ------------------------------
(***************************************************************************)
(* The databases of a cluster in the connections tree: what                *)
(* ConnectionManager caches of them, how it is filled and refreshed, and   *)
(* the tree items KustoConnectionsProvider makes of it.                    *)
(*                                                                         *)
(* Concurrency.  One extension host; a request is answered by the language *)
(* server some time before its answer is handled, and requests overlap.    *)
(*                                                                         *)
(* Abstractions.  One cluster.  A schema is known by its version, with the *)
(* entities Schemas names; those of a kind with folders are "tables", those *)
(* without are "graphModels".  The language server keeps what it loaded    *)
(* until a refresh.  Sorting, labels, icons and columns are left out.      *)
(***************************************************************************)
EXTENDS Client, Integers, SequencesExt

CONSTANTS
    Databases,
    Groups, Top,    \* groups of the server list, and the list itself
    Schemas,        \* the entities a database has at each version: records of a
                    \* type, a name, and a folder given as its segments and by
                    \* whether backslashes separate them
    Requests        \* requests under way at one time

ASSUME SchemaAssumption == None \notin Databases \union Requests /\ Top \notin Groups

Entity == [type: STRING, name: STRING, folder: Seq(STRING), backslash: BOOLEAN]

\* Bound: folders in folders that Items (below) descends into.
MaxDepth == 3

ASSUME SchemasAssumption ==
    /\ Schemas \in Seq(SUBSET Entity) /\ Schemas # <<>>
    /\ \A v \in DOMAIN Schemas : \A e \in Schemas[v] : Len(e.folder) <= MaxDepth
    /\ None \notin Nat

VARIABLES
    places,         \* where the cluster is listed: Top, groups
    service,        \* version of each database's schema in Kusto
    loaded,         \* that the language server has loaded, if any
    known,          \* clusterConnections has databases of the cluster
    cachedInfo,     \* those it has: the version of their info, None for the name only
    requests,       \* under way: what was asked, and the answer once there is one
    atLeast,        \* history: version of each database when it was last refreshed
    overtaken,      \* history: databases refreshed while an older answer was under way
    partial         \* history: an info was cached while the databases were not

schemaVars == <<places, service, loaded, known, cachedInfo, requests, atLeast, overtaken, partial>>

LastVersion == Len(Schemas)
Versions == 1 .. LastVersion
Listed == DOMAIN cachedInfo
Request == [op: {"databases", "info", "refreshAll", "refresh"}, db: Databases \union {None},
            at: {"asked", "answered"}, version: Versions \union {None}]

ASSUME RequestAssumption == None \notin Request

SchemaTypeOK ==
    /\ places \subseteq Groups \union {Top} /\ places # {}
    /\ service \in [Databases -> Versions] /\ loaded \in [Databases -> Versions \union {None}]
    /\ known \in BOOLEAN /\ Listed \subseteq Databases
    /\ cachedInfo \in [Listed -> Versions \union {None}] /\ (Listed # {} => known)
    /\ requests \in [Requests -> Request \union {None}]
    /\ atLeast \in [Databases -> Versions] /\ overtaken \subseteq Databases /\ partial \in BOOLEAN
    /\ \A d \in Databases : loaded[d] # None => loaded[d] <= service[d]

SchemaInit ==
    /\ places \in (SUBSET (Groups \union {Top})) \ {{}}
    /\ service = [d \in Databases |-> 1] /\ loaded = [d \in Databases |-> None]
    /\ known = FALSE /\ cachedInfo = <<>>
    /\ requests = [r \in Requests |-> None]
    /\ atLeast = service /\ overtaken = {} /\ partial = FALSE

schemaHistory == <<atLeast, overtaken, partial>>
schemaCache == <<known, cachedInfo>>
-----------------------------------------------------------------------------
Ask(r, op, d) ==
    /\ requests[r] = None
    /\ requests' = [requests EXCEPT ![r] = [op |-> op, db |-> d, at |-> "asked", version |-> None]]
    /\ UNCHANGED <<places, service, loaded, schemaCache, schemaHistory>>

\* onDidExpandElement of the server's item, and findTreeItem: fetchDatabasesForCluster.
Expand(r) == Ask(r, "databases", None)

\* getDatabaseSchema, of the tree's items and Copilot: only what is not cached.
GetSchema(r, d) ==
    /\ d \in Listed => cachedInfo[d] = None
    /\ Ask(r, "info", d)

RefreshCluster(r) == Ask(r, "refreshAll", None)
RefreshDatabase(r, d) == Ask(r, "refresh", d)

\* Databases whose infos the server forgets in answer to q.
Forgets(q) == CASE q.op = "refresh" -> {q.db} [] q.op = "refreshAll" -> Databases [] OTHER -> {}

\* Infos answered before the refresh and not yet handled hold older schemas.
Overtakes(ds) ==
    /\ atLeast' = [d \in Databases |-> IF d \in ds THEN service[d] ELSE atLeast[d]]
    /\ overtaken' = (overtaken \ ds) \union
            {d \in ds : \E q \in Requests : requests[q] # None /\ requests[q].op = "info"
                            /\ requests[q].db = d /\ requests[q].at = "answered"}

\* The language server (external) answers from what it has loaded, and forgets it
\* when asked to refresh.
ServerAnswers(r) ==
    /\ requests[r] # None /\ requests[r].at = "asked"
    /\ LET q == requests[r]
           v == IF q.op # "info" THEN None
                ELSE IF loaded[q.db] = None THEN service[q.db] ELSE loaded[q.db] IN
       /\ requests' = [requests EXCEPT ![r].at = "answered", ![r].version = v]
       /\ loaded' = [d \in Databases |-> IF d \in Forgets(q) THEN None
                                          ELSE IF q.op = "info" /\ q.db = d THEN v ELSE loaded[d]]
       /\ Overtakes(Forgets(q))
    /\ UNCHANGED <<places, service, schemaCache, partial>>

ServiceChanges(d) ==
    /\ service[d] < LastVersion /\ service' = [service EXCEPT ![d] = @ + 1]
    /\ UNCHANGED <<places, loaded, schemaCache, requests, schemaHistory>>

Answered(r, op) == requests[r] # None /\ requests[r].op = op /\ requests[r].at = "answered"
Done(r) == requests' = [requests EXCEPT ![r] = None]

\* setClusterDatabases with the names; none when the request failed, which
\* getDatabasesForCluster hides.
SetDatabases(r) ==
    /\ Answered(r, "databases") /\ Done(r)
    /\ \E names \in {Databases, {}} : cachedInfo' = [d \in names |-> None]
    /\ known' = TRUE
    /\ UNCHANGED <<places, service, loaded, schemaHistory>>

\* setDatabaseInfo: a database not listed is added, whatever else is.
SetInfo(r) ==
    /\ Answered(r, "info") /\ Done(r)
    /\ LET d == requests[r].db IN
       /\ cachedInfo' = [x \in Listed \union {d} |-> IF x = d THEN requests[r].version ELSE cachedInfo[x]]
       /\ partial' = (partial \/ d \notin Listed)
    /\ known' = TRUE
    /\ UNCHANGED <<places, service, loaded, atLeast, overtaken>>

\* Fault: the info of a refreshed database stays until the tree is collapsed.
KeepsInfo(d) == cachedInfo

\* Its name only is kept.
ForgetsInfo(d) == [cachedInfo EXCEPT ![d] = None]

\* refreshClusterSchema once the server has answered.
ClearCluster(r) ==
    /\ Answered(r, "refreshAll") /\ Done(r)
    /\ cachedInfo' = <<>>
    /\ UNCHANGED <<places, service, loaded, known, schemaHistory>>

\* refreshDatabaseSchema once the server has answered.
ClearDatabase(r) ==
    /\ Answered(r, "refresh") /\ Done(r)
    /\ LET d == requests[r].db IN
       cachedInfo' = IF d \in Listed THEN ForgetsInfo(d) ELSE cachedInfo
    /\ UNCHANGED <<places, service, loaded, known, schemaHistory>>

\* A request fails before the server acts on it, or finds nothing.
Fails(r) ==
    /\ requests[r] # None /\ requests[r].op # "databases" /\ requests[r].at = "asked" /\ Done(r)
    /\ UNCHANGED <<places, service, loaded, schemaCache, schemaHistory>>

SchemaNext ==
    \/ \E r \in Requests :
        \/ Expand(r) \/ RefreshCluster(r)
        \/ \E d \in Databases : GetSchema(r, d) \/ RefreshDatabase(r, d)
        \/ ServerAnswers(r) \/ SetDatabases(r) \/ SetInfo(r)
        \/ ClearCluster(r) \/ ClearDatabase(r) \/ Fails(r)
    \/ \E d \in Databases : ServiceChanges(d)

SchemaSpec == SchemaInit /\ [][SchemaNext]_schemaVars
-----------------------------------------------------------------------------
(* The tree.  An item has the fields its id is made of. *)

Flat == "graphModels"

RootItem == <<"root">>
GroupItem(g) == <<"group", g>>
ServerItem == <<"server">>
DatabaseItem(d) == <<"database", d>>
FolderItem(d, type) == <<"folder", d, type>>
EntityFolderItem(d, type, path) == <<"entityFolder", d, type, path>>
EntityItem(d, e) == <<"entity", d, e>>

Info(d) == IF d \in Listed /\ cachedInfo[d] # None THEN Schemas[cachedInfo[d]] ELSE {}
OfType(d, type) == {e \in Info(d) : e.type = type}

\* getEntitiesAndSubfolders, which takes either separator.
Subfolders(entities, path) ==
    {SubSeq(e.folder, 1, Len(path) + 1) :
        e \in {x \in entities : Len(x.folder) > Len(path) /\ IsPrefix(path, x.folder)}}

DirectEntities(entities, path) == {e \in entities : e.folder = path}

\* buildEntityFolderChildren.
EntityFolderChildren(d, type, path) ==
    {EntityFolderItem(d, type, f) : f \in Subfolders(OfType(d, type), path)}
        \union {EntityItem(d, e) : e \in DirectEntities(OfType(d, type), path)}

\* getChildren; that of no item is the root's.
GetChildren(item) ==
    CASE item[1] = "root" -> {GroupItem(g) : g \in Groups} \union (IF Top \in places THEN {ServerItem} ELSE {})
           [] item[1] = "group" -> IF item[2] \in places THEN {ServerItem} ELSE {}
           [] item[1] = "server" -> {DatabaseItem(d) : d \in Listed}
           [] item[1] = "database" -> {FolderItem(item[2], e.type) : e \in Info(item[2])}
           [] item[1] = "folder" ->
                IF item[3] = Flat THEN {EntityItem(item[2], e) : e \in OfType(item[2], Flat)}
                ELSE EntityFolderChildren(item[2], item[3], <<>>)
           [] item[1] = "entityFolder" -> EntityFolderChildren(item[2], item[3], item[4])
           [] OTHER -> {}

ParentFolder(d, type, path) ==
    IF Len(path) > 1 THEN EntityFolderItem(d, type, Front(path)) ELSE FolderItem(d, type)

\* getParent, which takes slashes only.  A cluster in several places is where the
\* list has it first.
GetParents(item) ==
    CASE item[1] = "entity" /\ item[3].type # Flat /\ item[3].folder # <<>> ->
            {EntityFolderItem(item[2], item[3].type,
                IF item[3].backslash THEN <<item[3].folder>> ELSE item[3].folder)}
      [] item[1] = "entity" /\ (item[3].type = Flat \/ item[3].folder = <<>>) ->
            {FolderItem(item[2], item[3].type)}
      [] item[1] = "entityFolder" -> {ParentFolder(item[2], item[3], item[4])}
      [] item[1] = "folder" -> {DatabaseItem(item[2])}
      [] item[1] = "database" -> {ServerItem}
      [] item[1] = "server" -> {IF p = Top THEN RootItem ELSE GroupItem(p) : p \in places}
      [] OTHER -> {RootItem}

Under(items) == UNION {GetChildren(i) : i \in items}
Items == LET l1 == Under({RootItem}) l2 == Under(l1) l3 == Under(l2) l4 == Under(l3)
             l5 == Under(l4) l6 == Under(l5) l7 == Under(l6)
         IN  l1 \union l2 \union l3 \union l4 \union l5 \union l6 \union l7
-----------------------------------------------------------------------------
\* Every item, except an entity whose folder has backslashes, is a child of its
\* parent, which the editor climbs to when an item is revealed.
ParentListsChild ==
    \A i \in Items : (i[1] = "entity" => ~i[3].backslash) =>
        \A p \in GetParents(i) : i \in GetChildren(p)

\* The tree shows the entities of the infos cached, each in one place.
EveryEntityHasOnePlace ==
    \A d \in Listed : \A e \in Info(d) :
        Cardinality({i \in Items : EntityItem(d, e) \in GetChildren(i)}) = 1

Refreshing == UNION {Forgets(requests[r]) : r \in {q \in Requests : requests[q] # None}}

\* "Clears the server-side and client-side caches" (refreshClusterSchema): once a
\* refresh has ended, no schema of before it is shown, unless an answer of before
\* it was still on its way.
RefreshedStaysFresh ==
    \A d \in Listed \ (overtaken \union Refreshing) : cachedInfo[d] # None => cachedInfo[d] >= atLeast[d]

\* A server item lists all databases or none, unless an info came first.
DatabasesAreComplete == ~partial => Listed \in {{}, Databases}

\* The tree of schemas is sound and as fresh as it was asked to be (see the parts above).
TreeIsSound ==
    /\ SchemaTypeOK /\ RefreshedStaysFresh /\ DatabasesAreComplete
    /\ ParentListsChild /\ EveryEntityHasOnePlace
===============================================================================
