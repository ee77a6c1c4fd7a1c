----------------------------- MODULE ServerList -----------------------------
(***************************************************************************)
(* The list of servers and groups: ConnectionManager's operations on it    *)
(* and the prompts of KustoConnectionsProvider that lead to them.          *)
(*                                                                         *)
(* Concurrency.  The extension host is one thread, so an action is the     *)
(* code between two awaits: for the user to answer a prompt, for the       *)
(* language server to decode a connection string ("host") or to name a     *)
(* server's kind ("kind"), for the list to be stored ("saving").  A call   *)
(* acts on what it captured before: a cluster and the name of a group.     *)
(*                                                                         *)
(* Abstractions.  A server is a record of a cluster and the group that     *)
(* holds it; ids stand for object identity, since an edit holds an object  *)
(* across an await.  Display names, kinds and the order of the list are    *)
(* left out: a search by name may return any of several equal matches.     *)
(***************************************************************************)
EXTENDS Client, FiniteSets, Integers, Functions

CONSTANTS
    Clusters,       \* host names
    Names,          \* names of groups
    Commands,       \* calls that may be under way at one time
    Root,           \* the list outside of every group
    MaxServers,     \* bound on the servers listed
    MaxGroups,      \* bound on the groups listed
    MaxCached       \* bound on the records of clusterConnections

ASSUME ListAssumption ==
    /\ MaxServers \in Nat /\ MaxGroups \in Nat /\ MaxCached \in Nat /\ IsFiniteSet(Commands)
    /\ Root \notin Names /\ Root \notin Nat /\ None \notin Nat
    /\ None \notin Clusters \union Names

VARIABLES
    servers,        \* the ServerInfo objects reachable from serversAndGroups
    groups,         \* its ServerGroupInfo objects
    cached,         \* how many records clusterConnections has of each cluster
    toldList,       \* the list last sent to the server, as a bag of clusters
    commands        \* the calls under way: where each is and what it captured

listVars == <<servers, groups, cached, toldList, commands>>

ServerIds == 1 .. MaxServers + Cardinality(Commands)
GroupIds == 1 .. MaxGroups + Cardinality(Commands)
ServerRecord == [id: ServerIds, cluster: Clusters, group: GroupIds \union {Root}]
GroupRecord == [id: GroupIds, name: Names]
Ops == {"ensure", "add", "edit", "addGroup", "remove", "removeGroup", "move",
        "rename", "renameGroup"}
Command == [at: {"prompt", "host", "kind", "rehost", "saving"}, op: Ops,
         cluster: Clusters \union {None}, new: Clusters \union {None},
         from: Names \union {Root}, to: Names \union {Root},
         held: ServerIds \union {None}]

\* None is no call.
ASSUME CommandAssumption == None \notin Command

ListTypeOK ==
    /\ servers \subseteq ServerRecord
    /\ groups \subseteq GroupRecord
    /\ cached \in [Clusters -> Nat]
    /\ toldList \in [Clusters -> Nat]
    /\ commands \in [Commands -> Command \union {None}]

ListInit ==
    /\ servers = {} /\ groups = {}
    /\ cached = [k \in Clusters |-> 0]
    /\ toldList = [k \in Clusters |-> 0]
    /\ commands = [c \in Commands |-> None]
-----------------------------------------------------------------------------
getConfiguredConnections ==
    [k \in Clusters |-> Cardinality({s \in servers : s.cluster = k})]

findServerInfo(k) == {s \in servers : s.cluster = k}

\* What a search by group name may return: the root when no name is given.
Places(n) == IF n = Root THEN {Root} ELSE {g.id : g \in {h \in groups : h.name = n}}
At(p, k) == {s \in servers : s.group = p /\ s.cluster = k}

\* Objects a call still holds keep their identity when they leave the list.
Held == {commands[c].held : c \in {d \in Commands : commands[d] # None}}
FreshServer == CHOOSE i \in ServerIds : i \notin {s.id : s \in servers} \union Held
FreshGroup == CHOOSE i \in GroupIds : i \notin {g.id : g \in groups}
NewServer(k, p) == [id |-> FreshServer, cluster |-> k, group |-> p]

Adding == Cardinality({c \in Commands : commands[c] # None /\ commands[c].op \in {"ensure", "add"}})
AddingGroup == Cardinality({c \in Commands : commands[c] # None /\ commands[c].op = "addGroup"})

Goes(c, at) == commands' = [commands EXCEPT ![c].at = at]
Returns(c) == commands' = [commands EXCEPT ![c] = None]
\* Fault: the list is sent before it is changed and stored.
SavesEarly(c) == Returns(c) /\ toldList' = getConfiguredConnections

\* saveServersAndGroups up to its await; the object stored is the list itself.
Saves(c) == Goes(c, "saving") /\ UNCHANGED toldList
-----------------------------------------------------------------------------
\* A command, a prompt's first wait, or ensureServer called for an import or a
\* document; what it names is in the list at this moment.
Asks(c) ==
    /\ commands[c] = None
    /\ \E op \in Ops, k \in Clusters, new \in Clusters,
          from \in {g.name : g \in groups} \union {Root}, to \in Names \union {Root} :
        /\ op \in {"ensure", "add"} =>
              /\ Cardinality(servers) + Adding < MaxServers
              /\ from = Root
              /\ to \in {g.name : g \in groups} \union {Root}
        /\ op = "ensure" => to = Root
        /\ op = "addGroup" => Cardinality(groups) + AddingGroup < MaxGroups
        /\ op \in {"edit", "remove", "move", "rename"} =>
              \E p \in Places(from) : At(p, k) # {}
        /\ op \in {"removeGroup", "renameGroup"} => from # Root
        /\ op = "move" => to # from /\ to \in {g.name : g \in groups} \union {Root}
        /\ op \in {"addGroup", "renameGroup"} => to # Root /\ to # from
        /\ op \in {"edit", "remove", "removeGroup", "rename"} => to = Root
        /\ op = "addGroup" => from = Root
        /\ commands' = [commands EXCEPT ![c] =
              [op |-> op, from |-> from, to |-> to, held |-> None,
               cluster |-> IF op \in {"addGroup", "removeGroup", "renameGroup"}
                           THEN None ELSE k,
               new |-> IF op = "edit" THEN new ELSE None,
               at |-> IF op \in {"ensure", "add", "edit"} THEN "host" ELSE "prompt"]]
    /\ UNCHANGED <<servers, groups, cached, toldList>>

\* Fault: the cluster is looked up in the schema cache instead of the list.
HostKnownCached(c) ==
    /\ commands[c] # None /\ commands[c].at = "host"
    /\ IF commands[c].op = "ensure" /\ cached[commands[c].cluster] > 0
       THEN Returns(c) ELSE Goes(c, "kind")
    /\ UNCHANGED <<servers, groups, cached, toldList>>

\* getHostName answers: ensureServer looks the cluster up, the prompts go on.
HostKnown(c) ==
    /\ commands[c] # None /\ commands[c].at = "host"
    /\ IF commands[c].op = "ensure" /\ findServerInfo(commands[c].cluster) # {}
       THEN Returns(c) ELSE Goes(c, "kind")
    /\ UNCHANGED <<servers, groups, cached, toldList>>

\* fetchServerKind answers (or fails, which is the same): addServer.  A group
\* that is no longer found gets nothing, and the list is saved all the same.
AddServer(c) ==
    /\ commands[c] # None /\ commands[c].at = "kind" /\ commands[c].op \in {"ensure", "add"}
    /\ IF Places(commands[c].to) = {} THEN UNCHANGED servers
       ELSE \E p \in Places(commands[c].to) :
              servers' = servers \union {NewServer(commands[c].cluster, p)}
    /\ Saves(c)
    /\ UNCHANGED <<groups, cached>>

\* editServer up to its own getHostName: the object found is held.
FindEdited(c) ==
    /\ commands[c] # None /\ commands[c].at = "kind" /\ commands[c].op = "edit"
    /\ LET found == UNION {At(p, commands[c].cluster) : p \in Places(commands[c].from)}
       IN  IF found = {} THEN Returns(c)
           ELSE \E s \in found :
                  commands' = [commands EXCEPT ![c].held = s.id, ![c].at = "rehost"]
    /\ UNCHANGED <<servers, groups, cached, toldList>>

\* The rest of editServer: the held object changes, listed or not, and so does
\* the first cache record of the old cluster.
EditServer(c) ==
    /\ commands[c] # None /\ commands[c].at = "rehost"
    /\ LET old == commands[c].cluster
           new == commands[c].new
       IN  /\ servers' = {IF s.id = commands[c].held THEN [s EXCEPT !.cluster = new] ELSE s
                            : s \in servers}
           /\ cached' = IF old # new /\ cached[old] > 0
                        THEN [cached EXCEPT ![old] = @ - 1, ![new] = @ + 1] ELSE cached
    /\ commands' = [commands EXCEPT ![c].at = "saving", ![c].held = None]
    /\ UNCHANGED <<groups, toldList>>

Confirmed(c, op) == commands[c] # None /\ commands[c].at = "prompt" /\ commands[c].op = op

AddServerGroup(c) ==
    /\ Confirmed(c, "addGroup")
    /\ groups' = groups \union {[id |-> FreshGroup, name |-> commands[c].to]}
    /\ Saves(c)
    /\ UNCHANGED <<servers, cached>>

RemoveServer(c) ==
    /\ Confirmed(c, "remove")
    /\ LET k == commands[c].cluster IN
       /\ IF Places(commands[c].from) = {} THEN UNCHANGED servers
          ELSE \E p \in Places(commands[c].from) : servers' = servers \ At(p, k)
       /\ cached' = [cached EXCEPT ![k] = 0]
    /\ Saves(c)
    /\ UNCHANGED groups

\* Every group of the name goes; only the first one's clusters leave the cache.
RemoveServerGroup(c) ==
    /\ Confirmed(c, "removeGroup")
    /\ LET gone == Places(commands[c].from) IN
       /\ groups' = {g \in groups : g.id \notin gone}
       /\ servers' = {s \in servers : s.group \notin gone}
       /\ IF gone = {} THEN UNCHANGED cached
          ELSE \E p \in gone :
                 cached' = [k \in Clusters |-> IF At(p, k) # {} THEN 0 ELSE cached[k]]
    /\ Saves(c)

\* moveServer: removed from the source, a copy added to the target if that is
\* still there.
MoveServer(c) ==
    /\ Confirmed(c, "move")
    /\ LET k == commands[c].cluster
           sources == {p \in Places(commands[c].from) : At(p, k) # {}}
           targets == Places(commands[c].to)
       IN  IF sources = {} THEN Returns(c) /\ UNCHANGED <<servers, toldList>>
           ELSE /\ \E p \in sources :
                     servers' = (servers \ At(p, k)) \union
                         (IF targets = {} THEN {} ELSE {NewServer(k, CHOOSE q \in targets : TRUE)})
                /\ Saves(c)
    /\ UNCHANGED <<groups, cached>>

\* renameServer changes a display name, which is not modelled, and saves.
RenameServer(c) ==
    /\ Confirmed(c, "rename")
    /\ IF \E p \in Places(commands[c].from) : At(p, commands[c].cluster) # {}
       THEN Saves(c) ELSE Returns(c) /\ UNCHANGED toldList
    /\ UNCHANGED <<servers, groups, cached>>

RenameServerGroup(c) ==
    /\ Confirmed(c, "renameGroup")
    /\ IF Places(commands[c].from) = {} THEN Returns(c) /\ UNCHANGED <<groups, toldList>>
       ELSE /\ \E p \in Places(commands[c].from) :
                 groups' = {IF g.id = p THEN [g EXCEPT !.name = commands[c].to] ELSE g
                              : g \in groups}
            /\ Saves(c)
    /\ UNCHANGED <<servers, cached>>

Dismissed(c) ==
    /\ commands[c] # None /\ commands[c].at = "prompt"
    /\ Returns(c)
    /\ UNCHANGED <<servers, groups, cached, toldList>>

\* The rest of saveServersAndGroups: the list as it is now goes to the server.
Saved(c) ==
    /\ commands[c] # None /\ commands[c].at = "saving"
    /\ Returns(c)
    /\ toldList' = getConfiguredConnections
    /\ UNCHANGED <<servers, groups, cached>>

\* ensureClusterConnection, for a server that is expanded or asked for a schema.
EnsureClusterConnection(k) ==
    /\ cached[k] = 0 /\ FoldFunction(+, 0, cached) < MaxCached
    /\ cached' = [cached EXCEPT ![k] = 1]
    /\ UNCHANGED <<servers, groups, toldList, commands>>

ListHandles(c) ==
    \/ HostKnown(c) \/ AddServer(c) \/ FindEdited(c) \/ EditServer(c)
    \/ AddServerGroup(c) \/ RemoveServer(c) \/ RemoveServerGroup(c)
    \/ MoveServer(c) \/ RenameServer(c) \/ RenameServerGroup(c)
    \/ Saved(c)

ListNext ==
    \/ \E c \in Commands : Asks(c) \/ ListHandles(c) \/ Dismissed(c)
    \/ \E k \in Clusters : EnsureClusterConnection(k)

\* The language server and the editor's storage answer; the user need not.
ListSpec == ListInit /\ [][ListNext]_listVars
ListFairSpec == ListSpec /\ \A c \in Commands : WF_listVars(Saved(c))
-----------------------------------------------------------------------------
InSaving(c) == commands[c] # None /\ commands[c].at = "saving"

\* Once no call is being stored, the language server knows exactly the servers
\* listed, however many calls overlapped (saveServersAndGroups sends the list as
\* it is after its await).
ToldWhenSaved == (\A c \in Commands : ~InSaving(c)) => toldList = getConfiguredConnections

\* A list the server has not been told of is not left that way.
EveryChangeIsTold ==
    (toldList # getConfiguredConnections) ~> (toldList = getConfiguredConnections)

\* ensureServer never ends without the cluster in the list: it found a server,
\* or it adds one, whatever happened to the list while it waited.
EnsureLists ==
    [][\A c \in Commands :
          (/\ commands[c] # None /\ commands[c].op = "ensure"
           /\ commands[c].at \in {"host", "kind"}
           /\ commands'[c] = None \/ commands'[c].at = "saving")
          => \E s \in servers' : s.cluster = commands[c].cluster]_listVars

\* The list is well formed and told (see the parts above).
ListIsTold == ListTypeOK /\ ToldWhenSaved
=============================================================================
