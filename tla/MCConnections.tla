--------------------------- MODULE MCConnections ----------------------------
(* The components that keep connections and the tree of servers, for TLC,  *)
(* one of them in an execution (they share no state).  The sets of different*)
(* components are given the same model values, so that one symmetry serves *)
(* them all.                                                               *)
EXTENDS ServerList, DocumentConnections, NotebookConnections, SchemaTree, TLC

VARIABLE part         \* the component explored

ConnectionsInit ==
    /\ part \in {"list", "documents", "notebooks", "schemas"}
    /\ ListInit /\ DocInit /\ NcInit /\ SchemaInit
    /\ part # "documents" => saved = [d \in Docs |-> None] /\ inferred = saved
    /\ part # "notebooks" => cells = {} /\ meta = None
    /\ part # "schemas" => places = {Top}

connectionsVars == <<part, listVars, docVars, ncVars, schemaVars>>

Listing ==
    /\ part = "list" /\ ListNext
    /\ UNCHANGED <<part, docVars, ncVars, schemaVars>>

Assigning ==
    /\ part = "documents" /\ DocNext
    /\ UNCHANGED <<part, listVars, ncVars, schemaVars>>

Synchronising ==
    /\ part = "notebooks" /\ NcNext
    /\ UNCHANGED <<part, listVars, docVars, schemaVars>>

Expanding ==
    /\ part = "schemas" /\ SchemaNext
    /\ UNCHANGED <<part, listVars, docVars, ncVars>>

ConnectionsNext ==
    Listing \/ Assigning \/ Synchronising \/ Expanding

ConnectionsSpec == ConnectionsInit /\ [][ConnectionsNext]_connectionsVars

(* Two schemas: a table and a graph model, then tables in nested folders, one  *)
(* of them written with backslashes.                                           *)
Table(n, f, b) == [type |-> "tables", name |-> n, folder |-> f, backslash |-> b]
Model(n) == [type |-> Flat, name |-> n, folder |-> <<>>, backslash |-> FALSE]

MCSchemas ==
    << {Table("T", <<>>, FALSE), Model("G")},
       {Table("T", <<"Logs">>, FALSE), Table("U", <<"Logs", "Http">>, FALSE),
        Table("V", <<"Logs", "Http", "Old">>, TRUE), Table("W", <<"Logs2">>, FALSE)} >>

Symmetry == Permutations(Clusters) \union Permutations(Names) \union Permutations(Commands)

\* Few servers and groups at one time; one document on which activities overlapped;
\* one of the ways a schema cache is disturbed, or a cluster in two places.
Few ==
    /\ Cardinality(servers) + Cardinality(groups) <= 2
    /\ Cardinality(disturbed) <= 1
    /\ Cardinality(overtaken) + Cardinality({p \in {partial} : p}) + Cardinality(places) <= 2

=============================================================================
