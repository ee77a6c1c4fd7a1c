---------------------------- MODULE HistoryStore ----------------------------
(***************************************************************************)
(* The query history: an index file and one result file per entry, in a    *)
(* directory that every window shares.                                     *)
(*                                                                         *)
(* Concurrency.  The extension hosts of several windows are processes of   *)
(* their own.  In one host other code may run at an await (a file being    *)
(* written or deleted), not between reading and writing the index unless   *)
(* an await stands between them: so it is when entries are trimmed, and    *)
(* when the history is cleared.  Hosts may die at any step.                *)
(*                                                                         *)
(* Abstractions.  A result is known by its file's name, which is made of   *)
(* the second and the query's label: a second result may get the name of   *)
(* the one before it, not an older one's.  Contents are left out.          *)
(***************************************************************************)
EXTENDS Client, Lists, FiniteSets, SequencesExt

CONSTANTS
    Hosts,          \* windows
    Calls,          \* calls under way at one time
    Names,          \* names of result files
    MaxEntries,     \* MAX_HISTORY_ENTRIES
    MaxCrashes

ASSUME HistoryAssumption == MaxEntries \in Nat \ {0} /\ MaxCrashes \in Nat /\ None \notin Names

VARIABLES
    index,          \* the names in the index file, newest first
    files,          \* the result files there are
    calls,          \* addHistoryEntry, deleteEntry and clearAllEntries under way
    newest,         \* the name last given
    listed,         \* history: results added, and not deleted since
    crossed,        \* history: an index was written between another call's reading
                    \* and writing it, a host died with calls under way, a file was
                    \* written after its deletion, or two results got one name
    crashes

historyVars == <<index, files, calls, newest, listed, crossed, crashes>>

\* write, unlink, trim, clear: before that file operation; read, put: before
\* the index is read or written.
HistoryCall ==
    [op: {"add", "delete", "clear"}, host: Hosts, name: Names \union {None},
     at: {"write", "read", "put", "unlink"}, seen: Seq(Names), left: Seq(Names)]

\* None is no call.
ASSUME CallAssumption == None \notin HistoryCall

HistoryTypeOK ==
    /\ index \in Seq(Names)
    /\ files \subseteq Names
    /\ calls \in [Calls -> HistoryCall \union {None}]
    /\ newest \in Names \union {None}
    /\ listed \subseteq Names /\ crossed \in BOOLEAN /\ crashes \in 0 .. MaxCrashes

HistoryInit ==
    /\ index = <<>> /\ files = {}
    /\ calls = [c \in Calls |-> None]
    /\ newest = None /\ listed = {} /\ crossed = FALSE /\ crashes = 0
-----------------------------------------------------------------------------
\* A host between reading and writing the index with no await between them.
InSync(h) == \E c \in Calls :
    calls[c] # None /\ calls[c].host = h /\ calls[c].at = "put" /\ calls[c].left = <<>>
        /\ calls[c].op # "clear"

Ready(c, at) == calls[c] # None /\ calls[c].at = at /\ ~InSync(calls[c].host)

Begins(c, op, h, n, at) ==
    /\ calls[c] = None /\ ~InSync(h)
    /\ calls' = [calls EXCEPT ![c] = [op |-> op, host |-> h, name |-> n, at |-> at,
                                      seen |-> <<>>, left |-> <<>>]]

\* addHistoryEntry up to the writing of the file, the name chosen before the
\* query is minified.
Add(c, h) ==
    /\ \E n \in Names :
        /\ \/ n \notin files \union ToSet(index) /\ \A d \in Calls : calls[d] # None => calls[d].name # n
           \/ n = newest
        /\ newest' = n /\ crossed' = (crossed \/ n = newest)
        /\ Begins(c, "add", h, n, "write")
    /\ UNCHANGED <<index, files, listed, crashes>>

Written(c) ==
    /\ Ready(c, "write")
    /\ files' = files \union {calls[c].name}
    /\ calls' = [calls EXCEPT ![c].at = "read"]
    /\ UNCHANGED <<index, newest, listed, crossed, crashes>>

\* Fault: the new entry is put at the end, so that it is the one trimmed.
ReadAtEnd(c) ==
    /\ Ready(c, "read") /\ calls[c].op = "add"
    /\ calls' = [calls EXCEPT ![c].at = "put", ![c].seen = index,
                    ![c].left = SubSeq(Append(index, calls[c].name), MaxEntries + 1, Len(index) + 1)]
    /\ UNCHANGED <<index, files, newest, listed, crossed, crashes>>

\* The index is read and the entry put in front; what exceeds the maximum is to
\* be deleted first, one awaited unlink after another.
Read(c) ==
    /\ Ready(c, "read") /\ calls[c].op = "add"
    /\ calls' = [calls EXCEPT ![c].at = "put", ![c].seen = index,
                    ![c].left = SubSeq(<<calls[c].name>> \o index, MaxEntries + 1, Len(index) + 1)]
    /\ UNCHANGED <<index, files, newest, listed, crossed, crashes>>

\* One file of those trimmed, or of those cleared, is deleted.
Unlink(c) ==
    /\ Ready(c, "put") /\ calls[c].left # <<>>
    /\ files' = files \ {Head(calls[c].left)}
    /\ listed' = listed \ {Head(calls[c].left)}
    /\ calls' = [calls EXCEPT ![c].left = Tail(@)]
    /\ UNCHANGED <<index, newest, crossed, crashes>>

\* What call c writes: the entry in front of the index it read, cut to the
\* maximum; the index without the entry; nothing.
NewIndex(c) ==
    CASE calls[c].op = "add" ->
           SubSeq(<<calls[c].name>> \o calls[c].seen, 1, Min({MaxEntries, Len(calls[c].seen) + 1}))
      [] calls[c].op = "delete" ->
           Only(calls[c].seen, Names \ {calls[c].name})
      [] calls[c].op = "clear" -> <<>>

\* writeIndex, and the end of the call.
Put(c) ==
    /\ calls[c] # None /\ calls[c].at = "put" /\ calls[c].left = <<>>
    /\ calls[c].op = "clear" => ~InSync(calls[c].host)
    /\ index' = NewIndex(c)
    /\ crossed' = (crossed \/ \E d \in Calls \ {c} : calls[d] # None /\ calls[d].at = "put")
    /\ listed' = CASE calls[c].op = "add" -> listed \union {calls[c].name}
                   [] calls[c].op = "delete" -> listed
                   [] calls[c].op = "clear" -> {}
    /\ calls' = [calls EXCEPT ![c] = None]
    /\ UNCHANGED <<files, newest, crashes>>

\* deleteEntry for an entry of the panel: the file first, then the index.
Delete(c, h) ==
    /\ \E n \in ToSet(index) : Begins(c, "delete", h, n, "unlink")
    /\ UNCHANGED <<index, files, newest, listed, crossed, crashes>>

\* The file is gone: the index is read, to be written in the same breath.
Deleted(c) ==
    /\ Ready(c, "unlink")
    /\ files' = files \ {calls[c].name}
    /\ listed' = listed \ {calls[c].name}
    /\ calls' = [calls EXCEPT ![c].at = "put", ![c].seen = index]
    /\ UNCHANGED <<index, newest, crossed, crashes>>

\* clearAllEntries, confirmed in the panel.
Clear(c, h) ==
    /\ calls[c] = None /\ ~InSync(h)
    /\ calls' = [calls EXCEPT ![c] = [op |-> "clear", host |-> h, name |-> None,
                                      at |-> "put", seen |-> index, left |-> index]]
    /\ UNCHANGED <<index, files, newest, listed, crossed, crashes>>

\* writeHistoryFile: a chart edited in a result shown from the history is saved
\* to its file, which may have been deleted.
WriteFile(n) ==
    /\ n \in listed \/ n = newest
    /\ files' = files \union {n}
    /\ crossed' = (crossed \/ n \notin files)
    /\ UNCHANGED <<index, calls, newest, listed, crashes>>

\* A host dies; a torn index file is not JSON and read as an empty history.
Crash(h) ==
    /\ crashes < MaxCrashes
    /\ crashes' = crashes + 1
    /\ calls' = [c \in Calls |-> IF calls[c] # None /\ calls[c].host = h THEN None ELSE calls[c]]
    /\ index' \in IF \E c \in Calls : calls[c] # None /\ calls[c].host = h
                                      /\ calls[c].at = "put" /\ calls[c].left = <<>>
                  THEN {index, <<>>} ELSE {index}
    /\ crossed' = (crossed \/ calls' # calls)
    /\ UNCHANGED <<files, newest, listed>>

HistoryNext ==
    \/ \E c \in Calls, h \in Hosts : Add(c, h) \/ Delete(c, h) \/ Clear(c, h)
    \/ \E c \in Calls : Written(c) \/ Read(c) \/ Unlink(c) \/ Put(c) \/ Deleted(c)
    \/ \E n \in Names : WriteFile(n)
    \/ \E h \in Hosts : Crash(h)

HistorySpec == HistoryInit /\ [][HistoryNext]_historyVars
-----------------------------------------------------------------------------
Quiet == \A c \in Calls : calls[c] = None

\* The index never names more results than the maximum, whatever the windows do.
IndexIsBounded == Len(index) <= MaxEntries

\* When nothing is under way the index names exactly the files there are (see
\* crossed for what excuses it): trimming and deleting treat both alike.
IndexMatchesFiles ==
    Quiet /\ ~crossed => ToSet(index) = files

\* The index of the history is bounded and matches the files (see the parts above).
HistoryIsSound == HistoryTypeOK /\ IndexIsBounded /\ IndexMatchesFiles
=============================================================================
