------------------------------ MODULE ScratchPads ------------------------------
(***************************************************************************)
(* Scratch pads: the files ScratchPadManager keeps in one directory, the   *)
(* order it keeps them in, and the commands of ScratchPadPanel and         *)
(* ImportManager that create, import, rename, delete and clear them while  *)
(* an editor may have them open.                                           *)
(*                                                                         *)
(* Concurrency.  Files are read and written synchronously by the editor's  *)
(* file system provider, asynchronously by the commands that create them:  *)
(* every await of a command is a place where another may run.              *)
(*                                                                         *)
(* Abstractions.  A name is a base and a number: "ScratchPad3.kql" or      *)
(* "Title (2).kql".  A text is Blank, Typed by the user, or imported.      *)
(* Connections given to pads are left out; so is opening the pad at the    *)
(* end of a command, which is Open.                                        *)
(***************************************************************************)
EXTENDS Client, Lists, SequencesExt

CONSTANTS
    AutoName,       \* the base of the names given by the extension
    Titles,         \* those of imported recovery files
    MaxNumber,      \* bound: number of a name
    Imports,        \* texts that may be imported
    Flows,          \* commands under way at one time
    Blank, Typed

ASSUME PadsAssumption ==
    /\ AutoName \notin Titles /\ MaxNumber \in Nat \ {0}
    /\ {None, Blank, Typed} \cap Imports = {} /\ IsInjective(<<None, Blank, Typed>>)

PadNames == (Titles \union {AutoName}) \X (1 .. MaxNumber)
Texts == Imports \union {Blank, Typed}

VARIABLES
    padFiles,       \* the pads on disk and their texts
    padOrder,       \* _order.json
    editors,        \* open documents: their text and whether it is dirty
    saveTimers,     \* autoSaveTimers
    flows,          \* commands under way
    imported,       \* history: texts imported
    dropped,        \* history: texts the user replaced or deleted
    clash,          \* history: a name was taken, or freed, while a command was taking it
    refused         \* history: an editor was kept, or opened, on a pad going away

padVars == <<padFiles, padOrder, editors, saveTimers, flows, imported, dropped, clash, refused>>

Pads == DOMAIN padFiles
Flow == [op: {"create", "import", "rename", "delete"}, name: PadNames, to: PadNames \union {None},
         text: Texts, at: {"named", "writing", "written", "closing", "closed"}]
Editor == [text: Texts, dirty: BOOLEAN]

\* None is no command and no document.
ASSUME PadRecordAssumption == None \notin Flow /\ None \notin Editor

PadsTypeOK ==
    /\ Pads \subseteq PadNames /\ padFiles \in [Pads -> Texts]
    /\ padOrder \in Seq(PadNames) /\ saveTimers \subseteq PadNames
    /\ editors \in [PadNames -> Editor \union {None}]
    /\ flows \in [Flows -> Flow \union {None}]
    /\ imported \subseteq Imports /\ dropped \subseteq Imports /\ clash \in BOOLEAN /\ refused \in BOOLEAN

\* The manager's constructor makes a pad when there is none.
PadsInit ==
    /\ padFiles = [n \in {<<AutoName, 1>>} |-> Blank] /\ padOrder = <<<<AutoName, 1>>>>
    /\ editors = [n \in PadNames |-> None] /\ saveTimers = {}
    /\ flows = [f \in Flows |-> None]
    /\ imported = {} /\ dropped = {} /\ clash = FALSE /\ refused = FALSE

Dropping(text) == dropped \union ({text} \cap Imports)
padHistory == <<imported, dropped, clash, refused>>
-----------------------------------------------------------------------------
\* reconcileOrder: the pads there are, those not listed at the end.
ReconcileOrder(order) ==
    Only(order, Pads) \o SetToSeq(Pads \ ToSet(order))

\* getScratchPadFiles, which rewrites the order unless there is no pad.
Reconciled == IF Pads = {} THEN padOrder ELSE ReconcileOrder(padOrder)

\* nextScratchPadFileName, and the suffixes addScratchPadFile tries.
FreeNumbers(base) == {i \in 1 .. MaxNumber : <<base, i>> \notin Pads}
FreeName(base) == <<base, Min(FreeNumbers(base))>>

Stage(f, at) == flows' = [flows EXCEPT ![f].at = at]
FlowEnds(f) == flows' = [flows EXCEPT ![f] = None]
FlowAt(f, op, at) == flows[f] # None /\ flows[f].op = op /\ flows[f].at = at
StartFlow(f, op, name, to, text, at) ==
    /\ flows[f] = None
    /\ flows' = [flows EXCEPT ![f] = [op |-> op, name |-> name, to |-> to, text |-> text, at |-> at]]

\* Another command is writing another text to n.
Writing(n, text) ==
    \E g \in Flows : flows[g] # None /\ flows[g].at = "writing" /\ flows[g].name = n /\ flows[g].text # text

\* Another command has written n and has yet to list it.
Unlisted(n) == \E g \in Flows : flows[g] # None /\ flows[g].at = "written" /\ flows[g].name = n

\* The tree asks for its children.
ListPads ==
    /\ padOrder' = Reconciled
    /\ UNCHANGED <<padFiles, editors, saveTimers, flows, padHistory>>

\* handleDrop: before the target when dragged up, after it when dragged down.
DropPad(i, j) ==
    /\ i # j
    /\ padOrder' = InsertAt(RemoveAt(padOrder, i), j, padOrder[i])
    /\ UNCHANGED <<padFiles, editors, saveTimers, flows, padHistory>>

\* createScratchPad: the name is chosen before the connection is awaited.
CreatePad(f) ==
    /\ FreeNumbers(AutoName) # {} /\ StartFlow(f, "create", FreeName(AutoName), None, Blank, "named")
    /\ padOrder' = Reconciled
    /\ UNCHANGED <<padFiles, editors, saveTimers, padHistory>>

\* Fault: the name chosen before the await is taken to be free still.
LeavesNone(n) == FALSE

LeavesFile(n) == n \in Pads

\* createScratchPadFile.
CreateFile(f) ==
    /\ FlowAt(f, "create", "named")
    /\ LET n == flows[f].name IN
       /\ Stage(f, IF LeavesFile(n) THEN "written" ELSE "writing")
       /\ clash' = (clash \/ Writing(n, Blank))
    /\ UNCHANGED <<padFiles, padOrder, editors, saveTimers, imported, dropped, refused>>

\* addScratchPadFile, of importRecoveryFiles.
ImportPad(f, base, text) ==
    /\ text \notin imported /\ FreeNumbers(base) # {}
    /\ LET n == FreeName(base) IN
       /\ StartFlow(f, "import", n, None, text, "writing")
       /\ clash' = (clash \/ Writing(n, text))
    /\ imported' = imported \union {text} /\ padOrder' = Reconciled
    /\ UNCHANGED <<padFiles, editors, saveTimers, dropped, refused>>

PutPad(n, text) == padFiles' = [m \in Pads \union {n} |-> IF m = n THEN text ELSE padFiles[m]]

WritePad(f) ==
    /\ flows[f] # None /\ flows[f].at = "writing"
    /\ PutPad(flows[f].name, flows[f].text) /\ Stage(f, "written")
    /\ UNCHANGED <<padOrder, editors, saveTimers, padHistory>>

Appended(n) == IF n \in ToSet(padOrder) THEN padOrder ELSE Append(padOrder, n)

ListNew(f) ==
    /\ flows[f] # None /\ flows[f].at = "written"
    /\ padOrder' = Appended(flows[f].name) /\ FlowEnds(f)
    /\ UNCHANGED <<padFiles, editors, saveTimers, padHistory>>

Going(n) == \E f \in Flows : flows[f] # None /\ flows[f].op \in {"rename", "delete"} /\ flows[f].name = n

OpenPad(n) ==
    /\ n \in Pads /\ editors[n] = None
    /\ editors' = [editors EXCEPT ![n] = [text |-> padFiles[n], dirty |-> FALSE]]
    /\ refused' = (refused \/ Going(n))
    /\ UNCHANGED <<padFiles, padOrder, saveTimers, flows, imported, dropped, clash>>

\* The editor's own close of a pad, saved or not.
LeavePad(n) ==
    /\ editors[n] # None /\ ~editors[n].dirty
    /\ editors' = [editors EXCEPT ![n] = None]
    /\ UNCHANGED <<padFiles, padOrder, saveTimers, flows, padHistory>>

\* scheduleAutoSave.
AutoSaveSet(n) == saveTimers \union {n}

TypePad(n) ==
    /\ editors[n] # None
    /\ editors' = [editors EXCEPT ![n] = [text |-> Typed, dirty |-> TRUE]]
    /\ dropped' = Dropping(editors[n].text) /\ saveTimers' = AutoSaveSet(n)
    /\ UNCHANGED <<padFiles, padOrder, flows, imported, clash, refused>>

SavePad(n) == PutPad(n, editors[n].text) /\ editors' = [editors EXCEPT ![n].dirty = FALSE]
Dirty(n) == editors[n] # None /\ editors[n].dirty

AutoSave(n) ==
    /\ n \in saveTimers /\ saveTimers' = saveTimers \ {n}
    /\ IF Dirty(n) THEN SavePad(n) ELSE UNCHANGED <<padFiles, editors>>
    /\ UNCHANGED <<padOrder, flows, padHistory>>

Closes(f) == flows[f].op \in {"rename", "delete"}

\* deleteScratchPad once confirmed, and saveScratchPadAs when the pad is removed.
DeletePad(f, n) ==
    /\ n \in Pads /\ StartFlow(f, "delete", n, None, Blank, "closing")
    /\ UNCHANGED <<padFiles, padOrder, editors, saveTimers, padHistory>>

\* renameScratchPad once a name not in use is entered: a dirty document is saved.
RenamePad(f, n, to) ==
    /\ n \in Pads /\ to \notin Pads
    /\ StartFlow(f, "rename", n, to, Blank, "closing")
    /\ IF Dirty(n) THEN SavePad(n) ELSE UNCHANGED <<padFiles, editors>>
    /\ padOrder' = Reconciled
    /\ UNCHANGED <<saveTimers, padHistory>>

\* Its tab is closed: a document dirty again asks, and the answer is ignored.
CloseTab(f) ==
    /\ flows[f] # None /\ flows[f].at = "closing" /\ Stage(f, "closed")
    /\ LET n == flows[f].name
           shut == editors' = [editors EXCEPT ![n] = None] IN
       \/ /\ editors[n] = None \/ ~Closes(f)
          /\ UNCHANGED <<padFiles, editors, refused>>
       \/ /\ editors[n] # None /\ Closes(f) /\ shut /\ UNCHANGED refused
          /\ padFiles' = padFiles \/ (Dirty(n) /\ PutPad(n, editors[n].text))
       \/ /\ Dirty(n) /\ Closes(f) /\ refused' = TRUE
          /\ UNCHANGED <<padFiles, editors>>
    /\ UNCHANGED <<padOrder, saveTimers, imported, dropped, clash>>

\* deleteScratchPadFile, which throws when the file is gone.
DeleteFile(f) ==
    /\ FlowAt(f, "delete", "closed") /\ FlowEnds(f)
    /\ LET n == flows[f].name IN
       IF n \in Pads
       THEN /\ padFiles' = [x \in Pads \ {n} |-> padFiles[x]] /\ padOrder' = Only(padOrder, PadNames \ {n})
            /\ dropped' = Dropping(padFiles[n]) /\ clash' = (clash \/ Unlisted(n))
       ELSE UNCHANGED <<padFiles, padOrder, dropped, clash>>
    /\ UNCHANGED <<editors, saveTimers, imported, refused>>

Renamed(n, to) == [i \in DOMAIN padOrder |-> IF padOrder[i] = n THEN to ELSE padOrder[i]]

\* renameScratchPadFile: over a file of the new name, if one has appeared.
RenameFile(f) ==
    /\ FlowAt(f, "rename", "closed") /\ FlowEnds(f)
    /\ LET n == flows[f].name to == flows[f].to IN
       IF n \in Pads
       THEN /\ padFiles' = [x \in (Pads \ {n}) \union {to} |-> IF x = to THEN padFiles[n] ELSE padFiles[x]]
            /\ padOrder' = Renamed(n, to)
            /\ clash' = (clash \/ to \in Pads \/ Writing(to, None) \/ Unlisted(n))
       ELSE UNCHANGED <<padFiles, padOrder, clash>>
    /\ UNCHANGED <<editors, saveTimers, imported, dropped, refused>>

\* saveScratchPadAs when the pad is kept and cleared: a clean document follows.
ClearPad(n) ==
    /\ n \in Pads /\ editors[n] # None /\ PutPad(n, Blank)
    /\ dropped' = Dropping(padFiles[n])
    /\ editors' = IF Dirty(n) THEN editors ELSE [editors EXCEPT ![n].text = Blank]
    /\ UNCHANGED <<padOrder, saveTimers, flows, imported, clash, refused>>

PadsNext ==
    \/ ListPads
    \/ \E i, j \in DOMAIN padOrder : DropPad(i, j)
    \/ \E n \in PadNames : OpenPad(n) \/ LeavePad(n) \/ TypePad(n) \/ AutoSave(n) \/ ClearPad(n)
    \/ \E f \in Flows :
        \/ CreatePad(f) \/ CreateFile(f) \/ WritePad(f) \/ ListNew(f)
        \/ CloseTab(f) \/ DeleteFile(f) \/ RenameFile(f)
        \/ \E b \in Titles \union {AutoName}, t \in Imports : ImportPad(f, b, t)
        \/ \E n \in PadNames : DeletePad(f, n) \/ \E to \in PadNames : RenamePad(f, n, to)

PadsSpec == PadsInit /\ [][PadsNext]_padVars
-----------------------------------------------------------------------------
\* The order lists no pad twice (each would be two items of the tree), unless a
\* pad was renamed to a name taken since it was entered, or gone since it was made.
OrderNamesOnce == ~clash => IsInjective(padOrder)

\* An imported text is in some pad until the user replaces or deletes it, unless
\* two commands took the same name.
ImportsAreKept ==
    ~clash /\ ~refused => \A t \in imported \ dropped :
        \/ \E n \in Pads : padFiles[n] = t
        \/ \E f \in Flows : flows[f] # None /\ flows[f].text = t

\* No editor is left on a pad that is gone, whose next save would bring it back,
\* unless its tab was kept or opened while the pad was going away.
OpenPadsExist == ~refused => \A n \in PadNames : editors[n] # None => n \in Pads

\* A pad with unsaved text always has its save to come.
EditsAreScheduled == \A n \in PadNames : Dirty(n) => n \in saveTimers

\* Pads are listed once, keep their text, and open editors have theirs (see the parts above).
PadsAreSound == PadsTypeOK /\ OrderNamesOnce /\ ImportsAreKept /\ OpenPadsExist /\ EditsAreScheduled
===============================================================================
