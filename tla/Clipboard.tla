------------------------------- MODULE Clipboard -------------------------------
(***************************************************************************)
(* The system clipboard and the context the extension keeps beside it: an  *)
(* entity copied from the connections tree remembers its cluster and       *)
(* database, and when its text is pasted into a query the server puts      *)
(* them in.                                                                *)
(*                                                                         *)
(* Concurrency.  The system clipboard is written by whoever likes; the     *)
(* extension writes it over an await, or (copyItems on Windows) through a  *)
(* process of its own, and keeps the context in memory.  A paste reads the *)
(* context before its await and acts on it after.                          *)
(*                                                                         *)
(* Abstractions.  Several entities may have one text (a table's name in    *)
(* two databases).  A chart, or another application's content, is text     *)
(* none of them has, Foreign, unless it happens to be one of theirs.       *)
(***************************************************************************)
EXTENDS Client, FiniteSets

CONSTANTS
    Entities,       \* entities of the tree
    Contents,       \* texts they are copied as
    Foreign,        \* other content
    Copies,         \* copies under way at one time
    Pastes          \* pastes under way at one time

ASSUME ClipboardAssumption == Foreign \notin Contents /\ None \notin Entities

VARIABLES
    systemText,     \* what is on the system clipboard
    context,        \* clipboardContext
    copying,        \* copies under way
    pasting,        \* provideDocumentPasteEdits invocations
    owner,          \* history: the entity whose copy put systemText there
    overlapped      \* history: since it did, another copy or a paste was under way beside one

clipVars == <<systemText, context, copying, pasting, owner, overlapped>>

Context == [text: Contents, entity: Entities]
Copy == [entity: Entities \union {None}, text: Contents \union {Foreign}, at: {"asking", "writing", "written"}]
Paste == [text: Contents \union {Foreign}, held: Context, of: Entities \union {None}, at: {"reading", "transforming"}]

\* None is no record.
ASSUME ClipboardRecordAssumption == None \notin Context \union Copy \union Paste

ClipTypeOK ==
    /\ systemText \in Contents \union {Foreign}
    /\ context \in Context \union {None}
    /\ copying \in [Copies -> Copy \union {None}] /\ pasting \in [Pastes -> Paste \union {None}]
    /\ owner \in Entities \union {None} /\ overlapped \in BOOLEAN
    /\ \A c \in Copies : copying[c] # None /\ copying[c].entity # None => copying[c].text # Foreign

ClipInit ==
    /\ systemText = Foreign /\ context = None /\ owner = None /\ overlapped = FALSE
    /\ copying = [c \in Copies |-> None] /\ pasting = [p \in Pastes |-> None]
-----------------------------------------------------------------------------
IdleBut(c) == (\A d \in Copies \ {c} : copying[d] = None) /\ (\A p \in Pastes : pasting[p] = None)
Idle == (\A c \in Copies : copying[c] = None) /\ (\A p \in Pastes : pasting[p] = None)

Copying(c, copy) == copying' = [copying EXCEPT ![c] = copy]
At(c, at) == copying[c] # None /\ copying[c].at = at

\* copyEntityAsCommand and copyEntityAsExpression: the server is asked for a text.
CopyEntity(c, e, text) ==
    /\ copying[c] = None /\ Copying(c, [entity |-> e, text |-> text, at |-> "asking"])
    /\ overlapped' = (overlapped \/ ~Idle)
    /\ UNCHANGED <<systemText, context, pasting, owner>>

EntityAnswered(c) ==
    /\ At(c, "asking") /\ Copying(c, [copying[c] EXCEPT !.at = "writing"])
    /\ UNCHANGED <<systemText, context, pasting, owner, overlapped>>

\* copyText, and copyItems of a query, a table or a chart: no context goes with it.
CopyOther(c, text) ==
    /\ copying[c] = None /\ Copying(c, [entity |-> None, text |-> text, at |-> "writing"])
    /\ overlapped' = (overlapped \/ ~Idle)
    /\ UNCHANGED <<systemText, context, pasting, owner>>

\* The text is on the clipboard; the copy of an entity has more to do.
AfterLanding(c) == IF copying[c].entity = None THEN None ELSE [copying[c] EXCEPT !.at = "written"]

Lands(c) ==
    /\ At(c, "writing") /\ systemText' = copying[c].text /\ owner' = copying[c].entity
    /\ Copying(c, AfterLanding(c)) /\ overlapped' = ~IdleBut(c)
    /\ UNCHANGED <<context, pasting>>

\* Fault: a context that is set already is kept.
KeepsContext(c) == IF context = None THEN [text |-> copying[c].text, entity |-> copying[c].entity] ELSE context

\* setContext.
ContextOf(c) == [text |-> copying[c].text, entity |-> copying[c].entity]

SetContext(c) ==
    /\ At(c, "written") /\ context' = ContextOf(c) /\ Copying(c, None)
    /\ UNCHANGED <<systemText, pasting, owner, overlapped>>

\* The server has no text, the write fails, or the process exits with a code.
CopyFails(c) ==
    /\ At(c, "asking") \/ At(c, "writing")
    /\ Copying(c, None) /\ UNCHANGED <<systemText, context, pasting, owner, overlapped>>

\* Another application, or the editor's own copy.
CopyElsewhere(text) ==
    /\ systemText' = text /\ owner' = None
    /\ UNCHANGED <<context, copying, pasting, overlapped>>
-----------------------------------------------------------------------------
(* provideDocumentPasteEdits *)

PasteEnds(p) == pasting' = [pasting EXCEPT ![p] = None]

BeginPaste(p) ==
    /\ pasting[p] = None /\ context # None
    /\ pasting' = [pasting EXCEPT ![p] = [text |-> systemText, held |-> context, of |-> owner, at |-> "reading"]]
    /\ overlapped' = (overlapped \/ ~Idle)
    /\ UNCHANGED <<systemText, context, copying, owner>>

\* The text is known: another than the context's means that the context is stale.
ReadText(p) ==
    /\ pasting[p] # None /\ pasting[p].at = "reading"
    /\ IF pasting[p].text # pasting[p].held.text THEN context' = None /\ PasteEnds(p)
       ELSE /\ UNCHANGED context
            /\ pasting' = [pasting EXCEPT ![p].at = "transforming"]
    /\ UNCHANGED <<systemText, copying, owner, overlapped>>

\* transformPaste of the server; with no change the default paste goes on.
Transformed(p) ==
    /\ pasting[p] # None /\ pasting[p].at = "transforming" /\ PasteEnds(p)
    /\ UNCHANGED <<systemText, context, copying, owner, overlapped>>

ClipNext ==
    \/ \E c \in Copies :
        \/ \E e \in Entities, t \in Contents : CopyEntity(c, e, t)
        \/ \E t \in Contents \union {Foreign} : CopyOther(c, t)
        \/ EntityAnswered(c) \/ Lands(c) \/ SetContext(c) \/ CopyFails(c)
    \/ \E t \in Contents \union {Foreign} : CopyElsewhere(t)
    \/ \E p \in Pastes : BeginPaste(p) \/ ReadText(p) \/ Transformed(p)

ClipSpec == ClipInit /\ [][ClipNext]_clipVars
-----------------------------------------------------------------------------
\* A paste is transformed for the entity whose text it pastes: not for another with
\* the same text, however copies and pastes follow each other.
PastesKnowTheirSource ==
    ~overlapped => \A p \in Pastes :
        pasting[p] # None /\ pasting[p].at = "transforming" /\ pasting[p].of # None
            => pasting[p].held.entity = pasting[p].of

\* With nothing under way, and the text of an entity on the clipboard, the context
\* is that entity's, unless its copy overlapped another, or a paste.
ContextGoesWithText ==
    Idle /\ ~overlapped /\ owner # None => context = [text |-> systemText, entity |-> owner]

\* The context goes with the text it was copied with (see the parts above).
ClipboardIsSound == ClipTypeOK /\ PastesKnowTheirSource /\ ContextGoesWithText
===============================================================================
