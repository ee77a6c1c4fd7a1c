--------------------------- MODULE EditorDecorations ---------------------------
(***************************************************************************)
(* What QueryEditor keeps on a query document besides its text: the lines  *)
(* that separate its queries, redrawn some time after each change, the     *)
(* mark of an error, gone with the next change, and the colours of its     *)
(* tokens, refreshed by an edit that is made and taken back.               *)
(*                                                                         *)
(* Concurrency.  Refreshes are asked for by the language server at any     *)
(* time and wait for their two edits; the user types meanwhile.  VS Code   *)
(* refuses an edit of a document changed since the edit was made.          *)
(*                                                                         *)
(* Abstractions.  One document, of one line, in one visible editor.  Its   *)
(* text is the sequence of what was typed; separators are known by the     *)
(* version of the text they were computed for.                             *)
(***************************************************************************)
EXTENDS Client, Integers, FiniteSets, SequencesExt

CONSTANTS
    MaxTyped,       \* bound: characters typed
    Refreshes,      \* refreshes the server asks for
    Asks            \* getQueryRanges requests under way at one time

ASSUME DecorationsAssumption == MaxTyped \in Nat /\ None \notin Nat /\ IsFiniteSet(Refreshes)

VARIABLES
    chars,          \* the document: characters in the order typed, 0 a space
    version,        \* of the document
    typedChars,     \* how many characters were typed
    refreshes,      \* forceRefreshSemanticTokens invocations
    disturbed,      \* history: a refresh overlapped another, or typing
    sepTimer,       \* debounceTimers has a timer
    asks,           \* updateQuerySeparators invocations: the version asked at, or answered for
    separators,     \* version of the separators drawn
    asked,          \* history: the newest version separators were asked for at
    behind,         \* history: that request failed, or an older answer came after it
    errorMark       \* the error decoration is shown

edVars == <<chars, version, typedChars, refreshes, disturbed, sepTimer, asks, separators, asked, behind, errorMark>>
asking == <<asks, separators, asked, behind>>

Stamp == 0 .. (MaxTyped + 2 * Cardinality(Refreshes))
RefreshStages == {"waiting", "inserting", "inserted", "deleting", "done"}
Asking == [at: {"asked", "answered"}, version: Stamp]

\* None is no request.
ASSUME AskingAssumption == None \notin Asking

EdTypeOK ==
    /\ chars \in Seq(0 .. MaxTyped) /\ version \in Stamp /\ typedChars \in 0 .. MaxTyped
    /\ refreshes \in [Refreshes -> [at: RefreshStages, pos: Nat, version: Stamp]]
    /\ asks \in [Asks -> Asking \union {None}]
    /\ separators \in Stamp \union {None} /\ (separators # None => separators <= version)
    /\ asked \in 0 .. version
    /\ {disturbed, sepTimer, behind, errorMark} \subseteq BOOLEAN

Refresh(at, pos, v) == [at |-> at, pos |-> pos, version |-> v]

\* updateQuerySeparators runs for documents that are open at the start.
EdInit ==
    /\ chars = <<>> /\ version = 0 /\ typedChars = 0
    /\ refreshes = [r \in Refreshes |-> Refresh("waiting", 0, 0)]
    /\ \E a \in Asks : asks = [b \in Asks |-> IF a = b THEN [at |-> "asked", version |-> 0] ELSE None]
    /\ disturbed = FALSE /\ sepTimer = FALSE /\ separators = None /\ asked = 0
    /\ behind = FALSE /\ errorMark = FALSE
-----------------------------------------------------------------------------
Refreshing == {r \in Refreshes : refreshes[r].at \notin {"waiting", "done"}}

\* onDidChangeTextDocument, of whoever changed it.
Changes(new) ==
    /\ chars' = new /\ version' = version + 1
    /\ sepTimer' = TRUE /\ errorMark' = FALSE
    /\ UNCHANGED asking

Type ==
    /\ typedChars < MaxTyped /\ typedChars' = typedChars + 1
    /\ \E i \in {1, Len(chars) + 1} : Changes(InsertAt(chars, i, typedChars + 1))
    /\ disturbed' = (disturbed \/ Refreshing # {})
    /\ UNCHANGED refreshes

\* ShowError of QueryRuns.
MarkError ==
    /\ errorMark' = TRUE
    /\ UNCHANGED <<chars, version, typedChars, refreshes, disturbed, sepTimer, asking>>

RefreshGoes(r, at, pos) ==
    refreshes' = [refreshes EXCEPT ![r] = Refresh(at, pos, version)]

\* forceRefreshSemanticTokens: the end of the document, and the edit that inserts
\* a space there.
StartRefresh(r) ==
    /\ refreshes[r].at = "waiting" /\ RefreshGoes(r, "inserting", Len(chars))
    /\ disturbed' = (disturbed \/ Refreshing # {})
    /\ UNCHANGED <<chars, version, typedChars, sepTimer, asking, errorMark>>

\* It is applied, or refused, which the code does not look at.
LandInsert(r) ==
    /\ refreshes[r].at = "inserting" /\ refreshes' = [refreshes EXCEPT ![r].at = "inserted"]
    /\ IF refreshes[r].version = version THEN Changes(InsertAt(chars, refreshes[r].pos + 1, 0))
       ELSE UNCHANGED <<chars, version, sepTimer, errorMark, asking>>
    /\ UNCHANGED <<typedChars, disturbed>>

\* Fault: the character before the position is deleted.
RestoredBefore(pos) == IF pos \in DOMAIN chars THEN RemoveAt(chars, pos) ELSE chars

\* The character after the position computed before the space was inserted.
Restored(pos) == IF pos + 1 \in DOMAIN chars THEN RemoveAt(chars, pos + 1) ELSE chars

SendDelete(r) ==
    /\ refreshes[r].at = "inserted" /\ RefreshGoes(r, "deleting", refreshes[r].pos)
    /\ UNCHANGED <<chars, version, typedChars, disturbed, sepTimer, asking, errorMark>>

LandDelete(r) ==
    /\ refreshes[r].at = "deleting" /\ refreshes' = [refreshes EXCEPT ![r] = Refresh("done", 0, 0)]
    /\ IF refreshes[r].version = version THEN Changes(Restored(refreshes[r].pos))
       ELSE UNCHANGED <<chars, version, sepTimer, errorMark, asking>>
    /\ UNCHANGED <<typedChars, disturbed>>

\* The debounce timer: updateQuerySeparators.
SepTimerFires(a) ==
    /\ sepTimer /\ asks[a] = None /\ sepTimer' = FALSE
    /\ asks' = [asks EXCEPT ![a] = [at |-> "asked", version |-> version]] /\ asked' = version
    /\ UNCHANGED <<chars, version, typedChars, refreshes, disturbed, separators, behind, errorMark>>

\* The server (external) answers for a version no older than that asked at.
RangesAnswered(a) ==
    /\ asks[a] # None /\ asks[a].at = "asked"
    /\ \E v \in asks[a].version .. version :
        asks' = [asks EXCEPT ![a] = [at |-> "answered", version |-> v]]
    /\ UNCHANGED <<chars, version, typedChars, refreshes, disturbed, sepTimer, separators, asked, behind, errorMark>>

\* Answers are drawn as they come, in whatever order.
DrawSeparators(a) ==
    /\ asks[a] # None /\ asks[a].at = "answered" /\ asks' = [asks EXCEPT ![a] = None]
    /\ separators' = asks[a].version /\ behind' = (asks[a].version < asked)
    /\ UNCHANGED <<chars, version, typedChars, refreshes, disturbed, sepTimer, asked, errorMark>>

\* No ranges, or an error.
NoSeparators(a) ==
    /\ asks[a] # None /\ asks' = [asks EXCEPT ![a] = None]
    /\ behind' = (behind \/ asks[a].version >= asked)
    /\ UNCHANGED <<chars, version, typedChars, refreshes, disturbed, sepTimer, separators, asked, errorMark>>

EdNext ==
    \/ Type \/ MarkError
    \/ \E r \in Refreshes : StartRefresh(r) \/ LandInsert(r) \/ SendDelete(r) \/ LandDelete(r)
    \/ \E a \in Asks : SepTimerFires(a) \/ RangesAnswered(a) \/ DrawSeparators(a) \/ NoSeparators(a)

EdSpec == EdInit /\ [][EdNext]_edVars
-----------------------------------------------------------------------------
\* A refresh takes back what it did, if nothing else happened meanwhile: no
\* character typed is lost, and no space is left.
RefreshRestores ==
    ~disturbed /\ Refreshing = {} => Len(chars) = typedChars /\ ToSet(chars) = 1 .. typedChars

\* Once nothing is under way the separators are those of the text, unless the
\* last answer failed or was overtaken.
SeparatorsAreCurrent ==
    ~sepTimer /\ ~behind /\ (\A a \in Asks : asks[a] = None) => separators = version

\* Refreshing gives the text back, and separators follow it (see the parts above).
EditorIsSound == EdTypeOK /\ RefreshRestores /\ SeparatorsAreCurrent
===============================================================================
