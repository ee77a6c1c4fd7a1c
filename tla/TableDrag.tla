------------------------------ MODULE TableDrag ------------------------------
(***************************************************************************)
(* What the tables of a results view carry when dragged.  The browser      *)
(* needs the text at once, so each table keeps the KQL expression of what  *)
(* is selected in it, which the host (DataTableView) has the server make   *)
(* after every change of the selection.                                    *)
(*                                                                         *)
(* Concurrency.  The page and the host exchange messages; the server       *)
(* answers in any order.  Messages to the host name the table they come    *)
(* from (_token); setExpression names none and is taken by the table whose *)
(* tab is active when it arrives.                                          *)
(*                                                                         *)
(* Abstractions.  A selection is a member of Picks, an expression the      *)
(* table and the selection it was made of.  A corner drag, of the whole    *)
(* table, is left out.                                                     *)
(***************************************************************************)
EXTENDS Client, Integers, SequencesExt

CONSTANTS
    Tabs,           \* tables of a result
    Picks,          \* selections
    Whole,          \* none: the whole table
    MaxResults,     \* bound: results shown
    MaxUnderWay     \* bound: messages and requests under way

ASSUME DragAssumption ==
    /\ IsFiniteSet(Tabs) /\ Whole \in Picks
    /\ MaxResults \in Nat /\ MaxUnderWay \in Nat

VARIABLES
    shownResult,    \* the result on the page
    activeTab,      \* the container that is active
    chosen,         \* the selection of each table of the page
    cachedDrag,     \* cachedExpression
    toHost,         \* setSelection and requestExpression messages
    hostChoice,     \* currentSelection of each DataTableView
    asking,         \* getTableAsExpression requests
    toPage,         \* setExpression messages
    refusedDrag,    \* a drag was refused for want of an expression
    mixed           \* history: tables an expression meant for something else may have reached

dragVars == <<shownResult, activeTab, chosen, cachedDrag, toHost, hostChoice, asking, toPage, refusedDrag, mixed>>

Expression == [result: 0 .. MaxResults, tab: Tabs, choice: Picks]
Message == [kind: {"selection", "request"}, result: 0 .. MaxResults, tab: Tabs, choice: Picks]

UnderWay == Len(toHost) + Len(asking) + Len(toPage)

DragTypeOK ==
    /\ shownResult \in 0 .. MaxResults /\ activeTab \in Tabs
    /\ chosen \in [Tabs -> Picks] /\ hostChoice \in [Tabs -> Picks]
    /\ cachedDrag \in [Tabs -> Expression \union {None}]
    /\ toHost \in Seq(Message) /\ asking \in Seq(Expression) /\ toPage \in Seq(Expression)
    /\ UnderWay <= Max({MaxUnderWay, Cardinality(Tabs)}) + MaxResults * Cardinality(Tabs)
    /\ refusedDrag \in BOOLEAN /\ mixed \subseteq Tabs

Made(tab, choice) == [result |-> shownResult, tab |-> tab, choice |-> choice]

\* The constructor of each DataTableView asks for its whole table.
Asked(result) == SetToSeq({[result |-> result, tab |-> t, choice |-> Whole] : t \in Tabs})

DragInit ==
    /\ shownResult = 0 /\ activeTab \in Tabs
    /\ chosen = [t \in Tabs |-> Whole] /\ hostChoice = chosen
    /\ cachedDrag = [t \in Tabs |-> None]
    /\ toHost = <<>> /\ asking = Asked(0) /\ toPage = <<>> /\ refusedDrag = FALSE
    /\ mixed = IF Cardinality(Tabs) > 1 THEN Tabs ELSE {}
-----------------------------------------------------------------------------
Said(kind, choice) == [kind |-> kind, result |-> shownResult, tab |-> activeTab, choice |-> choice]

Tells(kind, choice) == UnderWay < MaxUnderWay /\ toHost' = Append(toHost, Said(kind, choice))

\* postSelectionChange.
Choose(choice) ==
    /\ choice # chosen[activeTab] /\ Tells("selection", choice)
    /\ chosen' = [chosen EXCEPT ![activeTab] = choice] /\ cachedDrag' = [cachedDrag EXCEPT ![activeTab] = None]
    /\ refusedDrag' = FALSE /\ mixed' = IF UnderWay = 0 THEN mixed \ {activeTab} ELSE mixed
    /\ UNCHANGED <<shownResult, activeTab, hostChoice, asking, toPage>>

\* dragstart without an expression: it is asked for, and the drag is prevented.
RefuseDrag ==
    /\ cachedDrag[activeTab] = None /\ Tells("request", Whole) /\ refusedDrag' = TRUE
    /\ UNCHANGED <<shownResult, activeTab, chosen, cachedDrag, hostChoice, asking, toPage, mixed>>

SwitchTab(t) ==
    /\ t # activeTab /\ activeTab' = t /\ refusedDrag' = FALSE
    /\ mixed' = IF UnderWay = 0 THEN mixed ELSE Tabs
    /\ UNCHANGED <<shownResult, chosen, cachedDrag, toHost, hostChoice, asking, toPage>>

\* Another result is shown in the view.
ShowOther(t) ==
    /\ shownResult < MaxResults /\ shownResult' = shownResult + 1 /\ activeTab' = t
    /\ chosen' = [x \in Tabs |-> Whole] /\ hostChoice' = chosen'
    /\ cachedDrag' = [x \in Tabs |-> None] /\ refusedDrag' = FALSE
    /\ asking' = asking \o Asked(shownResult')
    /\ mixed' = IF UnderWay = 0 /\ Cardinality(Tabs) = 1 THEN {} ELSE Tabs
    /\ UNCHANGED <<toHost, toPage>>

Heeds(m) == m.result = shownResult

\* Fault: the expression is asked for before the selection is stored.
MadeBefore(m, choice) == <<Made(m.tab, hostChoice[m.tab])>>

\* resolveExpression, called for every message.
Resolved(m, choice) == <<Made(m.tab, choice)>>

HostReceives ==
    /\ toHost # <<>> /\ toHost' = Tail(toHost)
    /\ LET m == Head(toHost)
           choice == IF m.kind = "selection" THEN m.choice ELSE hostChoice[m.tab] IN
       IF ~Heeds(m) THEN UNCHANGED <<hostChoice, asking>>
       ELSE /\ hostChoice' = [hostChoice EXCEPT ![m.tab] = choice]
            /\ asking' = asking \o Resolved(m, choice)
    /\ UNCHANGED <<shownResult, activeTab, chosen, cachedDrag, toPage, refusedDrag, mixed>>

\* The server makes an expression, or fails, and nothing is sent.
Answers(i) ==
    /\ i \in DOMAIN asking /\ asking' = RemoveAt(asking, i)
    /\ toPage' = Append(toPage, asking[i]) /\ mixed' = IF i = 1 THEN mixed ELSE Tabs
    /\ UNCHANGED <<shownResult, activeTab, chosen, cachedDrag, toHost, hostChoice, refusedDrag>>

AnswersNothing(i) ==
    /\ i \in DOMAIN asking /\ asking' = RemoveAt(asking, i)
    /\ mixed' = Tabs /\ refusedDrag' = FALSE
    /\ UNCHANGED <<shownResult, activeTab, chosen, cachedDrag, toHost, hostChoice, toPage>>

\* onMessage: the active table takes it.
PageReceives ==
    /\ toPage # <<>> /\ toPage' = Tail(toPage)
    /\ cachedDrag' = [cachedDrag EXCEPT ![activeTab] = Head(toPage)] /\ refusedDrag' = FALSE
    /\ UNCHANGED <<shownResult, activeTab, chosen, toHost, hostChoice, asking, mixed>>

DragNext ==
    \/ \E c \in Picks : Choose(c)
    \/ \E t \in Tabs : SwitchTab(t) \/ ShowOther(t)
    \/ RefuseDrag \/ HostReceives \/ PageReceives
    \/ \E i \in DOMAIN asking : Answers(i) \/ AnswersNothing(i)

DragSpec == DragInit /\ [][DragNext]_dragVars

\* Messages arrive, and the server answers the request it has had the longest.
DragFairness ==
    WF_dragVars(HostReceives) /\ WF_dragVars(PageReceives) /\ WF_dragVars(Answers(1) \/ AnswersNothing(1))
-----------------------------------------------------------------------------
\* Once the page's messages have arrived, the host selects (and copies) in every
\* table what is selected on the page, whatever earlier pages still had to say.
HostHasChoice == toHost = <<>> => hostChoice = chosen

\* Once nothing is under way, a drag carries what is selected in its own table,
\* unless answers were lost or overtook each other, or the tab was switched or the
\* result replaced while some were under way.
DragCarriesChoice ==
    UnderWay = 0 => \A t \in Tabs \ mixed : cachedDrag[t] \in {None, Made(t, chosen[t])}

\* A drag that was refused can be repeated before long.
DragIsServed == refusedDrag ~> ~refusedDrag

\* The host and the drag have what is selected (see the parts above).
DragIsSound == DragTypeOK /\ HostHasChoice /\ DragCarriesChoice
===============================================================================
