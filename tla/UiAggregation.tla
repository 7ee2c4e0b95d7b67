--------------------------- MODULE UiAggregation ----------------------------
(***************************************************************************)
(* The editor of an aggregation with expressions of the user's own         *)
(* (AggregationEditor.js): four expressions, each on a tab, behind one     *)
(* code editor.  The page works on drafts that it takes from the step when *)
(* it is opened and gives back, all four, when it is saved.  What is typed *)
(* becomes a draft a moment later, that of the tab which is open then.     *)
(*                                                                         *)
(* A text carries the tab that it was typed on.                            *)
(***************************************************************************)
EXTENDS Naturals

CONSTANTS
    Tab,          \* initExpression, expression, finalExpression, mergeExpression
    FirstTab,     \* the tab that is open at first
    Formula,      \* what can be typed
    NoFormula,    \* an expression that was not given yet
    MaxTests      \* bound: tests that the server has not answered

ASSUME AggregationAssumption ==
    /\ FirstTab \in Tab
    /\ NoFormula \notin Formula
    /\ MaxTests \in Nat

VARIABLES
    expressions,  \* the expressions of the step
    drafts,       \* those of the page, if it is open
    intended,     \* the drafts, were every key handed over at once (history)
    onPage,       \* the page is there
    activeTab,    \* activeKey
    code,         \* the text in the code editor
    tests,        \* how many tests have not been answered
    queryResult,  \* what stands below: nothing, the cup of coffee of a test, an answer
    disturbed     \* a render came within the moment (history)

aggregationVars ==
    <<expressions, drafts, intended, onPage, activeTab, code, tests, queryResult, disturbed>>
-----------------------------------------------------------------------------
Draft == [on : Tab, text : Formula \cup {NoFormula}]
NoDrafts == [k \in Tab |-> [on |-> k, text |-> NoFormula]]

AggregationTypeOK ==
    /\ {expressions, drafts, intended} \subseteq [Tab -> Draft]
    /\ onPage \in BOOLEAN /\ activeTab \in Tab /\ code \in Draft
    /\ tests \in 0..MaxTests
    /\ queryResult \in {"", "coffee", "answer"}
    /\ disturbed \in BOOLEAN

AggregationInit ==
    /\ expressions = NoDrafts /\ drafts = NoDrafts /\ intended = NoDrafts
    /\ onPage = FALSE /\ activeTab = FirstTab /\ code = NoDrafts[FirstTab]
    /\ tests = 0 /\ queryResult = ""
    /\ disturbed = FALSE

Keying == code # drafts[activeTab]

(* A render: the code editor shows the draft of the tab that is open. *)
ShowTab(ds, k) ==
    /\ drafts' = ds /\ activeTab' = k
    /\ code' = ds[k]
    /\ disturbed' = (disturbed \/ Keying)

(* The page is opened: componentDidMount. *)
OpenEditor ==
    /\ ~onPage
    /\ onPage' = TRUE
    /\ drafts' = expressions /\ intended' = expressions
    /\ activeTab' = FirstTab /\ code' = expressions[FirstTab]
    /\ queryResult' = "" /\ disturbed' = FALSE
    /\ UNCHANGED <<expressions, tests>>

(* The page is closed: what was not saved is gone, unasked.  An answer that *)
(* comes later changes nothing.                                            *)
CloseEditor ==
    /\ onPage
    /\ onPage' = FALSE
    /\ drafts' = NoDrafts /\ intended' = NoDrafts
    /\ activeTab' = FirstTab /\ code' = NoDrafts[FirstTab]
    /\ tests' = 0 /\ queryResult' = "" /\ disturbed' = FALSE
    /\ UNCHANGED expressions

(* For the mutation checks: the text stays in the code editor.             *)
SwitchKeepingText(k) ==
    /\ onPage /\ k # activeTab
    /\ activeTab' = k
    /\ UNCHANGED <<expressions, drafts, intended, onPage, code, tests, queryResult, disturbed>>

SwitchExpression(k) ==
    /\ onPage /\ k # activeTab
    /\ ShowTab(drafts, k)
    /\ UNCHANGED <<expressions, intended, onPage, tests, queryResult>>

TypeFormula(text) ==
    /\ onPage /\ text # code.text
    /\ code' = [on |-> activeTab, text |-> text]
    /\ intended' = [intended EXCEPT ![activeTab] = code']
    /\ UNCHANGED <<expressions, drafts, onPage, activeTab, tests, queryResult, disturbed>>

(* editorOnChange, a moment after the last key. *)
EditorOnChange ==
    /\ onPage /\ Keying
    /\ drafts' = [drafts EXCEPT ![activeTab] = code]
    /\ UNCHANGED <<expressions, intended, onPage, activeTab, code, tests, queryResult, disturbed>>

(* The button of the page: all four drafts go into the step. *)
SaveExpressions ==
    /\ onPage
    /\ expressions' = drafts
    /\ ShowTab(drafts, activeTab)
    /\ UNCHANGED <<intended, onPage, tests, queryResult>>

(* Another page of the object changes the step: the page shows its drafts. *)
ChangeElsewhere(k, text) ==
    /\ text # expressions[k].text
    /\ expressions' = [expressions EXCEPT ![k] = [on |-> k, text |-> text]]
    /\ IF onPage THEN ShowTab(drafts, activeTab) ELSE UNCHANGED <<drafts, activeTab, code, disturbed>>
    /\ UNCHANGED <<intended, onPage, tests, queryResult>>

(* runValidation: the drafts are tested on the server. *)
RunValidation ==
    /\ onPage /\ tests < MaxTests
    /\ tests' = tests + 1 /\ queryResult' = "coffee"
    /\ ShowTab(drafts, activeTab)
    /\ UNCHANGED <<expressions, intended, onPage>>

(* The answer, or the error, which Resource has shown. *)
Tested(result) ==
    /\ tests > 0
    /\ tests' = tests - 1 /\ queryResult' = result
    /\ ShowTab(drafts, activeTab)
    /\ UNCHANGED <<expressions, intended, onPage>>

AggregationNext ==
    \/ OpenEditor \/ CloseEditor
    \/ \E k \in Tab : SwitchExpression(k)
    \/ \E text \in Formula : TypeFormula(text)
    \/ EditorOnChange \/ SaveExpressions
    \/ \E k \in Tab, text \in Formula : ChangeElsewhere(k, text)
    \/ RunValidation
    \/ \E result \in {"answer", ""} : Tested(result)

AggregationSpec == AggregationInit /\ [][AggregationNext]_aggregationVars
-----------------------------------------------------------------------------
(* A text that was typed on a tab never becomes the expression of another, *)
(* in the page or in the step; and what was typed is the draft, unless the *)
(* page was rendered before it was handed over.                            *)
DraftsAreTheirOwn ==
    /\ \A k \in Tab : drafts[k].on = k /\ expressions[k].on = k
    /\ ~disturbed /\ ~Keying => drafts = intended

(* The cup of coffee stands on the page only while a test is under way.    *)
CoffeeIsForATest == queryResult = "coffee" => tests > 0
=============================================================================
