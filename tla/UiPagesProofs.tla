--------------------------- MODULE UiPagesProofs ----------------------------
(***************************************************************************)
(* Proofs about the pages of the client, for any number of tabs, fields,   *)
(* rows, jobs, tasks and requests: that texts which are handed over with a *)
(* delay reach what they were typed for, that answers are shown where they *)
(* were asked for, and that the fields of a port arrive at all ports behind*)
(* it.                                                                     *)
(***************************************************************************)
EXTENDS UiTargetsProofs, UiPages

-----------------------------------------------------------------------------
(* The editor of an aggregation (UiAggregation).                           *)

(* A text stays with its tab, the one in the code editor with the tab that *)
(* is open; and what was typed is in the draft or in the code editor.      *)
TextsInv ==
    /\ \A k \in Tab : drafts[k].on = k /\ expressions[k].on = k
    /\ code.on = activeTab
    /\ ~disturbed => \A k \in Tab : intended[k] = IF k = activeTab THEN code ELSE drafts[k]

AggregationInv == AggregationTypeOK /\ TextsInv /\ CoffeeIsForATest

LEMMA NoDraftsTyped ==
  /\ NoDrafts \in [Tab -> Draft]
  /\ \A k \in Tab : NoDrafts[k].on = k
BY DEF NoDrafts, Draft

LEMMA Counted ==
  ASSUME NEW m \in Nat, NEW t \in 0..m
  PROVE  /\ 0 \in 0..m
         /\ t > 0 => t - 1 \in 0..m
         /\ t < m => t + 1 \in 0..m /\ t + 1 > 0
OBVIOUS

(* The type invariant, variable by variable, now and after a step.         *)
LEMMA AggregationParts ==
  AggregationTypeOK <=>
    /\ expressions \in [Tab -> Draft] /\ drafts \in [Tab -> Draft] /\ intended \in [Tab -> Draft]
    /\ onPage \in BOOLEAN /\ activeTab \in Tab /\ code \in Draft
    /\ tests \in 0..MaxTests /\ queryResult \in {"", "coffee", "answer"} /\ disturbed \in BOOLEAN
BY DEF AggregationTypeOK

LEMMA AggregationPartsPrime ==
  AggregationTypeOK' <=>
    /\ expressions' \in [Tab -> Draft] /\ drafts' \in [Tab -> Draft] /\ intended' \in [Tab -> Draft]
    /\ onPage' \in BOOLEAN /\ activeTab' \in Tab /\ code' \in Draft
    /\ tests' \in 0..MaxTests /\ queryResult' \in {"", "coffee", "answer"} /\ disturbed' \in BOOLEAN
BY DEF AggregationTypeOK

LEMMA AggregationInvInit == AggregationInit => AggregationInv
<1> SUFFICES ASSUME AggregationInit PROVE AggregationInv
  OBVIOUS
<1>1. NoDrafts[FirstTab] \in Draft /\ NoDrafts[FirstTab].on = FirstTab /\ FirstTab \in Tab
  BY NoDraftsTyped, AggregationAssumption
<1>0. 0 \in 0..MaxTests
  BY AggregationAssumption
<1>2. AggregationTypeOK
  BY ONLY <1>0, <1>1, NoDraftsTyped, AggregationParts, AggregationInit DEF AggregationInit
<1>3. TextsInv /\ CoffeeIsForATest
  BY <1>1, NoDraftsTyped DEF AggregationInit, TextsInv, CoffeeIsForATest
<1>4. QED
  BY <1>2, <1>3 DEF AggregationInv

(* A render of the same drafts shows what was typed, or is remembered.     *)
LEMMA ShownTab ==
  ASSUME AggregationTypeOK, TextsInv, NEW k \in Tab, ShowTab(drafts, k),
         UNCHANGED <<intended>>, expressions' \in [Tab -> Draft],
         \A j \in Tab : expressions'[j].on = j
  PROVE  /\ drafts' \in [Tab -> Draft] /\ intended' \in [Tab -> Draft]
         /\ activeTab' \in Tab /\ code' \in Draft /\ disturbed' \in BOOLEAN
         /\ TextsInv'
<1>1. drafts' = drafts /\ activeTab' = k /\ code' = drafts[k] /\ intended' = intended
  BY DEF ShowTab
<1>2. disturbed' = (disturbed \/ Keying)
  BY DEF ShowTab
<1>3. ASSUME ~disturbed' PROVE \A j \in Tab : intended'[j] = IF j = k THEN code' ELSE drafts'[j]
  <2>1. ~disturbed /\ code = drafts[activeTab]
    BY <1>2, <1>3 DEF Keying
  <2>2. \A j \in Tab : intended[j] = drafts[j]
    BY <2>1 DEF TextsInv
  <2>3. QED
    BY <1>1, <2>2
<1>4. TextsInv'
  BY <1>1, <1>3 DEF TextsInv
<1>5. disturbed' \in BOOLEAN
  BY <1>2, AggregationParts
<1>6. QED
  BY <1>1, <1>4, <1>5, AggregationParts

LEMMA AggregationInvNext == AggregationInv /\ [AggregationNext]_aggregationVars => AggregationInv'
<1> SUFFICES ASSUME AggregationInv, [AggregationNext]_aggregationVars PROVE AggregationInv'
  OBVIOUS
<1>0. /\ AggregationTypeOK /\ TextsInv /\ CoffeeIsForATest
      /\ expressions \in [Tab -> Draft] /\ drafts \in [Tab -> Draft] /\ intended \in [Tab -> Draft]
      /\ onPage \in BOOLEAN /\ activeTab \in Tab /\ code \in Draft
      /\ tests \in 0..MaxTests /\ queryResult \in {"", "coffee", "answer"} /\ disturbed \in BOOLEAN
      /\ MaxTests \in Nat /\ FirstTab \in Tab
  BY AggregationParts, AggregationAssumption DEF AggregationInv
<1>a. ASSUME AggregationTypeOK', TextsInv', CoffeeIsForATest' PROVE AggregationInv'
  BY <1>a DEF AggregationInv
<1>b. \A j \in Tab : expressions[j].on = j
  BY <1>0 DEF TextsInv
<1>1. CASE UNCHANGED aggregationVars
  BY <1>0, <1>1, <1>a, AggregationPartsPrime DEF aggregationVars, TextsInv, CoffeeIsForATest
<1>2. CASE OpenEditor
  <2>1. TextsInv' /\ CoffeeIsForATest'
    BY <1>0, <1>2 DEF OpenEditor, TextsInv, CoffeeIsForATest
  <2>2. QED
    BY <1>0, <1>2, <1>a, <2>1, AggregationPartsPrime DEF OpenEditor
<1>3. CASE CloseEditor
  <2>1. TextsInv' /\ CoffeeIsForATest'
    BY <1>0, <1>3, NoDraftsTyped DEF CloseEditor, TextsInv, CoffeeIsForATest
  <2>2. NoDrafts[FirstTab] \in Draft /\ 0 \in 0..MaxTests
    BY ONLY <1>0, NoDraftsTyped, Counted
  <2>3. AggregationTypeOK'
    BY ONLY <1>0, <1>3, <2>2, NoDraftsTyped, AggregationPartsPrime DEF CloseEditor
  <2>4. QED
    BY <1>a, <2>1, <2>3
<1>4. ASSUME NEW k \in Tab, SwitchExpression(k) PROVE AggregationInv'
  BY <1>0, <1>a, <1>b, <1>4, ShownTab, AggregationPartsPrime DEF SwitchExpression, CoffeeIsForATest
<1>5. ASSUME NEW text \in Formula, TypeFormula(text) PROVE AggregationInv'
  <2>1. code' \in Draft /\ code'.on = activeTab
    BY <1>0, <1>5 DEF TypeFormula, Draft
  <2>2. /\ intended' = [intended EXCEPT ![activeTab] = code']
        /\ UNCHANGED <<expressions, drafts, onPage, activeTab, tests, queryResult, disturbed>>
    BY <1>5 DEF TypeFormula
  <2>3. intended' \in [Tab -> Draft]
    BY <1>0, <2>1, <2>2
  <2>4. TextsInv' /\ CoffeeIsForATest'
    BY <1>0, <2>1, <2>2 DEF TextsInv, CoffeeIsForATest
  <2>5. QED
    BY <1>0, <1>a, <2>1, <2>2, <2>3, <2>4, AggregationPartsPrime
<1>6. CASE EditorOnChange
  <2>1. /\ drafts' = [drafts EXCEPT ![activeTab] = code]
        /\ UNCHANGED <<expressions, intended, onPage, activeTab, code, tests, queryResult, disturbed>>
    BY <1>6 DEF EditorOnChange
  <2>2. TextsInv' /\ CoffeeIsForATest'
    BY <1>0, <2>1 DEF CoffeeIsForATest, TextsInv
  <2>3. QED
    BY <1>0, <1>a, <2>1, <2>2, AggregationPartsPrime
<1>7. CASE SaveExpressions
  <2>1. ShowTab(drafts, activeTab) /\ expressions' = drafts
        /\ UNCHANGED <<intended, onPage, tests, queryResult>>
    BY <1>7 DEF SaveExpressions
  <2>2. \A j \in Tab : expressions'[j].on = j
    BY <1>0, <2>1 DEF TextsInv
  <2>3. QED
    BY <1>0, <1>a, <2>1, <2>2, ShownTab, AggregationPartsPrime DEF CoffeeIsForATest
<1>8. ASSUME NEW k \in Tab, NEW text \in Formula, ChangeElsewhere(k, text) PROVE AggregationInv'
  <2>1. /\ expressions' = [expressions EXCEPT ![k] = [on |-> k, text |-> text]]
        /\ UNCHANGED <<intended, onPage, tests, queryResult>>
    BY <1>8 DEF ChangeElsewhere
  <2>2. expressions' \in [Tab -> Draft] /\ \A j \in Tab : expressions'[j].on = j
    BY <1>0, <2>1 DEF Draft, TextsInv
  <2>3. CASE ~onPage
    <3>1. UNCHANGED <<drafts, activeTab, code, disturbed>>
      BY <1>8, <2>3 DEF ChangeElsewhere
    <3>2. TextsInv' /\ CoffeeIsForATest'
      BY <1>0, <2>1, <2>2, <3>1 DEF TextsInv, CoffeeIsForATest
    <3>3. QED
      BY <1>0, <1>a, <2>1, <2>2, <3>1, <3>2, AggregationPartsPrime
  <2>4. CASE onPage
    <3>1. ShowTab(drafts, activeTab)
      BY <1>8, <2>4 DEF ChangeElsewhere
    <3>2. QED
      BY <1>0, <1>a, <2>1, <2>2, <3>1, ShownTab, AggregationPartsPrime DEF CoffeeIsForATest
  <2>5. QED
    BY <2>3, <2>4
<1>9. CASE RunValidation
  <2>1. /\ ShowTab(drafts, activeTab) /\ UNCHANGED <<expressions, intended, onPage>>
        /\ tests < MaxTests /\ tests' = tests + 1 /\ queryResult' = "coffee"
    BY <1>9 DEF RunValidation
  <2>2. tests' \in 0..MaxTests /\ CoffeeIsForATest'
    BY ONLY <1>0, <2>1, Counted DEF CoffeeIsForATest
  <2>3. QED
    BY <1>0, <1>a, <1>b, <2>1, <2>2, ShownTab, AggregationPartsPrime
<1>10. ASSUME NEW result \in {"answer", ""}, Tested(result) PROVE AggregationInv'
  <2>1. /\ ShowTab(drafts, activeTab) /\ UNCHANGED <<expressions, intended, onPage>>
        /\ tests > 0 /\ tests' = tests - 1 /\ queryResult' = result
    BY <1>10 DEF Tested
  <2>2. tests' \in 0..MaxTests
    BY ONLY <1>0, <2>1, Counted
  <2>3. CoffeeIsForATest' /\ queryResult' \in {"", "coffee", "answer"}
    BY ONLY <2>1 DEF CoffeeIsForATest
  <2>4. QED
    BY <1>0, <1>a, <1>b, <2>1, <2>2, <2>3, ShownTab, AggregationPartsPrime
<1>11. QED
  BY <1>1, <1>2, <1>3, <1>4, <1>5, <1>6, <1>7, <1>8, <1>9, <1>10 DEF AggregationNext

(* The inductive invariant of the editor of an aggregation.                *)
THEOREM AggregationInvariant == AggregationSpec => []AggregationInv
BY AggregationInvInit, AggregationInvNext, PTL DEF AggregationSpec

(* The drafts, the code editor and the tests keep their types.             *)
THEOREM AggregationTypeCorrect == AggregationSpec => []AggregationTypeOK
<1>1. AggregationInv => AggregationTypeOK
  BY DEF AggregationInv
<1>2. QED
  BY <1>1, AggregationInvariant, PTL

(* A text that was typed on a tab never becomes the expression of another  *)
(* one, and is the draft of its own unless a render came before it was     *)
(* handed over (AggregationEditor.js, one code editor behind four tabs).   *)
THEOREM DraftsOwnCorrect == AggregationSpec => []DraftsAreTheirOwn
<1>1. ASSUME AggregationInv PROVE DraftsAreTheirOwn
  <2>1. /\ drafts \in [Tab -> Draft] /\ intended \in [Tab -> Draft] /\ TextsInv
    BY <1>1, AggregationParts DEF AggregationInv
  <2>2. ASSUME ~disturbed, ~Keying PROVE drafts = intended
    <3>1. \A k \in Tab : intended[k] = drafts[k]
      BY <2>1, <2>2 DEF TextsInv, Keying
    <3>2. QED
      BY <2>1, <3>1
  <2>3. QED
    BY <2>1, <2>2 DEF TextsInv, DraftsAreTheirOwn
<1>2. QED
  BY <1>1, AggregationInvariant, PTL

(* The cup of coffee is on the page only while a test is under way         *)
(* (runValidation of AggregationEditor.js).                                *)
THEOREM CoffeeCorrect == AggregationSpec => []CoffeeIsForATest
<1>1. AggregationInv => CoffeeIsForATest
  BY DEF AggregationInv
<1>2. QED
  BY <1>1, AggregationInvariant, PTL
-----------------------------------------------------------------------------
(* The editor of a projection (UiProjection).                              *)

(* A list of distinct fields, of those that were made, each with a text    *)
(* that was typed for it.                                                  *)
Fields(list, n) ==
    /\ list \in Seq(OutputField) /\ Len(list) <= MaxOutputFields
    /\ \A i, j \in 1 .. Len(list) : i # j => list[i].key # list[j].key
    /\ \A i \in 1 .. Len(list) : list[i].text.for = list[i].key /\ list[i].key <= n

(* What was typed was handed over.                                         *)
Handed(list) == \A i \in 1 .. Len(list) : list[i].meant = list[i].text

ListInv ==
    /\ newFields \in 0..MaxNewFields
    /\ Fields(outputs, newFields)
    /\ row \in -1..MaxOutputFields

(* The code editor has a text for the selected field; and unless a render  *)
(* came before, what was not handed over is in the code editor.            *)
EditorInv ==
    /\ buffer \in Text /\ hurried \in BOOLEAN
    /\ buffer.for = Expression(outputs, row).for
    /\ ~hurried => \A i \in 1 .. Len(outputs) :
          outputs[i].meant = IF i = row /\ HasEditor THEN buffer ELSE outputs[i].text

(* Checks and messages are of the selected field, unless another one was   *)
(* selected meanwhile.                                                     *)
ChecksInv ==
    /\ checks \in [Key -> 0..MaxChecks]
    /\ verdict \in 0..MaxNewFields
    /\ strayed \in BOOLEAN
    /\ ~strayed => \A k \in Key :
          checks[k] > 0 \/ verdict = k => row \in 1 .. Len(outputs) /\ outputs[row].key = k

ProjectionInv == ListInv /\ EditorInv /\ ChecksInv

LEMMA ProjectionConstants ==
  /\ MaxOutputFields \in Nat \ {0} /\ MaxNewFields \in Nat /\ MaxChecks \in Nat
  /\ NoEditor \in Text /\ NoEditor.for = 0
BY ProjectionAssumption DEF NoEditor, NoField, Text

LEMMA FieldOfList ==
  ASSUME NEW n, NEW list, Fields(list, n), NEW i \in 1 .. Len(list)
  PROVE  /\ list[i] \in OutputField /\ list[i].key \in Key
         /\ list[i].text \in Text /\ list[i].meant \in Text
         /\ list[i].text.for = list[i].key
<1>1. list[i] \in OutputField
  BY ElementOfSeq DEF Fields
<1>2. QED
  BY <1>1 DEF Fields, OutputField

LEMMA DomainOfList ==
  ASSUME NEW n, NEW list, Fields(list, n)
  PROVE  DOMAIN list = 1 .. Len(list) /\ Len(list) \in Nat
BY LenProperties DEF Fields

(* What the code editor is given is the text of the selected field.        *)
LEMMA EditorOf ==
  ASSUME NEW n, NEW list, Fields(list, n), NEW r
  PROVE  /\ Expression(list, r) \in Text
         /\ Expression(list, r) # NoEditor <=>
               r \in 1 .. Len(list) /\ list[r].kind \in {"SQL", "TRANSFORM"}
         /\ Expression(list, r) # NoEditor => Expression(list, r) = list[r].text
<1>1. CASE r \in 1 .. Len(list) /\ list[r].kind \in {"SQL", "TRANSFORM"}
  <2>1. Expression(list, r) = list[r].text
    BY <1>1, DomainOfList DEF Expression
  <2>2. list[r].text \in Text /\ list[r].text.for \in Key
    BY <1>1, FieldOfList
  <2>3. list[r].text # NoEditor
    BY <2>2, ProjectionConstants DEF Key
  <2>4. QED
    BY <1>1, <2>1, <2>2, <2>3
<1>2. CASE ~(r \in 1 .. Len(list) /\ list[r].kind \in {"SQL", "TRANSFORM"})
  <2>1. Expression(list, r) = NoEditor
    BY <1>2, DomainOfList DEF Expression
  <2>2. QED
    BY <1>2, <2>1, ProjectionConstants
<1>3. QED
  BY <1>1, <1>2

(* A field with an editor is the selected one, and its text is for it.     *)
LEMMA Selected ==
  ASSUME ListInv, EditorInv, HasEditor
  PROVE  /\ row \in 1 .. Len(outputs) /\ row \in DOMAIN outputs
         /\ outputs[row].kind \in {"SQL", "TRANSFORM"}
         /\ Expression(outputs, row) = outputs[row].text
         /\ outputs[row] \in OutputField /\ outputs[row].key \in Key
         /\ buffer.for = outputs[row].key
<1>1. Fields(outputs, newFields)
  BY DEF ListInv
<1>2. /\ row \in 1 .. Len(outputs) /\ outputs[row].kind \in {"SQL", "TRANSFORM"}
      /\ Expression(outputs, row) = outputs[row].text
  BY <1>1, EditorOf DEF HasEditor
<1>3. /\ row \in DOMAIN outputs /\ outputs[row] \in OutputField /\ outputs[row].key \in Key
      /\ outputs[row].text.for = outputs[row].key
  BY <1>1, <1>2, DomainOfList, FieldOfList
<1>4. QED
  BY <1>2, <1>3 DEF EditorInv

(* What was typed was handed over when the code editor shows what it was   *)
(* given.                                                                  *)
LEMMA HandedOver ==
  ASSUME ListInv, EditorInv, ~hurried, ~Typing
  PROVE  Handed(outputs)
<1>1. Fields(outputs, newFields) /\ buffer = Expression(outputs, row)
  BY DEF ListInv, Typing
<1>2. \A i \in 1 .. Len(outputs) :
         outputs[i].meant = IF i = row /\ HasEditor THEN buffer ELSE outputs[i].text
  BY DEF EditorInv
<1>3. HasEditor => buffer = outputs[row].text
  BY <1>1, EditorOf DEF HasEditor
<1>4. QED
  BY <1>2, <1>3 DEF Handed

(* A render keeps what the code editor promises.                           *)
LEMMA Rendered ==
  ASSUME ListInv, EditorInv, NEW list, NEW r \in -1..MaxOutputFields, NEW n \in 0..MaxNewFields,
         Fields(list, n), Handed(outputs) => Handed(list), Render(list, r), newFields' = n
  PROVE  /\ ListInv' /\ EditorInv'
         /\ outputs' = list /\ row' = r
<1>1. outputs' = list /\ row' = r /\ buffer' = Expression(list, r)
  BY DEF Render
<1>2. hurried' = (hurried \/ Typing)
  BY DEF Render
<1>3. ListInv'
  BY <1>1 DEF ListInv
<1>4. buffer' \in Text /\ hurried' \in BOOLEAN
  BY <1>1, <1>2, EditorOf DEF EditorInv
<1>5. buffer'.for = Expression(list, r).for
  BY <1>1
<1>6. ASSUME ~hurried', NEW i \in 1 .. Len(list)
      PROVE  list[i].meant = IF i = r /\ Expression(list, r) # NoEditor THEN buffer' ELSE list[i].text
  <2>1. Handed(list)
    BY <1>2, <1>6, HandedOver
  <2>2. list[i].meant = list[i].text
    BY <2>1 DEF Handed
  <2>3. Expression(list, r) # NoEditor => buffer' = list[r].text
    BY <1>1, EditorOf
  <2>4. QED
    BY <2>2, <2>3
<1>7. EditorInv'
  BY <1>1, <1>4, <1>5, <1>6 DEF EditorInv, HasEditor
<1>8. QED
  BY <1>1, <1>3, <1>7

(* The same checks, and the same field selected.                           *)
LEMMA ChecksStay ==
  ASSUME ChecksInv, UNCHANGED <<checks, verdict, strayed>>,
         row \in 1 .. Len(outputs) =>
            row' \in 1 .. Len(outputs') /\ outputs'[row'].key = outputs[row].key
  PROVE  ChecksInv'
BY DEF ChecksInv

(* Another field is selected: it is remembered, or there is no check.      *)
LEMMA ChecksLeft ==
  ASSUME ChecksInv, Strays, UNCHANGED <<checks, verdict>>
  PROVE  ChecksInv'
<1>1. strayed' = (strayed \/ verdict # NoField \/ Checking)
  BY DEF Strays
<1>2. strayed' \in BOOLEAN
  BY <1>1 DEF ChecksInv
<1>3. ASSUME ~strayed', NEW k \in Key PROVE ~(checks[k] > 0 \/ verdict = k)
  <2>1. verdict = 0 /\ ~Checking
    BY <1>1, <1>3 DEF NoField
  <2>2. k # 0
    BY ProjectionConstants DEF Key
  <2>3. QED
    BY <2>1, <2>2 DEF Checking
<1>4. QED
  BY <1>2, <1>3 DEF ChecksInv

LEMMA ProjectionInvInit == ProjectionInit => ProjectionInv
<1> SUFFICES ASSUME ProjectionInit PROVE ProjectionInv
  OBVIOUS
<1>1. Fields(<<>>, 0) /\ Len(<<>>) = 0 /\ DOMAIN <<>> = {}
  BY EmptySeq, ProjectionConstants DEF Fields
<1>2. ListInv
  <2>1. 1 \in -1..MaxOutputFields /\ 0 \in 0..MaxNewFields
    BY ProjectionConstants
  <2>2. QED
    BY ONLY <1>1, <2>1, ProjectionInit DEF ProjectionInit, ListInv
<1>3. Expression(<<>>, 1) = NoEditor
  BY <1>1 DEF Expression
<1>4. EditorInv
  <2>1. outputs = <<>> /\ row = 1 /\ buffer = NoEditor /\ hurried = FALSE
    BY DEF ProjectionInit
  <2>2. Expression(outputs, row) = buffer
    BY <1>3, <2>1
  <2>3. 1 .. Len(outputs) = {}
    BY <1>1, <2>1
  <2>4. QED
    BY ONLY <2>1, <2>2, <2>3, ProjectionConstants DEF EditorInv
<1>5. ChecksInv
  <2>1. /\ checks \in [Key -> 0..MaxChecks] /\ verdict \in 0..MaxNewFields
        /\ \A k \in Key : ~(checks[k] > 0) /\ verdict # k
    BY ProjectionConstants DEF ProjectionInit, NoField, Key
  <2>2. QED
    BY <2>1 DEF ProjectionInit, ChecksInv
<1>6. QED
  BY <1>2, <1>4, <1>5 DEF ProjectionInv

LEMMA SelectFieldKeeps ==
  ASSUME ProjectionInv, NEW i \in DOMAIN outputs, SelectField(i) PROVE ProjectionInv'
<1>1. /\ ListInv /\ EditorInv /\ ChecksInv
      /\ Fields(outputs, newFields) /\ newFields \in 0..MaxNewFields
  BY DEF ProjectionInv, ListInv
<1>2. /\ Render(outputs, i) /\ verdict' = NoField /\ strayed' = (strayed \/ Checking)
      /\ checks' = checks /\ newFields' = newFields
  BY DEF SelectField
<1>3. i \in -1..MaxOutputFields
  BY <1>1, DomainOfList, ProjectionConstants DEF Fields
<1>4. ListInv' /\ EditorInv'
  BY <1>1, <1>2, <1>3, Rendered
<1>5. ChecksInv'
  <2>1. strayed' \in BOOLEAN /\ verdict' \in 0..MaxNewFields
    BY <1>1, <1>2, ProjectionConstants DEF ChecksInv, NoField
  <2>2. ASSUME ~strayed', NEW k \in Key PROVE ~(checks'[k] > 0 \/ verdict' = k)
    <3>1. ~Checking /\ verdict' = 0 /\ checks' = checks
      BY <1>2, <2>2 DEF NoField
    <3>2. k # 0
      BY ProjectionConstants DEF Key
    <3>3. QED
      BY <3>1, <3>2 DEF Checking
  <2>3. QED
    BY <1>1, <1>2, <2>1, <2>2 DEF ChecksInv
<1>6. QED
  BY <1>4, <1>5 DEF ProjectionInv

LEMMA NewFieldKeeps == ASSUME ProjectionInv, NewField PROVE ProjectionInv'
<1> DEFINE n == newFields + 1
           text == [for |-> n, code |-> Blank]
           field == [key |-> n, kind |-> "SQL", text |-> text, meant |-> text]
           list == Append(outputs, field)
<1>1. /\ ListInv /\ EditorInv /\ ChecksInv
      /\ Fields(outputs, newFields) /\ newFields \in 0..MaxNewFields
  BY DEF ProjectionInv, ListInv
<1>2. /\ Render(list, Len(outputs) + 1) /\ newFields' = n
      /\ Len(outputs) < MaxOutputFields /\ newFields < MaxNewFields
      /\ Strays /\ UNCHANGED <<checks, verdict>>
  BY DEF NewField
<1>3. /\ Len(outputs) \in Nat /\ outputs \in Seq(OutputField)
      /\ n \in 0..MaxNewFields /\ n \in Key /\ Len(outputs) + 1 \in -1..MaxOutputFields
      /\ Len(outputs) + 1 <= MaxOutputFields
  BY <1>1, <1>2, DomainOfList, ProjectionConstants DEF Fields, Key
<1>4. text \in Text /\ field \in OutputField
  BY <1>3 DEF Text, OutputField, OperationType
<1>5. field.key = n /\ field.text = text /\ field.meant = text /\ text.for = n
  OBVIOUS
<1> HIDE DEF field, text
<1>6. /\ list \in Seq(OutputField) /\ Len(list) = Len(outputs) + 1
      /\ \A j \in 1 .. Len(outputs) : list[j] = outputs[j]
      /\ list[Len(outputs) + 1] = field
  BY <1>3, <1>4, AppendProperties
<1> HIDE DEF list
<1>7. \A j \in 1 .. Len(outputs) : outputs[j].key \in Key /\ outputs[j].key <= newFields
                                     /\ outputs[j].text.for = outputs[j].key
  BY <1>1, FieldOfList DEF Fields
<1>8. \A j \in 1 .. Len(list) : j \in 1 .. Len(outputs) \/ j = Len(outputs) + 1
  BY <1>3, <1>6
<1>9. ASSUME NEW j \in 1 .. Len(list) PROVE list[j].text.for = list[j].key /\ list[j].key <= n
  <2>1. CASE j \in 1 .. Len(outputs)
    <3>1. list[j] = outputs[j] /\ outputs[j].key <= newFields /\ outputs[j].key \in Nat
      BY <1>6, <1>7, <2>1, ProjectionConstants DEF Key
    <3>2. outputs[j].key <= n
      BY <1>1, <3>1
    <3>3. QED
      BY <1>7, <2>1, <3>1, <3>2
  <2>2. CASE j = Len(outputs) + 1
    BY <1>3, <1>5, <1>6, <2>2
  <2>3. QED
    BY <1>8, <2>1, <2>2
<1>10. ASSUME NEW j \in 1 .. Len(list), NEW k \in 1 .. Len(list), j # k
       PROVE  list[j].key # list[k].key
  <2>1. \A m \in 1 .. Len(outputs) : list[m].key # n
    <3>1. ASSUME NEW m \in 1 .. Len(outputs) PROVE list[m].key # n
      BY <1>1, <1>6, <1>7, ProjectionConstants DEF Key
    <3>2. QED
      BY <3>1
  <2>2. list[Len(outputs) + 1].key = n
    BY <1>5, <1>6
  <2>3. CASE j \in 1 .. Len(outputs) /\ k \in 1 .. Len(outputs)
    BY <1>1, <1>6, <1>10, <2>3 DEF Fields
  <2>4. QED
    BY <1>8, <1>10, <2>1, <2>2, <2>3
<1>11. Fields(list, n)
  BY <1>3, <1>6, <1>9, <1>10 DEF Fields
<1>12. Handed(outputs) => Handed(list)
  BY <1>5, <1>6, <1>8 DEF Handed
<1>13. ListInv' /\ EditorInv'
  BY <1>1, <1>2, <1>3, <1>11, <1>12, Rendered
<1>14. ChecksInv'
  BY <1>1, <1>2, ChecksLeft
<1>15. QED
  BY <1>13, <1>14 DEF ProjectionInv

(* A list of some of the fields of a list, in another order.               *)
LEMMA Rearranged ==
  ASSUME NEW n, NEW list, Fields(list, n), NEW new \in Seq(OutputField), Len(new) <= MaxOutputFields,
         NEW old \in [1 .. Len(new) -> 1 .. Len(list)],
         \A j, k \in 1 .. Len(new) : j # k => old[j] # old[k],
         \A j \in 1 .. Len(new) : new[j] = list[old[j]]
  PROVE  Fields(new, n) /\ (Handed(list) => Handed(new))
<1>1. ASSUME NEW j \in 1 .. Len(new), NEW k \in 1 .. Len(new), j # k PROVE new[j].key # new[k].key
  <2>1. old[j] \in 1 .. Len(list) /\ old[k] \in 1 .. Len(list) /\ old[j] # old[k]
    BY <1>1
  <2>2. list[old[j]].key # list[old[k]].key
    BY <2>1 DEF Fields
  <2>3. QED
    BY <2>2
<1>2. ASSUME NEW j \in 1 .. Len(new) PROVE new[j].text.for = new[j].key /\ new[j].key <= n
  <2>1. list[old[j]].text.for = list[old[j]].key /\ list[old[j]].key <= n
    BY DEF Fields
  <2>2. QED
    BY <2>1
<1>3. Fields(new, n)
  BY <1>1, <1>2 DEF Fields
<1>4. ASSUME Handed(list), NEW j \in 1 .. Len(new) PROVE new[j].meant = new[j].text
  <2>1. list[old[j]].meant = list[old[j]].text
    BY <1>4 DEF Handed
  <2>2. QED
    BY <2>1
<1>5. QED
  BY <1>3, <1>4 DEF Handed

(* The selected field goes.                                                *)
LEMMA RemovedField ==
  ASSUME NEW n, NEW list, Fields(list, n), NEW i \in 1 .. Len(list)
  PROVE  Fields(RemoveAt(list, i), n) /\ (Handed(list) => Handed(RemoveAt(list, i)))
<1> DEFINE new == RemoveAt(list, i)
           old == [j \in 1 .. Len(new) |-> IF j < i THEN j ELSE j + 1]
<1>1. list \in Seq(OutputField) /\ Len(list) \in Nat /\ Len(list) <= MaxOutputFields
  BY DomainOfList DEF Fields
<1>2. /\ new \in Seq(OutputField) /\ Len(new) = Len(list) - 1
      /\ \A j \in 1 .. Len(list) - 1 : new[j] = IF j < i THEN list[j] ELSE list[j + 1]
  BY <1>1, RemovedSeq
<1> HIDE DEF new
<1>3. /\ old \in [1 .. Len(new) -> 1 .. Len(list)]
      /\ \A j \in 1 .. Len(new) : new[j] = list[old[j]]
  <2>1. ASSUME NEW j \in 1 .. Len(new)
        PROVE  /\ old[j] \in 1 .. Len(list) /\ new[j] = list[old[j]]
               /\ j \in 1 .. Len(list) - 1
    <3>1. j \in 1 .. Len(list) - 1
      BY <1>2
    <3>2. old[j] = IF j < i THEN j ELSE j + 1
      OBVIOUS
    <3>3. new[j] = IF j < i THEN list[j] ELSE list[j + 1]
      BY <1>2, <3>1
    <3>4. j \in 1 .. Len(list) /\ j + 1 \in 1 .. Len(list)
      BY <1>1, <3>1
    <3>5. QED
      BY <3>1, <3>2, <3>3, <3>4
  <2>2. QED
    BY <2>1
<1>4. \A j, k \in 1 .. Len(new) : j # k => old[j] # old[k]
  BY <1>1, <1>2
<1> HIDE DEF old
<1>5. Len(new) <= MaxOutputFields
  BY <1>1, <1>2, ProjectionConstants
<1>6. QED
  BY <1>2, <1>3, <1>4, <1>5, Rearranged DEF new

LEMMA DropFieldKeeps == ASSUME ProjectionInv, DropField PROVE ProjectionInv'
<1> DEFINE list == IF row \in DOMAIN outputs THEN RemoveAt(outputs, row) ELSE outputs
           r == IF row < Len(outputs) THEN row ELSE Len(outputs) - 1
<1>1. /\ ListInv /\ EditorInv /\ ChecksInv
      /\ Fields(outputs, newFields) /\ newFields \in 0..MaxNewFields /\ row \in -1..MaxOutputFields
  BY DEF ProjectionInv, ListInv
<1>2. Render(list, r) /\ newFields' = newFields /\ Strays /\ UNCHANGED <<checks, verdict>>
  BY DEF DropField
<1>3. Len(outputs) \in Nat /\ Len(outputs) <= MaxOutputFields /\ DOMAIN outputs = 1 .. Len(outputs)
  BY <1>1, DomainOfList DEF Fields
<1>4. r \in -1..MaxOutputFields
  BY <1>1, <1>3, ProjectionConstants
<1>5. Fields(list, newFields) /\ (Handed(outputs) => Handed(list))
  BY <1>1, <1>3, RemovedField
<1> HIDE DEF list, r
<1>6. ListInv' /\ EditorInv'
  BY <1>1, <1>2, <1>4, <1>5, Rendered
<1>7. ChecksInv'
  BY <1>1, <1>2, ChecksLeft
<1>8. QED
  BY <1>6, <1>7 DEF ProjectionInv

(* Two fields change places.                                               *)
LEMMA SwappedFields ==
  ASSUME NEW n, NEW list, Fields(list, n), NEW i \in 1 .. Len(list), i < Len(list)
  PROVE  /\ Fields(Swap(list, i), n) /\ Len(Swap(list, i)) = Len(list)
         /\ Handed(list) => Handed(Swap(list, i))
         /\ Swap(list, i)[i] = list[i + 1] /\ Swap(list, i)[i + 1] = list[i]
<1> DEFINE new == Swap(list, i)
           old == [j \in 1 .. Len(new) |-> IF j = i THEN i + 1 ELSE IF j = i + 1 THEN i ELSE j]
<1>1. list \in Seq(OutputField) /\ Len(list) \in Nat /\ Len(list) <= MaxOutputFields
  BY DomainOfList DEF Fields
<1>2. /\ new \in Seq(OutputField) /\ Len(new) = Len(list)
      /\ \A j \in 1 .. Len(list) :
            new[j] = IF j = i THEN list[i + 1] ELSE IF j = i + 1 THEN list[i] ELSE list[j]
  BY <1>1, SwappedSeq DEF Swap
<1> HIDE DEF new
<1>3. /\ old \in [1 .. Len(new) -> 1 .. Len(list)]
      /\ \A j \in 1 .. Len(new) : new[j] = list[old[j]]
  BY <1>1, <1>2
<1>4. \A j, k \in 1 .. Len(new) : j # k => old[j] # old[k]
  BY <1>1, <1>2
<1>5. new[i] = list[i + 1] /\ new[i + 1] = list[i]
  BY <1>1, <1>2
<1> HIDE DEF old
<1>6. Fields(new, n) /\ (Handed(list) => Handed(new))
  BY <1>1, <1>2, <1>3, <1>4, Rearranged
<1>7. QED
  BY <1>2, <1>5, <1>6 DEF new

LEMMA MoveUpKeeps == ASSUME ProjectionInv, MoveUp PROVE ProjectionInv'
<1> DEFINE list == Swap(outputs, row - 1)
<1>1. /\ ListInv /\ EditorInv /\ ChecksInv
      /\ Fields(outputs, newFields) /\ newFields \in 0..MaxNewFields /\ row \in -1..MaxOutputFields
  BY DEF ProjectionInv, ListInv
<1>2. /\ row > 1 /\ row \in DOMAIN outputs /\ Render(list, row - 1)
      /\ UNCHANGED <<checks, verdict, newFields, strayed>>
  BY DEF MoveUp
<1>3. /\ row - 1 \in 1 .. Len(outputs) /\ row - 1 < Len(outputs) /\ (row - 1) + 1 = row
      /\ row - 1 \in -1..MaxOutputFields
  BY <1>1, <1>2, DomainOfList, ProjectionConstants DEF Fields
<1>4. /\ Fields(list, newFields) /\ Len(list) = Len(outputs)
      /\ Handed(outputs) => Handed(list)
      /\ list[row - 1] = outputs[row]
  BY <1>1, <1>3, SwappedFields
<1> HIDE DEF list
<1>5. ListInv' /\ EditorInv' /\ outputs' = list /\ row' = row - 1
  BY <1>1, <1>2, <1>3, <1>4, Rendered
<1>6. ChecksInv'
  BY <1>1, <1>2, <1>3, <1>4, <1>5, ChecksStay
<1>7. QED
  BY <1>5, <1>6 DEF ProjectionInv

LEMMA MoveDownKeeps == ASSUME ProjectionInv, MoveDown PROVE ProjectionInv'
<1> DEFINE list == Swap(outputs, row)
<1>1. /\ ListInv /\ EditorInv /\ ChecksInv
      /\ Fields(outputs, newFields) /\ newFields \in 0..MaxNewFields /\ row \in -1..MaxOutputFields
  BY DEF ProjectionInv, ListInv
<1>2. /\ row >= 1 /\ row < Len(outputs) /\ Render(list, row + 1)
      /\ UNCHANGED <<checks, verdict, newFields, strayed>>
  BY DEF MoveDown
<1>3. row \in 1 .. Len(outputs) /\ row + 1 \in 1 .. Len(outputs) /\ row + 1 \in -1..MaxOutputFields
  BY <1>1, <1>2, DomainOfList, ProjectionConstants DEF Fields
<1>4. /\ Fields(list, newFields) /\ Len(list) = Len(outputs)
      /\ Handed(outputs) => Handed(list)
      /\ list[row + 1] = outputs[row]
  BY <1>1, <1>2, <1>3, SwappedFields
<1> HIDE DEF list
<1>5. ListInv' /\ EditorInv' /\ outputs' = list /\ row' = row + 1
  BY <1>1, <1>2, <1>3, <1>4, Rendered
<1>6. ChecksInv'
  BY <1>1, <1>2, <1>3, <1>4, <1>5, ChecksStay
<1>7. QED
  BY <1>5, <1>6 DEF ProjectionInv

(* One field is replaced by another state of it.                           *)
LEMMA ReplacedField ==
  ASSUME NEW n, NEW list, Fields(list, n), NEW i \in 1 .. Len(list),
         NEW field \in OutputField, field.key = list[i].key, field.text.for = field.key
  PROVE  LET new == [list EXCEPT ![i] = field]
         IN  /\ Fields(new, n) /\ Len(new) = Len(list)
             /\ \A j \in 1 .. Len(list) : new[j] = IF j = i THEN field ELSE list[j]
<1> DEFINE new == [list EXCEPT ![i] = field]
<1>1. list \in Seq(OutputField) /\ Len(list) \in Nat /\ Len(list) <= MaxOutputFields
  BY DomainOfList DEF Fields
<1>2. /\ new \in Seq(OutputField) /\ Len(new) = Len(list)
      /\ \A j \in 1 .. Len(list) : new[j] = IF j = i THEN field ELSE list[j]
  BY <1>1, ExceptSeq
<1> HIDE DEF new
<1>3. \A j \in 1 .. Len(list) : new[j].key = list[j].key /\ new[j].text.for = list[j].key
  BY <1>2 DEF Fields
<1>4. Fields(new, n)
  BY <1>1, <1>2, <1>3 DEF Fields
<1>5. QED
  BY <1>2, <1>4 DEF new

LEMMA SetOperationTypeKeeps ==
  ASSUME ProjectionInv, NEW kind \in OperationType, SetOperationType(kind) PROVE ProjectionInv'
<1> DEFINE field == [outputs[row] EXCEPT !.kind = kind]
           list == [outputs EXCEPT ![row] = field]
<1>1. /\ ListInv /\ EditorInv /\ ChecksInv
      /\ Fields(outputs, newFields) /\ newFields \in 0..MaxNewFields /\ row \in -1..MaxOutputFields
  BY DEF ProjectionInv, ListInv
<1>2. /\ row \in DOMAIN outputs /\ UNCHANGED <<checks, verdict, newFields, strayed>>
      /\ Render([outputs EXCEPT ![row].kind = kind], row)
  BY DEF SetOperationType
<1>3. [outputs EXCEPT ![row].kind = kind] = list
  OBVIOUS
<1>4. Render(list, row)
  BY <1>2, <1>3
<1>5. row \in 1 .. Len(outputs) /\ outputs[row] \in OutputField
      /\ outputs[row].text.for = outputs[row].key
  BY <1>1, <1>2, DomainOfList, FieldOfList
<1>6. /\ field \in OutputField /\ field.key = outputs[row].key
      /\ field.text = outputs[row].text /\ field.meant = outputs[row].meant
  BY <1>5 DEF OutputField
<1> HIDE DEF field
<1>7. /\ Fields(list, newFields) /\ Len(list) = Len(outputs)
      /\ \A j \in 1 .. Len(outputs) : list[j] = IF j = row THEN field ELSE outputs[j]
  BY <1>1, <1>5, <1>6, ReplacedField
<1> HIDE DEF list
<1>8. Handed(outputs) => Handed(list)
  BY <1>6, <1>7 DEF Handed
<1>9. ListInv' /\ EditorInv' /\ outputs' = list /\ row' = row
  BY <1>1, <1>2, <1>4, <1>7, <1>8, Rendered
<1>10. ChecksInv'
  BY <1>1, <1>2, <1>6, <1>7, <1>9, ChecksStay
<1>11. QED
  BY <1>9, <1>10 DEF ProjectionInv

(* A render that changes nothing.                                          *)
LEMMA RenderedAgain ==
  ASSUME ListInv, EditorInv, Render(outputs, row), newFields' = newFields
  PROVE  ListInv' /\ EditorInv' /\ outputs' = outputs /\ row' = row
<1>1. Fields(outputs, newFields) /\ newFields \in 0..MaxNewFields /\ row \in -1..MaxOutputFields
  BY DEF ListInv
<1>2. QED
  BY <1>1, Rendered

LEMMA SetDetailKeeps == ASSUME ProjectionInv, SetDetail PROVE ProjectionInv'
<1>1. ListInv /\ EditorInv /\ ChecksInv
  BY DEF ProjectionInv
<1>2. Render(outputs, row) /\ UNCHANGED <<checks, verdict, newFields, strayed>>
  BY DEF SetDetail
<1>3. ListInv' /\ EditorInv' /\ outputs' = outputs /\ row' = row
  BY <1>1, <1>2, RenderedAgain
<1>4. ChecksInv'
  BY <1>1, <1>2, <1>3, ChecksStay
<1>5. QED
  BY <1>3, <1>4 DEF ProjectionInv

LEMMA TypeCodeKeeps == ASSUME ProjectionInv, NEW text \in Code, TypeCode(text) PROVE ProjectionInv'
<1> DEFINE field == [outputs[row] EXCEPT !.meant = buffer']
           list == [outputs EXCEPT ![row] = field]
<1>1. ListInv /\ EditorInv /\ ChecksInv /\ Fields(outputs, newFields)
  BY DEF ProjectionInv, ListInv
<1>2. /\ HasEditor /\ buffer' = [for |-> outputs[row].key, code |-> text]
      /\ outputs' = [outputs EXCEPT ![row].meant = buffer']
      /\ UNCHANGED <<row, checks, verdict, newFields, hurried, strayed>>
  BY DEF TypeCode
<1>3. /\ row \in 1 .. Len(outputs) /\ outputs[row] \in OutputField /\ outputs[row].key \in Key
      /\ outputs[row].kind \in {"SQL", "TRANSFORM"} /\ outputs[row].text.for = outputs[row].key
  BY <1>1, <1>2, Selected, FieldOfList
<1>4. outputs' = list
  BY <1>2
<1>5. buffer' \in Text /\ buffer'.for = outputs[row].key
  BY <1>2, <1>3, ProjectionConstants DEF Text, Key
<1>6. /\ field \in OutputField /\ field.key = outputs[row].key /\ field.kind = outputs[row].kind
      /\ field.text = outputs[row].text /\ field.meant = buffer'
  BY <1>3, <1>5 DEF OutputField
<1> HIDE DEF field
<1>7. /\ Fields(list, newFields) /\ Len(list) = Len(outputs)
      /\ \A j \in 1 .. Len(outputs) : list[j] = IF j = row THEN field ELSE outputs[j]
  BY <1>1, <1>3, <1>6, ReplacedField
<1> HIDE DEF list
<1>8. ListInv'
  BY <1>1, <1>2, <1>4, <1>7 DEF ListInv
<1>9. Expression(list, row) # NoEditor /\ Expression(list, row).for = outputs[row].key
  BY <1>3, <1>6, <1>7, EditorOf
<1>10. ASSUME ~hurried, NEW j \in 1 .. Len(list)
       PROVE  list[j].meant = IF j = row THEN buffer' ELSE list[j].text
  BY <1>1, <1>2, <1>6, <1>7, <1>10 DEF EditorInv
<1>11. EditorInv'
  BY <1>1, <1>2, <1>4, <1>5, <1>9, <1>10 DEF EditorInv, HasEditor
<1>12. ChecksInv'
  BY <1>1, <1>2, <1>4, <1>6, <1>7, ChecksStay
<1>13. QED
  BY <1>8, <1>11, <1>12 DEF ProjectionInv

LEMMA CodeChangedKeeps == ASSUME ProjectionInv, CodeChanged PROVE ProjectionInv'
<1> DEFINE field == [outputs[row] EXCEPT !.text = buffer]
           list == [outputs EXCEPT ![row] = field]
<1>1. ListInv /\ EditorInv /\ ChecksInv /\ Fields(outputs, newFields) /\ buffer \in Text
  BY DEF ProjectionInv, ListInv, EditorInv
<1>2. /\ HasEditor /\ outputs' = [outputs EXCEPT ![row].text = buffer]
      /\ UNCHANGED <<row, buffer, checks, verdict, newFields, hurried, strayed>>
  BY DEF CodeChanged
<1>3. /\ row \in 1 .. Len(outputs) /\ outputs[row] \in OutputField
      /\ outputs[row].kind \in {"SQL", "TRANSFORM"} /\ buffer.for = outputs[row].key
  BY <1>1, <1>2, Selected
<1>4. outputs' = list
  BY <1>2
<1>5. /\ field \in OutputField /\ field.key = outputs[row].key /\ field.kind = outputs[row].kind
      /\ field.text = buffer /\ field.meant = outputs[row].meant
  BY <1>1, <1>3 DEF OutputField
<1> HIDE DEF field
<1>6. /\ Fields(list, newFields) /\ Len(list) = Len(outputs)
      /\ \A j \in 1 .. Len(outputs) : list[j] = IF j = row THEN field ELSE outputs[j]
  BY <1>1, <1>3, <1>5, ReplacedField
<1> HIDE DEF list
<1>7. ListInv'
  BY <1>1, <1>2, <1>4, <1>6 DEF ListInv
<1>8. Expression(list, row) # NoEditor /\ Expression(list, row) = buffer
  BY <1>3, <1>5, <1>6, EditorOf
<1>9. ASSUME ~hurried, NEW j \in 1 .. Len(list)
      PROVE  list[j].meant = IF j = row THEN buffer ELSE list[j].text
  BY <1>1, <1>2, <1>5, <1>6, <1>9 DEF EditorInv
<1>10. EditorInv'
  BY <1>1, <1>2, <1>4, <1>8, <1>9 DEF EditorInv, HasEditor
<1>11. ChecksInv'
  BY <1>1, <1>2, <1>4, <1>5, <1>6, ChecksStay
<1>12. QED
  BY <1>7, <1>10, <1>11 DEF ProjectionInv

LEMMA ValidateKeeps == ASSUME ProjectionInv, Validate PROVE ProjectionInv'
<1>1. ListInv /\ EditorInv /\ ChecksInv
  BY DEF ProjectionInv
<1>2. /\ HasEditor /\ checks[outputs[row].key] < MaxChecks /\ Render(outputs, row)
      /\ checks' = [checks EXCEPT ![outputs[row].key] = @ + 1]
      /\ verdict' = NoField /\ UNCHANGED <<newFields, strayed>>
  BY DEF Validate
<1>3. ListInv' /\ EditorInv' /\ outputs' = outputs /\ row' = row
  BY <1>1, <1>2, RenderedAgain
<1>4. row \in 1 .. Len(outputs) /\ outputs[row].key \in Key
  BY <1>1, <1>2, Selected
<1>5. checks[outputs[row].key] + 1 \in 0..MaxChecks
  <2>1. checks[outputs[row].key] \in 0..MaxChecks
    BY <1>1, <1>4 DEF ChecksInv
  <2>2. QED
    BY ONLY <1>2, <2>1, Counted, ProjectionConstants
<1>6. checks' \in [Key -> 0..MaxChecks] /\ \A k \in Key : k # outputs[row].key => checks'[k] = checks[k]
  BY <1>1, <1>2, <1>4, <1>5 DEF ChecksInv
<1>7. verdict' \in 0..MaxNewFields /\ \A k \in Key : verdict' # k
  BY <1>2, ProjectionConstants DEF NoField, Key
<1>8. ChecksInv'
  BY <1>1, <1>2, <1>3, <1>4, <1>6, <1>7 DEF ChecksInv
<1>9. QED
  BY <1>3, <1>8 DEF ProjectionInv

(* A check is answered or fails.                                           *)
LEMMA CheckEnds ==
  ASSUME ChecksInv, NEW k \in Key, checks[k] > 0,
         checks' = [checks EXCEPT ![k] = @ - 1]
  PROVE  checks' \in [Key -> 0..MaxChecks] /\ \A j \in Key : checks'[j] > 0 => checks[j] > 0
<1>1. checks \in [Key -> 0..MaxChecks] /\ checks[k] \in 0..MaxChecks
  BY DEF ChecksInv
<1>2. checks[k] - 1 \in 0..MaxChecks
  BY ONLY <1>1, checks[k] > 0, Counted, ProjectionConstants
<1>3. QED
  BY <1>1, <1>2

LEMMA ValidatedKeeps == ASSUME ProjectionInv, NEW k \in Key, Validated(k) PROVE ProjectionInv'
<1>1. ListInv /\ EditorInv /\ ChecksInv
  BY DEF ProjectionInv
<1>2. /\ checks[k] > 0 /\ Render(outputs, row)
      /\ checks' = [checks EXCEPT ![k] = @ - 1] /\ verdict' = k
      /\ UNCHANGED <<newFields, strayed>>
  BY DEF Validated
<1>3. ListInv' /\ EditorInv' /\ outputs' = outputs /\ row' = row
  BY <1>1, <1>2, RenderedAgain
<1>4. checks' \in [Key -> 0..MaxChecks] /\ \A j \in Key : checks'[j] > 0 => checks[j] > 0
  BY <1>1, <1>2, CheckEnds
<1>5. verdict' \in 0..MaxNewFields
  BY <1>2, ProjectionConstants DEF Key
<1>6. ChecksInv'
  BY <1>1, <1>2, <1>3, <1>4, <1>5 DEF ChecksInv
<1>7. QED
  BY <1>3, <1>6 DEF ProjectionInv

LEMMA NotValidatedKeeps == ASSUME ProjectionInv, NEW k \in Key, NotValidated(k) PROVE ProjectionInv'
<1>1. ListInv /\ EditorInv /\ ChecksInv
  BY DEF ProjectionInv
<1>2. /\ checks[k] > 0 /\ checks' = [checks EXCEPT ![k] = @ - 1]
      /\ UNCHANGED <<outputs, row, buffer, verdict, newFields, hurried, strayed>>
  BY DEF NotValidated
<1>3. ListInv' /\ EditorInv'
  BY <1>1, <1>2 DEF ListInv, EditorInv, HasEditor
<1>4. checks' \in [Key -> 0..MaxChecks] /\ \A j \in Key : checks'[j] > 0 => checks[j] > 0
  BY <1>1, <1>2, CheckEnds
<1>5. ChecksInv'
  BY <1>1, <1>2, <1>4 DEF ChecksInv
<1>6. QED
  BY <1>3, <1>5 DEF ProjectionInv

LEMMA ProjectionInvNext == ProjectionInv /\ [ProjectionNext]_projectionVars => ProjectionInv'
<1> SUFFICES ASSUME ProjectionInv, [ProjectionNext]_projectionVars PROVE ProjectionInv'
  OBVIOUS
<1>1. CASE UNCHANGED projectionVars
  BY <1>1 DEF projectionVars, ProjectionInv, ListInv, EditorInv, ChecksInv, HasEditor
<1>2. ASSUME NEW i \in DOMAIN outputs, SelectField(i) PROVE ProjectionInv'
  BY <1>2, SelectFieldKeeps
<1>3. CASE NewField \/ DropField \/ MoveUp \/ MoveDown \/ SetDetail \/ CodeChanged \/ Validate
  BY <1>3, NewFieldKeeps, DropFieldKeeps, MoveUpKeeps, MoveDownKeeps, SetDetailKeeps,
     CodeChangedKeeps, ValidateKeeps
<1>4. ASSUME NEW kind \in OperationType, SetOperationType(kind) PROVE ProjectionInv'
  BY <1>4, SetOperationTypeKeeps
<1>5. ASSUME NEW text \in Code, TypeCode(text) PROVE ProjectionInv'
  BY <1>5, TypeCodeKeeps
<1>6. ASSUME NEW k \in Key, Validated(k) \/ NotValidated(k) PROVE ProjectionInv'
  BY <1>6, ValidatedKeeps, NotValidatedKeeps
<1>7. QED
  BY <1>1, <1>2, <1>3, <1>4, <1>5, <1>6 DEF ProjectionNext

(* The inductive invariant of the editor of a projection.                  *)
THEOREM ProjectionInvariant == ProjectionSpec => []ProjectionInv
BY ProjectionInvInit, ProjectionInvNext, PTL DEF ProjectionSpec

(* The fields, the code editor and the checks keep their types, and the    *)
(* fields are distinct.                                                    *)
THEOREM ProjectionTypeCorrect == ProjectionSpec => []ProjectionTypeOK
<1>1. ASSUME ProjectionInv PROVE ProjectionTypeOK
  <2>1. ListInv /\ EditorInv /\ ChecksInv /\ Fields(outputs, newFields)
    BY <1>1 DEF ProjectionInv, ListInv
  <2>2. \A i, j \in DOMAIN outputs : i # j => outputs[i].key # outputs[j].key
    BY <2>1, DomainOfList DEF Fields
  <2>3. outputs \in Seq(OutputField) /\ Len(outputs) <= MaxOutputFields
    BY <2>1 DEF Fields
  <2>4. QED
    BY <2>1, <2>2, <2>3 DEF ProjectionTypeOK, ListInv, EditorInv, ChecksInv
<1>2. QED
  BY <1>1, ProjectionInvariant, PTL

(* A text that was typed for a field never becomes the expression of       *)
(* another, whatever is selected, moved, dropped or checked before it is   *)
(* handed over; and it becomes that field's, unless the page was rendered  *)
(* meanwhile (ProjectionEditor.js, one code editor for all the fields).    *)
THEOREM ExpressionsOwnCorrect == ProjectionSpec => []ExpressionsAreTheirOwn
<1>1. ASSUME ProjectionInv PROVE ExpressionsAreTheirOwn
  <2>1. ListInv /\ EditorInv /\ Fields(outputs, newFields)
    BY <1>1 DEF ProjectionInv, ListInv
  <2>2. DOMAIN outputs = 1 .. Len(outputs)
    BY <2>1, DomainOfList
  <2>3. ~hurried /\ ~Typing => Handed(outputs)
    BY <2>1, HandedOver
  <2>4. QED
    BY <2>1, <2>2, <2>3 DEF ExpressionsAreTheirOwn, Fields, Handed
<1>2. QED
  BY <1>1, ProjectionInvariant, PTL

(* The message of a check is about the field that is selected, also while  *)
(* fields move, unless another one was selected while a check was under    *)
(* way or by an addition or a deletion (ProjectionEditor.js, validate).    *)
THEOREM VerdictCorrect == ProjectionSpec => []VerdictIsOfTheSelected
<1>1. ASSUME ProjectionInv PROVE VerdictIsOfTheSelected
  <2>1. ChecksInv /\ Fields(outputs, newFields)
    BY <1>1 DEF ProjectionInv, ListInv
  <2>2. verdict # NoField => verdict \in Key
    BY <2>1, ProjectionConstants DEF ChecksInv, NoField, Key
  <2>3. DOMAIN outputs = 1 .. Len(outputs)
    BY <2>1, DomainOfList
  <2>4. QED
    BY <2>1, <2>2, <2>3 DEF VerdictIsOfTheSelected, ChecksInv
<1>2. QED
  BY <1>1, ProjectionInvariant, PTL
-----------------------------------------------------------------------------
(* The form of an object and its tables (UiFields).                        *)

(* A field that left the page was at a row of the list it was shown with.  *)
LeftoverInv == \A x \in leftover : x.at \in DOMAIN x.list

(* A row has the flag that is meant; the text that is meant is under way   *)
(* to it, from the page or from a field that left it, or has arrived.      *)
RowArrives(m, s, i) ==
    /\ m.flag = s.flag
    /\ IF i \in Place /\ dirty[i] # NoText
       THEN m.text = dirty[i]
       ELSE /\ \A x \in leftover : x.at = i => m.text = x.text
            /\ (\A x \in leftover : x.at # i) => m.text = s.text

(* As long as nothing crossed: the other elements are as they are meant to *)
(* be, and so are the rows on the page, but for what is under way to them. *)
ArrivesInv ==
    ~crossed =>
        /\ \A e \in Element \ {inspected} : meant[e] = tableFields[e]
        /\ \A x \in leftover : x.of = inspected /\ x.list = Shown
        /\ Len(meant[inspected]) = Len(Shown)
        /\ (\A x, y \in leftover : x = y) =>
               \A i \in DOMAIN Shown : RowArrives(meant[inspected][i], Shown[i], i)

FieldsInv == FieldsTypeOK /\ LeftoverInv /\ ArrivesInv

LEMMA ChangedRow ==
  ASSUME NEW list \in Seq(FieldRow), NEW i \in 1 .. Len(list), NEW text \in Typed
  PROVE  /\ Changed(list, i, text) \in Seq(FieldRow)
         /\ Len(Changed(list, i, text)) = Len(list)
         /\ \A j \in 1 .. Len(list) :
               /\ Changed(list, i, text)[j].flag = list[j].flag
               /\ Changed(list, i, text)[j].text = IF j = i THEN text ELSE list[j].text
<1> DEFINE fresh == [list[i] EXCEPT !.text = text]
<1>1. list[i] \in FieldRow
  BY ElementOfSeq
<1>2. fresh \in FieldRow /\ fresh.flag = list[i].flag /\ fresh.text = text
  BY <1>1 DEF FieldRow
<1>3. Changed(list, i, text) = [list EXCEPT ![i] = fresh]
  BY DEF Changed
<1> HIDE DEF fresh
<1>4. QED
  BY <1>2, <1>3, ExceptSeq

LEMMA FlippedRow ==
  ASSUME NEW list \in Seq(FieldRow), NEW i \in 1 .. Len(list)
  PROVE  /\ Flipped(list, i) \in Seq(FieldRow)
         /\ Len(Flipped(list, i)) = Len(list)
         /\ \A j \in 1 .. Len(list) :
               /\ Flipped(list, i)[j].flag = IF j = i THEN ~list[j].flag ELSE list[j].flag
               /\ Flipped(list, i)[j].text = list[j].text
<1> DEFINE fresh == [list[i] EXCEPT !.flag = ~@]
<1>1. list[i] \in FieldRow
  BY ElementOfSeq
<1>2. fresh \in FieldRow /\ fresh.flag = ~list[i].flag /\ fresh.text = list[i].text
  BY <1>1 DEF FieldRow
<1>3. Flipped(list, i) = [list EXCEPT ![i] = fresh]
  BY DEF Flipped
<1> HIDE DEF fresh
<1>4. QED
  BY <1>2, <1>3, ExceptSeq

(* Rows are the same when their fields are.                                *)
LEMMA SameRows ==
  ASSUME NEW a \in Seq(FieldRow), NEW b \in Seq(FieldRow), Len(a) = Len(b),
         \A i \in 1 .. Len(a) : a[i].flag = b[i].flag /\ a[i].text = b[i].text
  PROVE  a = b
<1>1. ASSUME NEW i \in 1 .. Len(a) PROVE a[i] = b[i]
  <2>1. a[i] \in FieldRow /\ b[i] \in FieldRow
    BY ElementOfSeq
  <2>2. QED
    BY <2>1 DEF FieldRow
<1>2. QED
  BY <1>1, SeqEqual

LEMMA FieldFacts ==
  ASSUME FieldsInv
  PROVE  /\ tableFields \in [Element -> Seq(FieldRow)] /\ meant \in [Element -> Seq(FieldRow)]
         /\ inspected \in Element /\ unfolded \subseteq Place
         /\ dirty \in [Place -> Typed \cup {NoText}] /\ crossed \in BOOLEAN
         /\ leftover \subseteq [of : Element, list : Seq(FieldRow), at : Place, text : Typed]
         /\ Shown \in Seq(FieldRow) /\ meant[inspected] \in Seq(FieldRow)
         /\ Len(Shown) \in Nat /\ DOMAIN Shown = 1 .. Len(Shown)
         /\ \A i \in Place : dirty[i] # NoText => i \in unfolded /\ i \in 1 .. Len(Shown)
         /\ NoText \notin Typed /\ MaxRows \in Nat
         /\ \A e \in Element : tableFields[e] \in Seq(FieldRow) /\ meant[e] \in Seq(FieldRow)
<1>1. FieldsTypeOK
  BY DEF FieldsInv
<1>2. Shown \in Seq(FieldRow) /\ meant[inspected] \in Seq(FieldRow)
  BY <1>1 DEF FieldsTypeOK, Shown
<1>3. Len(Shown) \in Nat /\ DOMAIN Shown = 1 .. Len(Shown)
  BY <1>2, LenProperties
<1>4. QED
  BY <1>1, <1>2, <1>3, FieldsAssumption DEF FieldsTypeOK

(* Nothing is under way and nothing crossed: all is as it is meant to be.  *)
LEMMA AllArrived ==
  ASSUME FieldsInv, Settled, ~crossed
  PROVE  tableFields = meant
<1>1. /\ \A e \in Element \ {inspected} : meant[e] = tableFields[e]
      /\ Len(meant[inspected]) = Len(Shown)
      /\ \A i \in 1 .. Len(Shown) : RowArrives(meant[inspected][i], Shown[i], i)
  BY FieldFacts DEF FieldsInv, ArrivesInv, Settled
<1>2. \A i \in 1 .. Len(Shown) : /\ meant[inspected][i].flag = Shown[i].flag
                                 /\ meant[inspected][i].text = Shown[i].text
  BY <1>1 DEF RowArrives, Settled
<1>3. meant[inspected] = Shown
  BY FieldFacts, <1>1, <1>2, SameRows
<1>4. \A e \in Element : meant[e] = tableFields[e]
  BY <1>1, <1>3 DEF Shown
<1>5. QED
  BY ONLY <1>4, FieldFacts, FieldsInv

LEMMA FieldsInvInit == FieldsInit => FieldsInv
<1> SUFFICES ASSUME FieldsInit PROVE FieldsInv
  OBVIOUS
<1>1. \A i \in Place : dirty[i] = NoText
  BY DEF FieldsInit
<1>2. FieldsTypeOK
  BY <1>1, FieldsAssumption DEF FieldsInit, FieldsTypeOK
<1>3. LeftoverInv
  BY DEF FieldsInit, LeftoverInv
<1>4. ArrivesInv
  BY <1>1 DEF FieldsInit, ArrivesInv, RowArrives, Shown
<1>5. QED
  BY <1>2, <1>3, <1>4 DEF FieldsInv

(* As many texts as there are dirty places leave with them.                *)
LEMMA PlacesLeave ==
  ASSUME FieldsInv, NEW places, places \subseteq Place, NEW late, late \subseteq leftover,
         LeavePage(places, late)
  PROVE  /\ dirty' \in [Place -> Typed \cup {NoText}]
         /\ \A i \in Place : dirty'[i] = IF i \in places THEN NoText ELSE dirty[i]
         /\ leftover' \subseteq [of : Element, list : Seq(FieldRow), at : Place, text : Typed]
         /\ LeftoverInv'
         /\ \A x \in leftover' :
               \/ x \in late
               \/ /\ x.at \in places /\ dirty[x.at] # NoText
                  /\ x = [of |-> inspected, list |-> Shown, at |-> x.at, text |-> dirty[x.at]]
         /\ (\A i \in places : dirty[i] = NoText) => leftover' = late
         /\ \A i \in places : dirty[i] # NoText =>
               [of |-> inspected, list |-> Shown, at |-> i, text |-> dirty[i]] \in leftover'
<1>0. /\ dirty' = [i \in Place |-> IF i \in places THEN NoText ELSE dirty[i]]
      /\ leftover' = late \cup {[of |-> inspected, list |-> Shown, at |-> i, text |-> dirty[i]] :
                                    i \in {j \in places : dirty[j] # NoText}}
  BY DEF LeavePage
<1>1. \A x \in leftover' :
               \/ x \in late
               \/ /\ x.at \in places /\ dirty[x.at] # NoText
                  /\ x = [of |-> inspected, list |-> Shown, at |-> x.at, text |-> dirty[x.at]]
  BY <1>0
<1>2. ASSUME NEW x \in leftover'
      PROVE  /\ x \in [of : Element, list : Seq(FieldRow), at : Place, text : Typed]
             /\ x.at \in DOMAIN x.list
  <2>1. CASE x \in late
    BY <2>1, FieldFacts DEF FieldsInv, LeftoverInv
  <2>2. CASE /\ x.at \in places /\ dirty[x.at] # NoText
             /\ x = [of |-> inspected, list |-> Shown, at |-> x.at, text |-> dirty[x.at]]
    <3>1. x.at \in Place /\ dirty[x.at] \in Typed /\ x.at \in DOMAIN Shown
      BY <2>2, FieldFacts
    <3>2. x.list = Shown
      BY <2>2
    <3>3. QED
      BY <2>2, <3>1, <3>2, FieldFacts
  <2>3. QED
    BY <1>1, <2>1, <2>2
<1>3. dirty' \in [Place -> Typed \cup {NoText}]
  BY <1>0, FieldFacts
<1>4. LeftoverInv'
  BY <1>2 DEF LeftoverInv
<1>5. QED
  BY <1>0, <1>1, <1>2, <1>3, <1>4

(* The rows of the element on the page have changed, as it is meant.       *)
LEMMA OnlyTheInspected ==
  ASSUME FieldsInv, NEW table \in Seq(FieldRow),
         tableFields' = [tableFields EXCEPT ![inspected] = table]
  PROVE  /\ tableFields' \in [Element -> Seq(FieldRow)]
         /\ tableFields'[inspected] = table
         /\ \A e \in Element \ {inspected} : tableFields'[e] = tableFields[e]
BY FieldFacts

LEMMA MeantRows ==
  ASSUME FieldsInv, NEW table, ~crossed => table \in Seq(FieldRow),
         meant' = [meant EXCEPT ![inspected] = IF crossed THEN @ ELSE table]
  PROVE  /\ meant' \in [Element -> Seq(FieldRow)]
         /\ ~crossed => meant'[inspected] = table
         /\ \A e \in Element \ {inspected} : meant'[e] = meant[e]
<1>1. CASE crossed
  <2>1. meant' = meant
    BY <1>1, FieldFacts
  <2>2. QED
    BY <2>1, <1>1, FieldFacts
<1>2. CASE ~crossed
  <2>1. meant' = [meant EXCEPT ![inspected] = table]
    BY <1>2
  <2>2. QED
    BY <2>1, <1>2, FieldFacts
<1>3. QED
  BY <1>1, <1>2

(* While nothing crossed, the rows on the page and those that are meant    *)
(* are as many.                                                            *)
LEMMA OnPage ==
  ASSUME FieldsInv, ~crossed
  PROVE  /\ \A e \in Element \ {inspected} : meant[e] = tableFields[e]
         /\ \A x \in leftover : x.of = inspected /\ x.list = Shown
         /\ Len(meant[inspected]) = Len(Shown)
         /\ (\A x, y \in leftover : x = y) =>
               \A i \in 1 .. Len(Shown) : RowArrives(meant[inspected][i], Shown[i], i)
BY FieldFacts DEF FieldsInv, ArrivesInv

LEMMA FoldKeeps == ASSUME FieldsInv, NEW i \in Place, Fold(i) PROVE FieldsInv'
<1>1. /\ unfolded' = unfolded \ {i}
      /\ LeavePage({i}, leftover)
      /\ tableFields' = tableFields /\ meant' = meant /\ inspected' = inspected /\ crossed' = crossed
  BY DEF Fold, Unmount
<1>2. /\ dirty' \in [Place -> Typed \cup {NoText}]
      /\ \A j \in Place : dirty'[j] = IF j \in {i} THEN NoText ELSE dirty[j]
      /\ leftover' \subseteq [of : Element, list : Seq(FieldRow), at : Place, text : Typed]
      /\ LeftoverInv'
      /\ \A x \in leftover' :
            \/ x \in leftover
            \/ /\ x.at \in {i} /\ dirty[x.at] # NoText
               /\ x = [of |-> inspected, list |-> Shown, at |-> x.at, text |-> dirty[x.at]]
      /\ (\A j \in {i} : dirty[j] = NoText) => leftover' = leftover
      /\ \A j \in {i} : dirty[j] # NoText =>
            [of |-> inspected, list |-> Shown, at |-> j, text |-> dirty[j]] \in leftover'
  <2>1. {i} \subseteq Place /\ leftover \subseteq leftover
    OBVIOUS
  <2>2. QED
    BY ONLY <1>1, <2>1, FieldsInv, PlacesLeave
<1>3. FieldsTypeOK'
  BY <1>1, <1>2, FieldFacts DEF FieldsTypeOK, Shown
<1>4. ASSUME ~crossed' PROVE
        /\ \A e \in Element \ {inspected'} : meant'[e] = tableFields'[e]
        /\ \A x \in leftover' : x.of = inspected' /\ x.list = Shown'
        /\ Len(meant'[inspected']) = Len(Shown')
        /\ (\A x, y \in leftover' : x = y) =>
               \A j \in DOMAIN Shown' : RowArrives(meant[inspected][j], Shown[j], j)'
  <2>1. ~crossed /\ Shown' = Shown
    BY <1>1, <1>4 DEF Shown
  <2>2. \A x \in leftover' : x.of = inspected /\ x.list = Shown
    BY <1>2, <2>1, OnPage
  <2>3. ASSUME \A x, y \in leftover' : x = y, NEW j \in 1 .. Len(Shown)
        PROVE  RowArrives(meant[inspected][j], Shown[j], j)'
    <3>1. leftover \subseteq leftover'
      BY <1>1 DEF LeavePage
    <3>2. \A x, y \in leftover : x = y
      BY <3>1, <2>3
    <3>3. RowArrives(meant[inspected][j], Shown[j], j)
      BY <2>1, <3>2, OnPage
    <3>4. meant'[inspected'][j] = meant[inspected][j] /\ Shown'[j] = Shown[j]
      BY <1>1, <2>1
    <3>5. CASE dirty[i] = NoText
      <4>1. leftover' = leftover /\ \A k \in Place : dirty'[k] = dirty[k]
        BY <1>2, <3>5
      <4>2. QED
        BY <3>3, <3>4, <4>1 DEF RowArrives
    <3>6. CASE dirty[i] # NoText
      <4> DEFINE z == [of |-> inspected, list |-> Shown, at |-> i, text |-> dirty[i]]
      <4>1. z \in leftover' /\ z.at = i /\ z.text = dirty[i]
        BY <1>2, <3>6
      <4> HIDE DEF z
      <4>2. leftover' = {z}
        BY <4>1, <2>3
      <4>3. CASE j = i
        <5>1. dirty'[i] = NoText /\ meant[inspected][j].text = dirty[i]
          BY <1>2, <3>3, <3>6, <4>3 DEF RowArrives
        <5>2. QED
          BY <3>3, <3>4, <4>1, <4>2, <4>3, <5>1 DEF RowArrives
      <4>4. CASE j # i
        <5>1. \A x \in leftover : x.at # j
          BY <3>1, <4>1, <4>2, <4>4
        <5>2. j \in Place => dirty'[j] = dirty[j]
          BY <1>2, <4>4
        <5>3. QED
          BY <3>3, <3>4, <4>1, <4>2, <4>4, <5>1, <5>2 DEF RowArrives
      <4>5. QED
        BY <4>3, <4>4
    <3>7. QED
      BY <3>5, <3>6
  <2>4. QED
    BY <1>1, <2>1, <2>2, <2>3, OnPage, FieldFacts
<1>5. ArrivesInv'
  BY <1>4 DEF ArrivesInv
<1>6. QED
  BY <1>2, <1>3, <1>5 DEF FieldsInv

(* A step after which as many rows as are meant are on the page of the     *)
(* same element, the texts under way to the places that have a row.        *)
LEMMA FieldsStep ==
  ASSUME FieldsInv, inspected' = inspected, crossed' \in BOOLEAN, unfolded' \subseteq Place,
         NEW table \in Seq(FieldRow), tableFields' = [tableFields EXCEPT ![inspected] = table],
         meant' \in [Element -> Seq(FieldRow)],
         dirty' \in [Place -> Typed \cup {NoText}],
         \A i \in Place : dirty'[i] # NoText => i \in unfolded' /\ i \in 1 .. Len(table),
         leftover' \subseteq [of : Element, list : Seq(FieldRow), at : Place, text : Typed],
         LeftoverInv',
         ~crossed' =>
             /\ \A e \in Element \ {inspected} : meant'[e] = tableFields[e]
             /\ \A x \in leftover' : x.of = inspected /\ x.list = table
             /\ Len(meant'[inspected]) = Len(table)
             /\ (\A x, y \in leftover' : x = y) =>
                    \A i \in 1 .. Len(table) :
                        /\ meant'[inspected][i].flag = table[i].flag
                        /\ IF i \in Place /\ dirty'[i] # NoText
                           THEN meant'[inspected][i].text = dirty'[i]
                           ELSE /\ \A x \in leftover' :
                                       x.at = i => meant'[inspected][i].text = x.text
                                /\ (\A x \in leftover' : x.at # i) =>
                                       meant'[inspected][i].text = table[i].text
  PROVE  FieldsInv'
<1>1. /\ tableFields' \in [Element -> Seq(FieldRow)] /\ tableFields'[inspected] = table
      /\ \A e \in Element \ {inspected} : tableFields'[e] = tableFields[e]
  BY OnlyTheInspected
<1>2. Shown' = table /\ DOMAIN table = 1 .. Len(table)
  BY <1>1 DEF Shown
<1>3. FieldsTypeOK'
  BY <1>1, <1>2, FieldFacts DEF FieldsTypeOK
<1>4. ArrivesInv'
  BY <1>1, <1>2 DEF ArrivesInv, RowArrives
<1>5. QED
  BY <1>3, <1>4 DEF FieldsInv

(* No text more is under way from fields that left the page.               *)
LEMMA StillLeft ==
  ASSUME FieldsInv, leftover' \subseteq leftover
  PROVE  /\ leftover' \subseteq [of : Element, list : Seq(FieldRow), at : Place, text : Typed]
         /\ LeftoverInv'
BY FieldFacts DEF FieldsInv, LeftoverInv

LEMMA TypeKeeps ==
  ASSUME FieldsInv, NEW i \in Place, NEW text \in Typed, Type(i, text)
  PROVE  FieldsInv'
<1> DEFINE table == Changed(meant[inspected], i, text)
<1>0. Shown = tableFields[inspected]
  BY DEF Shown
<1>1. /\ i \in unfolded /\ i \in 1 .. Len(Shown)
      /\ dirty' = [dirty EXCEPT ![i] = text]
      /\ meant' = [meant EXCEPT ![inspected] = IF crossed THEN @ ELSE table]
      /\ tableFields' = tableFields /\ inspected' = inspected /\ unfolded' = unfolded
      /\ leftover' = leftover /\ crossed' = crossed
  BY FieldFacts DEF Type, Meant
<1>2. ASSUME ~crossed
      PROVE  /\ table \in Seq(FieldRow) /\ Len(table) = Len(Shown)
             /\ \A j \in 1 .. Len(Shown) :
                  /\ table[j].flag = meant[inspected][j].flag
                  /\ table[j].text = IF j = i THEN text ELSE meant[inspected][j].text
  BY <1>1, <1>2, OnPage, FieldFacts, ChangedRow
<1> HIDE DEF table
<1>3. /\ meant' \in [Element -> Seq(FieldRow)]
      /\ ~crossed => meant'[inspected] = table
      /\ \A e \in Element \ {inspected} : meant'[e] = meant[e]
  BY <1>1, <1>2, MeantRows
<1>4. /\ dirty' \in [Place -> Typed \cup {NoText}] /\ text # NoText
      /\ \A j \in Place : dirty'[j] = IF j = i THEN text ELSE dirty[j]
  BY <1>1, FieldFacts
<1>5. tableFields' = [tableFields EXCEPT ![inspected] = Shown]
  BY <1>0, <1>1, FieldFacts
<1>6. \A j \in Place : dirty'[j] # NoText => j \in unfolded' /\ j \in 1 .. Len(Shown)
  BY <1>1, <1>4, FieldFacts
<1>7. ASSUME ~crossed', \A x, y \in leftover' : x = y, NEW j \in 1 .. Len(Shown)
      PROVE  /\ meant'[inspected][j].flag = Shown[j].flag
             /\ IF j \in Place /\ dirty'[j] # NoText
                THEN meant'[inspected][j].text = dirty'[j]
                ELSE /\ \A x \in leftover' :
                            x.at = j => meant'[inspected][j].text = x.text
                     /\ (\A x \in leftover' : x.at # j) =>
                            meant'[inspected][j].text = Shown[j].text
  <2>1. ~crossed /\ leftover' = leftover /\ meant'[inspected] = table
    BY <1>1, <1>3, <1>7
  <2>2. RowArrives(meant[inspected][j], Shown[j], j)
    BY <2>1, <1>7, OnPage
  <2>3. /\ table[j].flag = meant[inspected][j].flag
        /\ table[j].text = IF j = i THEN text ELSE meant[inspected][j].text
    BY <1>2, <2>1
  <2>4. CASE j = i
    BY <1>4, <2>1, <2>2, <2>3, <2>4 DEF RowArrives
  <2>5. CASE j # i
    <3>1. j \in Place => dirty'[j] = dirty[j]
      BY <1>4, <2>5
    <3>2. QED
      BY <2>1, <2>2, <2>3, <2>5, <3>1 DEF RowArrives
  <2>6. QED
    BY <2>4, <2>5
<1>8. ~crossed' =>
         /\ \A e \in Element \ {inspected} : meant'[e] = tableFields[e]
         /\ \A x \in leftover' : x.of = inspected /\ x.list = Shown
         /\ Len(meant'[inspected]) = Len(Shown)
  BY <1>1, <1>2, <1>3, OnPage
<1>9. /\ crossed' \in BOOLEAN /\ unfolded' \subseteq Place /\ leftover' \subseteq leftover
      /\ inspected' = inspected /\ Shown \in Seq(FieldRow)
  BY <1>1, FieldFacts
<1>10. QED
  BY ONLY FieldsInv, <1>3, <1>4, <1>5, <1>6, <1>7, <1>8, <1>9, StillLeft, FieldsStep

LEMMA DeliverKeeps == ASSUME FieldsInv, NEW i \in Place, Deliver(i) PROVE FieldsInv'
<1> DEFINE table == Changed(Shown, i, dirty[i])
<1>1. /\ dirty[i] # NoText /\ dirty[i] \in Typed /\ i \in 1 .. Len(Shown)
      /\ tableFields' = [tableFields EXCEPT ![inspected] = table]
      /\ dirty' = [dirty EXCEPT ![i] = NoText]
      /\ crossed' = (crossed \/ leftover # {})
      /\ meant' = meant /\ inspected' = inspected /\ unfolded' = unfolded /\ leftover' = leftover
  BY FieldFacts DEF Deliver, Shown
<1>2. /\ table \in Seq(FieldRow) /\ Len(table) = Len(Shown)
      /\ \A j \in 1 .. Len(Shown) :
            /\ table[j].flag = Shown[j].flag
            /\ table[j].text = IF j = i THEN dirty[i] ELSE Shown[j].text
  BY <1>1, FieldFacts, ChangedRow
<1> HIDE DEF table
<1>3. /\ dirty' \in [Place -> Typed \cup {NoText}]
      /\ \A j \in Place : dirty'[j] = IF j = i THEN NoText ELSE dirty[j]
  BY <1>1, FieldFacts
<1>4. \A j \in Place : dirty'[j] # NoText => j \in unfolded' /\ j \in 1 .. Len(table)
  BY <1>1, <1>2, <1>3, FieldFacts
<1>5. ASSUME ~crossed', \A x, y \in leftover' : x = y, NEW j \in 1 .. Len(table)
      PROVE  /\ meant'[inspected][j].flag = table[j].flag
             /\ IF j \in Place /\ dirty'[j] # NoText
                THEN meant'[inspected][j].text = dirty'[j]
                ELSE /\ \A x \in leftover' :
                            x.at = j => meant'[inspected][j].text = x.text
                     /\ (\A x \in leftover' : x.at # j) =>
                            meant'[inspected][j].text = table[j].text
  <2>1. ~crossed /\ leftover = {} /\ leftover' = {}
    BY <1>1, <1>5
  <2>2. RowArrives(meant[inspected][j], Shown[j], j) /\ j \in 1 .. Len(Shown)
    BY <1>2, <2>1, <1>5, OnPage
  <2>3. QED
    BY <1>1, <1>2, <1>3, <2>1, <2>2 DEF RowArrives
<1>6. ~crossed' =>
         /\ \A e \in Element \ {inspected} : meant'[e] = tableFields[e]
         /\ \A x \in leftover' : x.of = inspected /\ x.list = table
         /\ Len(meant'[inspected]) = Len(table)
  BY <1>1, <1>2, OnPage
<1>7. /\ crossed' \in BOOLEAN /\ unfolded' \subseteq Place /\ leftover' \subseteq leftover
      /\ meant' \in [Element -> Seq(FieldRow)]
  BY <1>1, FieldFacts
<1>8. QED
  BY ONLY FieldsInv, <1>1, <1>2, <1>3, <1>4, <1>5, <1>6, <1>7, StillLeft, FieldsStep

LEMMA SetFlagKeeps == ASSUME FieldsInv, NEW i \in Place, SetFlag(i) PROVE FieldsInv'
<1> DEFINE table == Flipped(Shown, i)
           wanted == Flipped(meant[inspected], i)
<1>1. /\ i \in 1 .. Len(Shown)
      /\ tableFields' = [tableFields EXCEPT ![inspected] = table]
      /\ meant' = [meant EXCEPT ![inspected] = IF crossed THEN @ ELSE wanted]
      /\ crossed' = (crossed \/ leftover # {})
      /\ inspected' = inspected /\ unfolded' = unfolded /\ leftover' = leftover /\ dirty' = dirty
  BY FieldFacts DEF SetFlag, Shown, Meant
<1>2. /\ table \in Seq(FieldRow) /\ Len(table) = Len(Shown)
      /\ \A j \in 1 .. Len(Shown) :
            /\ table[j].flag = IF j = i THEN ~Shown[j].flag ELSE Shown[j].flag
            /\ table[j].text = Shown[j].text
  BY <1>1, FieldFacts, FlippedRow
<1>3. ASSUME ~crossed
      PROVE  /\ wanted \in Seq(FieldRow) /\ Len(wanted) = Len(Shown)
             /\ \A j \in 1 .. Len(Shown) :
                  /\ wanted[j].flag = IF j = i THEN ~meant[inspected][j].flag
                                               ELSE meant[inspected][j].flag
                  /\ wanted[j].text = meant[inspected][j].text
  <2> DEFINE before == meant[inspected]
  <2>1. before \in Seq(FieldRow) /\ Len(before) = Len(Shown)
    BY <1>3, OnPage, FieldFacts
  <2>2. i \in 1 .. Len(before)
    BY <1>1, <2>1
  <2> HIDE DEF before
  <2>3. /\ Flipped(before, i) \in Seq(FieldRow) /\ Len(Flipped(before, i)) = Len(before)
        /\ \A j \in 1 .. Len(before) :
              /\ Flipped(before, i)[j].flag = IF j = i THEN ~before[j].flag ELSE before[j].flag
              /\ Flipped(before, i)[j].text = before[j].text
    BY <2>1, <2>2, FlippedRow
  <2>4. wanted = Flipped(before, i) /\ before = meant[inspected]
    BY DEF before
  <2> HIDE DEF wanted
  <2>5. QED
    BY ONLY <2>1, <2>3, <2>4
<1> HIDE DEF table, wanted
<1>4. /\ meant' \in [Element -> Seq(FieldRow)]
      /\ ~crossed => meant'[inspected] = wanted
      /\ \A e \in Element \ {inspected} : meant'[e] = meant[e]
  BY <1>1, <1>3, MeantRows
<1>5. ASSUME ~crossed', \A x, y \in leftover' : x = y, NEW j \in 1 .. Len(table)
      PROVE  /\ meant'[inspected][j].flag = table[j].flag
             /\ IF j \in Place /\ dirty'[j] # NoText
                THEN meant'[inspected][j].text = dirty'[j]
                ELSE /\ \A x \in leftover' :
                            x.at = j => meant'[inspected][j].text = x.text
                     /\ (\A x \in leftover' : x.at # j) =>
                            meant'[inspected][j].text = table[j].text
  <2>1. ~crossed /\ leftover = {} /\ leftover' = {} /\ meant'[inspected] = wanted
    BY <1>1, <1>4, <1>5
  <2>2. RowArrives(meant[inspected][j], Shown[j], j) /\ j \in 1 .. Len(Shown)
    BY <1>2, <2>1, <1>5, OnPage
  <2>3. /\ meant[inspected][j].flag = Shown[j].flag
        /\ wanted[j].flag = table[j].flag
        /\ wanted[j].text = meant[inspected][j].text /\ table[j].text = Shown[j].text
    BY <1>2, <1>3, <2>1, <2>2 DEF RowArrives
  <2>4. QED
    BY <1>1, <2>1, <2>2, <2>3 DEF RowArrives
<1>6. ~crossed' =>
         /\ \A e \in Element \ {inspected} : meant'[e] = tableFields[e]
         /\ \A x \in leftover' : x.of = inspected /\ x.list = table
         /\ Len(meant'[inspected]) = Len(table)
  BY <1>1, <1>2, <1>3, <1>4, OnPage
<1>7. /\ crossed' \in BOOLEAN /\ unfolded' \subseteq Place /\ leftover' \subseteq leftover
      /\ dirty' \in [Place -> Typed \cup {NoText}]
      /\ \A j \in Place : dirty'[j] # NoText => j \in unfolded' /\ j \in 1 .. Len(table)
  BY <1>1, <1>2, FieldFacts
<1>8. QED
  BY ONLY FieldsInv, <1>1, <1>2, <1>4, <1>5, <1>6, <1>7, StillLeft, FieldsStep

LEMMA AddRowKeeps == ASSUME FieldsInv, AddRow PROVE FieldsInv'
<1> DEFINE fresh == [text |-> NoText, flag |-> FALSE]
           table == Append(Shown, fresh)
           wanted == Append(meant[inspected], fresh)
<1>0. fresh \in FieldRow
  BY DEF FieldRow
<1>1. /\ tableFields' = [tableFields EXCEPT ![inspected] = table]
      /\ meant' = [meant EXCEPT ![inspected] = IF crossed THEN @ ELSE wanted]
      /\ crossed' = (crossed \/ leftover # {})
      /\ inspected' = inspected /\ unfolded' = unfolded /\ leftover' = leftover /\ dirty' = dirty
  BY FieldFacts DEF AddRow, Arrange, Shown, Meant
<1> HIDE DEF fresh
<1>2. /\ table \in Seq(FieldRow) /\ Len(table) = Len(Shown) + 1
      /\ \A j \in 1 .. Len(Shown) : table[j] = Shown[j]
      /\ table[Len(Shown) + 1] = fresh
  BY <1>0, FieldFacts, AppendProperties
<1>3. /\ wanted \in Seq(FieldRow) /\ Len(wanted) = Len(meant[inspected]) + 1
      /\ \A j \in 1 .. Len(meant[inspected]) : wanted[j] = meant[inspected][j]
      /\ wanted[Len(meant[inspected]) + 1] = fresh
  BY <1>0, FieldFacts, AppendProperties
<1> HIDE DEF table, wanted
<1>4. /\ meant' \in [Element -> Seq(FieldRow)]
      /\ ~crossed => meant'[inspected] = wanted
      /\ \A e \in Element \ {inspected} : meant'[e] = meant[e]
  BY <1>1, <1>3, MeantRows
<1>5. ASSUME ~crossed', \A x, y \in leftover' : x = y, NEW j \in 1 .. Len(table)
      PROVE  /\ meant'[inspected][j].flag = table[j].flag
             /\ IF j \in Place /\ dirty'[j] # NoText
                THEN meant'[inspected][j].text = dirty'[j]
                ELSE /\ \A x \in leftover' :
                            x.at = j => meant'[inspected][j].text = x.text
                     /\ (\A x \in leftover' : x.at # j) =>
                            meant'[inspected][j].text = table[j].text
  <2>1. ~crossed /\ leftover = {} /\ leftover' = {} /\ meant'[inspected] = wanted
    BY <1>1, <1>4, <1>5
  <2>2. Len(meant[inspected]) = Len(Shown)
    BY <2>1, OnPage
  <2>3. CASE j \in 1 .. Len(Shown)
    <3>1. RowArrives(meant[inspected][j], Shown[j], j)
      BY <2>1, <2>3, OnPage
    <3>2. table[j] = Shown[j] /\ wanted[j] = meant[inspected][j]
      BY <1>2, <1>3, <2>2, <2>3
    <3>3. QED
      BY <1>1, <2>1, <3>1, <3>2 DEF RowArrives
  <2>4. CASE j = Len(Shown) + 1
    <3>1. table[j] = fresh /\ wanted[j] = fresh
      BY <1>2, <1>3, <2>2, <2>4
    <3>2. j \in Place => dirty'[j] = NoText
      BY <1>1, <2>4, FieldFacts
    <3>3. QED
      BY <2>1, <3>1, <3>2
  <2>5. j \in 1 .. Len(Shown) \/ j = Len(Shown) + 1
    BY <1>2, FieldFacts
  <2>6. QED
    BY <2>3, <2>4, <2>5
<1>6. ~crossed' =>
         /\ \A e \in Element \ {inspected} : meant'[e] = tableFields[e]
         /\ \A x \in leftover' : x.of = inspected /\ x.list = table
         /\ Len(meant'[inspected]) = Len(table)
  BY <1>1, <1>2, <1>3, <1>4, OnPage
<1>7. /\ crossed' \in BOOLEAN /\ unfolded' \subseteq Place /\ leftover' \subseteq leftover
      /\ dirty' \in [Place -> Typed \cup {NoText}]
  BY <1>1, FieldFacts
<1>8. \A j \in Place : dirty'[j] # NoText => j \in unfolded' /\ j \in 1 .. Len(table)
  BY <1>1, <1>2, FieldFacts
<1>9. QED
  BY ONLY FieldsInv, <1>1, <1>2, <1>4, <1>5, <1>6, <1>7, <1>8, StillLeft, FieldsStep

(* A step after which nothing is under way and all is as it is meant to be *)
(* - unless things crossed.                                                *)
LEMMA SettledStep ==
  ASSUME FieldsInv, inspected' \in Element, crossed' \in BOOLEAN, unfolded' \subseteq Place,
         tableFields' \in [Element -> Seq(FieldRow)], meant' \in [Element -> Seq(FieldRow)],
         dirty' \in [Place -> Typed \cup {NoText}],
         \A i \in Place : dirty'[i] # NoText =>
             i \in unfolded' /\ i \in 1 .. Len(tableFields'[inspected']),
         leftover' \subseteq [of : Element, list : Seq(FieldRow), at : Place, text : Typed],
         LeftoverInv',
         ~crossed' =>
             /\ tableFields' = meant' /\ leftover' = {}
             /\ \A i \in Place : dirty'[i] = NoText
  PROVE  FieldsInv'
<1>1. Shown' = tableFields'[inspected'] /\ DOMAIN Shown' = 1 .. Len(Shown')
  BY DEF Shown
<1>2. FieldsTypeOK'
  BY <1>1 DEF FieldsTypeOK
<1>3. ArrivesInv'
  BY <1>1 DEF ArrivesInv, RowArrives
<1>4. QED
  BY <1>2, <1>3 DEF FieldsInv

(* The places beyond a number of rows leave the page.                      *)
LEMMA BeyondLeaves ==
  ASSUME FieldsInv, NEW n \in Nat, Unmount(Beyond(n))
  PROVE  /\ dirty' \in [Place -> Typed \cup {NoText}]
         /\ \A i \in Place : dirty'[i] # NoText => dirty'[i] = dirty[i] /\ i \in 1 .. n /\ i \in unfolded
         /\ leftover' \subseteq [of : Element, list : Seq(FieldRow), at : Place, text : Typed]
         /\ LeftoverInv'
         /\ Settled => leftover' = {} /\ \A i \in Place : dirty'[i] = NoText
<1>1. Beyond(n) \subseteq Place /\ leftover \subseteq leftover
  BY DEF Beyond
<1>2. LeavePage(Beyond(n), leftover)
  BY DEF Unmount
<1>3. /\ dirty' \in [Place -> Typed \cup {NoText}]
      /\ \A i \in Place : dirty'[i] = IF i \in Beyond(n) THEN NoText ELSE dirty[i]
      /\ leftover' \subseteq [of : Element, list : Seq(FieldRow), at : Place, text : Typed]
      /\ LeftoverInv'
      /\ \A y \in leftover' :
            \/ y \in leftover
            \/ /\ y.at \in Beyond(n) /\ dirty[y.at] # NoText
               /\ y = [of |-> inspected, list |-> Shown, at |-> y.at, text |-> dirty[y.at]]
      /\ (\A i \in Beyond(n) : dirty[i] = NoText) => leftover' = leftover
      /\ \A i \in Beyond(n) : dirty[i] # NoText =>
            [of |-> inspected, list |-> Shown, at |-> i, text |-> dirty[i]] \in leftover'
  BY ONLY <1>1, <1>2, FieldsInv, PlacesLeave
<1>4. ASSUME NEW i \in Place, dirty'[i] # NoText
      PROVE  dirty'[i] = dirty[i] /\ i \in 1 .. n /\ i \in unfolded
  <2>1. i \notin Beyond(n) /\ dirty'[i] = dirty[i]
    BY <1>3, <1>4
  <2>2. i \in 1 .. n
    BY <2>1, FieldFacts DEF Beyond, Place
  <2>3. QED
    BY <2>1, <2>2, <1>4, FieldFacts
<1>5. Settled => leftover' = {} /\ \A i \in Place : dirty'[i] = NoText
  BY <1>1, <1>3 DEF Settled
<1>6. QED
  BY <1>3, <1>4, <1>5

(* The user has rearranged the rows on the page.                           *)
LEMMA Rearrangement ==
  ASSUME FieldsInv, NEW table \in Seq(FieldRow), NEW wanted,
         ~crossed => wanted \in Seq(FieldRow),
         meant[inspected] = Shown => wanted = table,
         tableFields' = [tableFields EXCEPT ![inspected] = table],
         meant' = [meant EXCEPT ![inspected] = IF crossed THEN @ ELSE wanted],
         crossed' = (crossed \/ ~Settled)
  PROVE  /\ tableFields' \in [Element -> Seq(FieldRow)] /\ meant' \in [Element -> Seq(FieldRow)]
         /\ tableFields'[inspected] = table
         /\ crossed' \in BOOLEAN
         /\ ~crossed' => Settled /\ tableFields' = meant'
<1>1. /\ meant' \in [Element -> Seq(FieldRow)]
      /\ ~crossed => meant'[inspected] = wanted
      /\ \A e \in Element \ {inspected} : meant'[e] = meant[e]
  BY MeantRows
<1>2. /\ tableFields' \in [Element -> Seq(FieldRow)] /\ tableFields'[inspected] = table
      /\ \A e \in Element \ {inspected} : tableFields'[e] = tableFields[e]
  BY OnlyTheInspected
<1>3. ASSUME ~crossed' PROVE Settled /\ tableFields' = meant'
  <2>1. Settled /\ ~crossed /\ tableFields = meant
    BY <1>3, AllArrived
  <2>2. wanted = table
    BY <2>1 DEF Shown
  <2>3. \A e \in Element : tableFields'[e] = meant'[e]
    BY <1>1, <1>2, <2>1, <2>2
  <2>4. QED
    BY ONLY <1>1, <1>2, <2>1, <2>3
<1>4. QED
  BY <1>1, <1>2, <1>3, FieldFacts

LEMMA MoveRowKeeps == ASSUME FieldsInv, NEW i \in Place, MoveRow(i) PROVE FieldsInv'
<1> DEFINE table == Swapped(Shown, i)
           wanted == Swapped(meant[inspected], i)
<1>1. /\ i \in 1 .. Len(Shown) /\ i + 1 \in 1 .. Len(Shown) /\ i < Len(Shown)
      /\ tableFields' = [tableFields EXCEPT ![inspected] = table]
      /\ meant' = [meant EXCEPT ![inspected] = IF crossed THEN @ ELSE wanted]
      /\ crossed' = (crossed \/ ~Settled)
      /\ inspected' = inspected /\ unfolded' = unfolded /\ leftover' = leftover /\ dirty' = dirty
  BY FieldFacts DEF MoveRow, Arrange, Shown, Meant
<1>2. table \in Seq(FieldRow) /\ Len(table) = Len(Shown)
  BY <1>1, FieldFacts, SwappedSeq DEF Swapped
<1>3. ASSUME ~crossed PROVE wanted \in Seq(FieldRow)
  BY <1>1, <1>3, OnPage, FieldFacts, SwappedSeq DEF Swapped
<1>4. meant[inspected] = Shown => wanted = table
  OBVIOUS
<1> HIDE DEF table, wanted
<1>5. /\ tableFields' \in [Element -> Seq(FieldRow)] /\ meant' \in [Element -> Seq(FieldRow)]
      /\ tableFields'[inspected] = table
      /\ crossed' \in BOOLEAN
      /\ ~crossed' => Settled /\ tableFields' = meant'
  BY ONLY FieldsInv, <1>1, <1>2, <1>3, <1>4, Rearrangement
<1>6. /\ inspected' \in Element /\ unfolded' \subseteq Place /\ leftover' \subseteq leftover
      /\ dirty' \in [Place -> Typed \cup {NoText}]
      /\ \A j \in Place : dirty'[j] # NoText =>
            j \in unfolded' /\ j \in 1 .. Len(tableFields'[inspected'])
      /\ Settled => leftover' = {} /\ \A j \in Place : dirty'[j] = NoText
  BY <1>1, <1>2, <1>5, FieldFacts DEF Settled
<1>7. QED
  BY ONLY FieldsInv, <1>5, <1>6, StillLeft, SettledStep

LEMMA DeleteRowKeeps == ASSUME FieldsInv, NEW i \in Place, DeleteRow(i) PROVE FieldsInv'
<1> DEFINE table == RemoveAt(Shown, i)
           wanted == RemoveAt(meant[inspected], i)
           n == Len(Shown) - 1
<1>1. /\ i \in 1 .. Len(Shown) /\ n \in Nat
      /\ tableFields' = [tableFields EXCEPT ![inspected] = table]
      /\ meant' = [meant EXCEPT ![inspected] = IF crossed THEN @ ELSE wanted]
      /\ crossed' = (crossed \/ ~Settled)
      /\ Unmount(Beyond(n))
      /\ inspected' = inspected /\ unfolded' = unfolded
  BY FieldFacts DEF DeleteRow, Arrange, Shown, Meant
<1>2. table \in Seq(FieldRow) /\ Len(table) = n
  BY <1>1, FieldFacts, RemovedSeq
<1>3. ASSUME ~crossed PROVE wanted \in Seq(FieldRow)
  BY <1>1, <1>3, OnPage, FieldFacts, RemovedSeq
<1>4. meant[inspected] = Shown => wanted = table
  OBVIOUS
<1> HIDE DEF table, wanted, n
<1>5. /\ tableFields' \in [Element -> Seq(FieldRow)] /\ meant' \in [Element -> Seq(FieldRow)]
      /\ tableFields'[inspected] = table
      /\ crossed' \in BOOLEAN
      /\ ~crossed' => Settled /\ tableFields' = meant'
  BY ONLY FieldsInv, <1>1, <1>2, <1>3, <1>4, Rearrangement
<1>6. /\ dirty' \in [Place -> Typed \cup {NoText}]
      /\ \A j \in Place : dirty'[j] # NoText =>
            dirty'[j] = dirty[j] /\ j \in 1 .. n /\ j \in unfolded
      /\ leftover' \subseteq [of : Element, list : Seq(FieldRow), at : Place, text : Typed]
      /\ LeftoverInv'
      /\ Settled => leftover' = {} /\ \A j \in Place : dirty'[j] = NoText
  BY <1>1, BeyondLeaves
<1>7. /\ inspected' \in Element /\ unfolded' \subseteq Place
      /\ \A j \in Place : dirty'[j] # NoText =>
            j \in unfolded' /\ j \in 1 .. Len(tableFields'[inspected'])
  BY <1>1, <1>2, <1>5, <1>6, FieldFacts
<1>8. QED
  BY ONLY FieldsInv, <1>5, <1>6, <1>7, SettledStep

LEMMA PasteKeeps == ASSUME FieldsInv, NEW table \in Seq(FieldRow), Paste(table) PROVE FieldsInv'
<1>1. /\ Len(table) \in Nat
      /\ tableFields' = [tableFields EXCEPT ![inspected] = table]
      /\ meant' = [meant EXCEPT ![inspected] = IF crossed THEN @ ELSE table]
      /\ crossed' = (crossed \/ ~Settled)
      /\ Unmount(Beyond(Len(table)))
      /\ inspected' = inspected /\ unfolded' = unfolded
  BY FieldFacts, LenProperties DEF Paste, Arrange, Meant
<1>2. /\ tableFields' \in [Element -> Seq(FieldRow)] /\ meant' \in [Element -> Seq(FieldRow)]
      /\ tableFields'[inspected] = table
      /\ crossed' \in BOOLEAN
      /\ ~crossed' => Settled /\ tableFields' = meant'
  BY <1>1, Rearrangement
<1>3. /\ dirty' \in [Place -> Typed \cup {NoText}]
      /\ \A j \in Place : dirty'[j] # NoText =>
            dirty'[j] = dirty[j] /\ j \in 1 .. Len(table) /\ j \in unfolded
      /\ leftover' \subseteq [of : Element, list : Seq(FieldRow), at : Place, text : Typed]
      /\ LeftoverInv'
      /\ Settled => leftover' = {} /\ \A j \in Place : dirty'[j] = NoText
  BY <1>1, BeyondLeaves
<1>4. /\ inspected' \in Element /\ unfolded' \subseteq Place
      /\ \A j \in Place : dirty'[j] # NoText =>
            j \in unfolded' /\ j \in 1 .. Len(tableFields'[inspected'])
  BY <1>1, <1>2, <1>3, FieldFacts
<1>5. QED
  BY ONLY FieldsInv, <1>2, <1>3, <1>4, SettledStep

LEMMA InspectKeeps == ASSUME FieldsInv, NEW e \in Element, Inspect(e) PROVE FieldsInv'
<1>1. /\ tableFields[e] \in Seq(FieldRow) /\ Len(tableFields[e]) \in Nat
      /\ inspected' = e /\ crossed' = (crossed \/ ~Settled)
      /\ Unmount(Beyond(Len(tableFields[e])))
      /\ tableFields' = tableFields /\ meant' = meant /\ unfolded' = unfolded
  BY FieldFacts, LenProperties DEF Inspect
<1>2. /\ dirty' \in [Place -> Typed \cup {NoText}]
      /\ \A j \in Place : dirty'[j] # NoText =>
            dirty'[j] = dirty[j] /\ j \in 1 .. Len(tableFields[e]) /\ j \in unfolded
      /\ leftover' \subseteq [of : Element, list : Seq(FieldRow), at : Place, text : Typed]
      /\ LeftoverInv'
      /\ Settled => leftover' = {} /\ \A j \in Place : dirty'[j] = NoText
  BY <1>1, BeyondLeaves
<1>3. ~crossed' => Settled /\ tableFields' = meant'
  BY <1>1, AllArrived
<1>4. QED
  BY <1>1, <1>2, <1>3, FieldFacts, SettledStep

LEMMA DeliverLateKeeps == ASSUME FieldsInv, NEW x \in leftover, DeliverLate(x) PROVE FieldsInv'
<1> DEFINE table == Changed(x.list, x.at, x.text)
           gone == IF x.of = inspected THEN Beyond(Len(x.list)) ELSE {}
<1>0. /\ x.of \in Element /\ x.list \in Seq(FieldRow) /\ x.at \in Place /\ x.text \in Typed
      /\ x.at \in 1 .. Len(x.list) /\ Len(x.list) \in Nat
  <2>1. x \in [of : Element, list : Seq(FieldRow), at : Place, text : Typed] /\ x.at \in DOMAIN x.list
    BY FieldFacts DEF FieldsInv, LeftoverInv
  <2>2. QED
    BY <2>1, LenProperties
<1>1. /\ LeavePage(gone, leftover \ {x})
      /\ tableFields' = [tableFields EXCEPT ![x.of] = table]
      /\ crossed' = (crossed \/ leftover # {x})
      /\ meant' = meant /\ inspected' = inspected /\ unfolded' = unfolded
  BY DEF DeliverLate
<1>2. /\ table \in Seq(FieldRow) /\ Len(table) = Len(x.list)
      /\ \A j \in 1 .. Len(x.list) :
            /\ table[j].flag = x.list[j].flag
            /\ table[j].text = IF j = x.at THEN x.text ELSE x.list[j].text
  BY ONLY <1>0, ChangedRow
<1>3. gone \subseteq Place /\ leftover \ {x} \subseteq leftover
  BY DEF Beyond
<1>4. \A j \in Place : j \in gone <=> x.of = inspected /\ j \notin 1 .. Len(x.list)
  <2>1. \A n \in Nat, j \in Nat \ {0} : j > n <=> j \notin 1 .. n
    OBVIOUS
  <2>2. Place \subseteq Nat \ {0} /\ Len(x.list) \in Nat
    BY <1>0 DEF Place
  <2>3. QED
    BY ONLY <2>1, <2>2 DEF Beyond
<1> HIDE DEF table, gone
<1>5. /\ dirty' \in [Place -> Typed \cup {NoText}]
      /\ \A j \in Place : dirty'[j] = IF j \in gone THEN NoText ELSE dirty[j]
      /\ leftover' \subseteq [of : Element, list : Seq(FieldRow), at : Place, text : Typed]
      /\ LeftoverInv'
      /\ \A y \in leftover' :
            \/ y \in leftover \ {x}
            \/ /\ y.at \in gone /\ dirty[y.at] # NoText
               /\ y = [of |-> inspected, list |-> Shown, at |-> y.at, text |-> dirty[y.at]]
      /\ (\A j \in gone : dirty[j] = NoText) => leftover' = leftover \ {x}
      /\ \A j \in gone : dirty[j] # NoText =>
            [of |-> inspected, list |-> Shown, at |-> j, text |-> dirty[j]] \in leftover'
  BY ONLY FieldsInv, <1>1, <1>3, PlacesLeave
<1>6. /\ tableFields' \in [Element -> Seq(FieldRow)] /\ tableFields'[x.of] = table
      /\ \A e \in Element \ {x.of} : tableFields'[e] = tableFields[e]
  BY <1>0, <1>1, <1>2, FieldFacts
<1>7. FieldsTypeOK'
  <2>1. ASSUME NEW j \in Place, dirty'[j] # NoText
        PROVE  j \in unfolded' /\ j \in DOMAIN Shown'
    <3>1. j \notin gone /\ dirty[j] # NoText /\ j \in unfolded /\ j \in 1 .. Len(Shown)
      BY <1>5, <2>1, FieldFacts
    <3>2. CASE x.of = inspected
      <4>1. Shown' = table /\ j \in 1 .. Len(table)
        BY <1>1, <1>2, <1>4, <1>6, <3>1, <3>2 DEF Shown
      <4>2. QED
        BY <1>1, <1>2, <3>1, <4>1
    <3>3. CASE x.of # inspected
      <4>1. Shown' = Shown
        BY <1>1, <1>6, <3>3, FieldFacts DEF Shown
      <4>2. QED
        BY <1>1, <3>1, <4>1, FieldFacts
    <3>4. QED
      BY <3>2, <3>3
  <2>2. QED
    BY <1>1, <1>5, <1>6, <2>1, FieldFacts DEF FieldsTypeOK
<1>8. ASSUME ~crossed' PROVE
        /\ \A e \in Element \ {inspected'} : meant'[e] = tableFields'[e]
        /\ \A y \in leftover' : y.of = inspected' /\ y.list = Shown'
        /\ Len(meant'[inspected']) = Len(Shown')
        /\ \A j \in DOMAIN Shown' : RowArrives(meant[inspected][j], Shown[j], j)'
  <2>1. ~crossed /\ leftover = {x} /\ x.of = inspected /\ x.list = Shown
    BY <1>1, <1>8, OnPage
  <2>2. \A j \in gone : dirty[j] = NoText
    BY <1>3, <1>4, <2>1, FieldFacts
  <2>3. leftover' = {} /\ \A j \in Place : dirty'[j] = dirty[j]
    BY <1>5, <2>1, <2>2
  <2>4. Shown' = table /\ DOMAIN Shown' = 1 .. Len(Shown)
    BY <1>1, <1>2, <1>6, <2>1 DEF Shown
  <2>5. ASSUME NEW j \in 1 .. Len(Shown) PROVE RowArrives(meant[inspected][j], Shown[j], j)'
    <3>1. RowArrives(meant[inspected][j], Shown[j], j)
      BY <2>1, OnPage
    <3>2. /\ table[j].flag = Shown[j].flag
          /\ table[j].text = IF j = x.at THEN x.text ELSE Shown[j].text
      BY <1>2, <2>1
    <3>3. meant'[inspected'][j] = meant[inspected][j] /\ Shown'[j] = table[j]
      BY <1>1, <2>4
    <3>4. QED
      BY <2>1, <2>3, <3>1, <3>2, <3>3 DEF RowArrives
  <2>6. QED
    BY <1>1, <1>2, <1>6, <2>1, <2>3, <2>4, <2>5, OnPage
<1>9. ArrivesInv'
  BY <1>8 DEF ArrivesInv
<1>10. QED
  BY <1>5, <1>7, <1>9 DEF FieldsInv

LEMMA FieldsInvNext == FieldsInv /\ [FieldsNext]_fieldsVars => FieldsInv'
<1> SUFFICES ASSUME FieldsInv, [FieldsNext]_fieldsVars PROVE FieldsInv'
  OBVIOUS
<1>1. CASE UNCHANGED fieldsVars
  BY <1>1 DEF fieldsVars, FieldsInv, FieldsTypeOK, LeftoverInv, ArrivesInv, RowArrives, Shown
<1>2. ASSUME NEW i \in Place, Unfold(i) PROVE FieldsInv'
  <2>1. /\ unfolded' = unfolded \cup {i}
        /\ UNCHANGED <<tableFields, meant, inspected, dirty, leftover, crossed>>
    BY <1>2 DEF Unfold
  <2>2. FieldsTypeOK'
    BY <2>1, FieldFacts DEF FieldsTypeOK, Shown
  <2>3. QED
    BY <2>1, <2>2 DEF FieldsInv, LeftoverInv, ArrivesInv, RowArrives, Shown
<1>3. ASSUME NEW e \in Element, Paste(StartRows[e]) PROVE FieldsInv'
  BY <1>3, PasteKeeps, FieldsAssumption
<1>4. QED
  BY <1>1, <1>2, <1>3, FoldKeeps, TypeKeeps, DeliverKeeps, DeliverLateKeeps, SetFlagKeeps,
     AddRowKeeps, MoveRowKeeps, DeleteRowKeeps, InspectKeeps DEF FieldsNext

(* The inductive invariant of the form of an object.                       *)
THEOREM FieldsInvariant == FieldsSpec => []FieldsInv
BY FieldsInvInit, FieldsInvNext, PTL DEF FieldsSpec

(* The rows, the open places and the texts under way keep their types.     *)
THEOREM FieldsTypeCorrect == FieldsSpec => []FieldsTypeOK
<1>1. FieldsInv => FieldsTypeOK
  BY DEF FieldsInv
<1>2. QED
  BY <1>1, FieldsInvariant, PTL

(* Two texts typed within half a second do not undo each other: all that   *)
(* was typed arrives (FieldList.js, Debounced.js), unless rows moved or    *)
(* left, or another element was selected, while something was under way.   *)
THEOREM NothingTypedIsLostCorrect == FieldsSpec => []NothingTypedIsLost
<1>1. FieldsInv => NothingTypedIsLost
  BY AllArrived DEF NothingTypedIsLost
<1>2. QED
  BY <1>1, FieldsInvariant, PTL
-----------------------------------------------------------------------------
(* What is typed on any of these pages arrives, and where it was typed.    *)
THEOREM TextsArriveCorrect ==
  FieldsSpec /\ ProjectionSpec /\ AggregationSpec => []TypedTextsArrive
<1>1. NothingTypedIsLost /\ ExpressionsAreTheirOwn /\ DraftsAreTheirOwn => TypedTextsArrive
  BY DEF TypedTextsArrive
<1>2. QED
  BY <1>1, NothingTypedIsLostCorrect, ExpressionsOwnCorrect, DraftsOwnCorrect, PTL
-----------------------------------------------------------------------------
(***************************************************************************)
(* The page of a Livy server (UiLivy).                                     *)
(***************************************************************************)

OfKind(k) == {j \in 1..Jobs : JobKindOf[j] = k}
ListUnderWay(k) ==
    {NoPageList, [stage |-> "asked"]} \cup [stage : {"read"}, jobs : SUBSET OfKind(k)]

(* Rows and lists of a kind have jobs of this kind.                        *)
LivyTypes ==
    /\ begun \in 0..Jobs /\ running \subseteq 1..begun /\ killed \subseteq 1..begun
    /\ running \cap killed = {}
    /\ rows \in [JobKind -> Seq(JobRow)]
    /\ \A k \in JobKind : /\ Len(rows[k]) <= Jobs
                          /\ \A i \in 1..Len(rows[k]) : rows[k][i].id \in OfKind(k)
    /\ DOMAIN pageLists = JobKind
    /\ \A k \in JobKind : pageLists[k] \in [1..MaxPageLists -> ListUnderWay(k)]
    /\ below \subseteq [stage : {"timer", "asked"}, of : 1..Jobs, row : 1..Jobs]
    /\ kills \subseteq [stage : {"sent", "done"}, of : 1..Jobs]
    /\ raced \in BOOLEAN

(* What the page has of one kind: a row shows its own, or nothing yet;     *)
(* details are of the rows they go to; one list at most is under way, and  *)
(* then there are no rows; and a job that was deleted is in a row or in a  *)
(* list only as long as a deletion has not been answered.                  *)
OwnRows(list) == \A i \in 1..Len(list) : list[i].shows \in {Unasked, Waiting, list[i].id}
OwnDetails(k, list, ds) ==
    \A d \in ds : JobKindOf[d.of] = k => d.row \in 1..Len(list) /\ list[d.row].id = d.of
OneList(lists) ==
    \A m, n \in 1..MaxPageLists : lists[m] # NoPageList /\ lists[n] # NoPageList => m = n
EmptyMeanwhile(list, lists) ==
    \A n \in 1..MaxPageLists : lists[n] # NoPageList => list = <<>>
KilledAreGone(k, list, lists, xs, gone) ==
    \/ \E x \in xs : JobKindOf[x.of] = k
    \/ /\ \A i \in 1..Len(list) : list[i].id \notin gone
       /\ \A n \in 1..MaxPageLists : lists[n].stage = "read" => lists[n].jobs \cap gone = {}

PageInv(k, list, lists, ds, xs, gone) ==
    /\ OwnRows(list)
    /\ OwnDetails(k, list, ds)
    /\ OneList(lists)
    /\ EmptyMeanwhile(list, lists)
    /\ KilledAreGone(k, list, lists, xs, gone)

LivyInv ==
    /\ LivyTypes
    /\ ~raced => \A k \in JobKind : PageInv(k, rows[k], pageLists[k], below, kills, killed)


LEMMA LivyInvInit == LivyInit => LivyInv
<1> SUFFICES ASSUME LivyInit PROVE LivyInv
  OBVIOUS
<1> USE DEF LivyInit
<1>1. Jobs \in Nat /\ MaxPageLists \in Nat /\ JobKind # {}
  BY LivyAssumption DEF JobKind
<1>2. \A k \in JobKind : rows[k] = <<>> /\ Len(rows[k]) = 0 /\ rows[k] \in Seq(JobRow)
  BY EmptySeq
<1>3. \A k \in JobKind : /\ pageLists[k] \in [1..MaxPageLists -> ListUnderWay(k)]
                         /\ \A n \in 1..MaxPageLists : pageLists[k][n] =
                               IF n = 1 THEN [stage |-> "asked"] ELSE NoPageList
  BY DEF ListUnderWay
<1>4. LivyTypes
  <2>1. rows \in [JobKind -> Seq(JobRow)] /\ DOMAIN pageLists = JobKind
    BY EmptySeq
  <2>2. ASSUME NEW k \in JobKind
        PROVE  Len(rows[k]) <= Jobs /\ \A i \in 1..Len(rows[k]) : rows[k][i].id \in OfKind(k)
    BY <1>1, <1>2
  <2>3. begun \in 0..Jobs
    BY <1>1
  <2>4. running \subseteq 1..begun /\ killed \subseteq 1..begun /\ running \cap killed = {}
    OBVIOUS
  <2>5. QED
    BY <1>3, <2>1, <2>2, <2>3, <2>4 DEF LivyTypes
<1>5. ASSUME NEW k \in JobKind PROVE PageInv(k, rows[k], pageLists[k], below, kills, killed)
  <2>1. OwnRows(rows[k]) /\ OwnDetails(k, rows[k], below)
    BY <1>2 DEF OwnRows, OwnDetails
  <2>2. OneList(pageLists[k]) /\ EmptyMeanwhile(rows[k], pageLists[k])
    BY <1>2, <1>3 DEF OneList, EmptyMeanwhile
  <2>3. KilledAreGone(k, rows[k], pageLists[k], kills, killed)
    BY <1>2 DEF KilledAreGone
  <2>4. QED
    BY <2>1, <2>2, <2>3 DEF PageInv
<1>6. QED
  BY <1>4, <1>5 DEF LivyInv

(* Jobs can be put into an order. *)
LEMMA JobsInOrder ==
  ASSUME NEW S, S \subseteq 1..Jobs
  PROVE  /\ IsFiniteSet(S) /\ Cardinality(S) \in Nat /\ Cardinality(S) <= Jobs
         /\ InOrder(S) \in [1..Cardinality(S) -> S]
BY NumbersInOrder, LivyAssumption

LEMMA KindOf ==
  /\ Jobs \in Nat /\ MaxPageLists \in Nat
  /\ \A j \in 1..Jobs : JobKindOf[j] \in JobKind
  /\ \A k \in JobKind : \A j \in OfKind(k) : j \in 1..Jobs /\ JobKindOf[j] = k
  BY LivyAssumption DEF OfKind

LEMMA RowsOf ==
  ASSUME LivyTypes, NEW k \in JobKind
  PROVE  /\ rows[k] \in Seq(JobRow) /\ Len(rows[k]) \in Nat /\ Len(rows[k]) <= Jobs
         /\ DOMAIN rows[k] = 1..Len(rows[k])
         /\ \A i \in 1..Len(rows[k]) :
               /\ rows[k][i] \in JobRow /\ rows[k][i].id \in 1..Jobs
               /\ JobKindOf[rows[k][i].id] = k /\ i \in 1..Jobs
<1>1. rows[k] \in Seq(JobRow) /\ Len(rows[k]) <= Jobs
  BY DEF LivyTypes
<1>2. Len(rows[k]) \in Nat /\ DOMAIN rows[k] = 1..Len(rows[k])
  BY <1>1, LenProperties
<1>3. ASSUME NEW i \in 1..Len(rows[k])
      PROVE  /\ rows[k][i] \in JobRow /\ rows[k][i].id \in 1..Jobs
             /\ JobKindOf[rows[k][i].id] = k
  <2>1. rows[k][i] \in JobRow
    BY <1>1, ElementOfSeq
  <2>2. rows[k][i].id \in OfKind(k)
    BY DEF LivyTypes
  <2>3. QED
    BY <2>1, <2>2, KindOf
<1>4. \A i \in 1..Len(rows[k]) : i \in 1..Jobs
  BY <1>1, <1>2, KindOf
<1>5. QED
  BY <1>1, <1>2, <1>3, <1>4

LEMMA ListOf ==
  ASSUME LivyTypes, NEW k \in JobKind, NEW n \in 1..MaxPageLists
  PROVE  /\ pageLists[k][n] \in ListUnderWay(k)
         /\ pageLists[k][n].stage \in {"none", "asked", "read"}
         /\ pageLists[k][n].stage # "none" => pageLists[k][n] # NoPageList
         /\ pageLists[k][n].stage = "read" => pageLists[k][n].jobs \subseteq OfKind(k)
<1>1. pageLists[k][n] \in ListUnderWay(k)
  BY DEF LivyTypes
<1>2. QED
  BY <1>1 DEF ListUnderWay, NoPageList

LEMMA DetailOf ==
  ASSUME LivyTypes, NEW d \in below
  PROVE  /\ d \in [stage : {"timer", "asked"}, of : 1..Jobs, row : 1..Jobs]
         /\ d.of \in 1..Jobs /\ d.row \in 1..Jobs /\ JobKindOf[d.of] \in JobKind
<1>1. d \in [stage : {"timer", "asked"}, of : 1..Jobs, row : 1..Jobs]
  BY DEF LivyTypes
<1>2. d.of \in 1..Jobs /\ d.row \in 1..Jobs
  BY <1>1
<1>3. QED
  BY <1>1, <1>2, KindOf

LEMMA DeletionOf ==
  ASSUME LivyTypes, NEW x \in kills
  PROVE  /\ x \in [stage : {"sent", "done"}, of : 1..Jobs]
         /\ x.of \in 1..Jobs /\ JobKindOf[x.of] \in JobKind
<1>1. x \in [stage : {"sent", "done"}, of : 1..Jobs]
  BY DEF LivyTypes
<1>2. x.of \in 1..Jobs
  BY <1>1
<1>3. QED
  BY <1>1, <1>2, KindOf

(* Of the server: a step that the page does not see.                       *)
LEMMA ServerStep ==
  ASSUME LivyInv, begun' \in 0..Jobs, running' \subseteq 1..begun', killed' \subseteq 1..begun',
         running' \cap killed' = {}, UNCHANGED <<rows, pageLists, below, kills, killed, raced>>
  PROVE  LivyInv'
<1>1. LivyTypes'
  BY DEF LivyInv, LivyTypes
<1>2. QED
  BY <1>1 DEF LivyInv

LEMMA JobBeginsKeeps == ASSUME LivyInv, JobBegins PROVE LivyInv'
<1>1. /\ begun \in 0..Jobs /\ running \subseteq 1..begun /\ killed \subseteq 1..begun
      /\ running \cap killed = {}
  BY DEF LivyInv, LivyTypes
<1>2. /\ begun < Jobs /\ begun' = begun + 1 /\ running' = running \cup {begun + 1}
      /\ UNCHANGED <<killed, rows, pageLists, below, kills, raced>>
  BY DEF JobBegins
<1>3. begun' \in 0..Jobs /\ 1..begun \subseteq 1..begun' /\ begun + 1 \in 1..begun'
  BY <1>1, <1>2, KindOf
<1>4. begun + 1 \notin killed
  BY <1>1
<1>5. /\ running' \subseteq 1..begun' /\ killed' \subseteq 1..begun'
      /\ running' \cap killed' = {}
  BY ONLY <1>1, <1>2, <1>3, <1>4
<1>6. QED
  BY <1>2, <1>3, <1>5, ServerStep

LEMMA JobEndsKeeps == ASSUME LivyInv, NEW j, JobEnds(j) PROVE LivyInv'
<1>1. /\ begun' \in 0..Jobs /\ running' \subseteq 1..begun' /\ killed' \subseteq 1..begun'
      /\ running' \cap killed' = {}
  BY DEF LivyInv, LivyTypes, JobEnds
<1>2. QED
  BY <1>1, ServerStep DEF JobEnds

(* Lists are asked for, with a deletion of their kind answered or none.    *)
LEMMA LoadListsKeeps ==
  ASSUME LivyInv, NEW ks \in SUBSET JobKind, LoadLists(ks),
         kills' \subseteq kills, \A x \in kills : JobKindOf[x.of] \notin ks => x \in kills',
         UNCHANGED <<begun, running, killed, below>>
  PROVE  LivyInv'
<1> DEFINE n(k) == CHOOSE m \in Free(k) : TRUE
<1>1. /\ \A k \in ks : Free(k) # {}
      /\ pageLists' = [k \in JobKind |->
            IF k \in ks THEN [pageLists[k] EXCEPT ![n(k)] = [stage |-> "asked"]]
                        ELSE pageLists[k]]
      /\ rows' = [k \in JobKind |-> IF k \in ks THEN <<>> ELSE rows[k]]
      /\ raced' = (raced \/ \E k \in ks : Loading(k) \/ Detailing(k))
  BY DEF LoadLists
<1>2. \A k \in ks : n(k) \in 1..MaxPageLists
  BY <1>1 DEF Free
<1> HIDE DEF n
<1>3. LivyTypes /\ raced \in BOOLEAN
  BY DEF LivyInv, LivyTypes
<1>4. raced' \in BOOLEAN /\ (~raced' => ~raced /\ \A k \in ks : ~Loading(k) /\ ~Detailing(k))
  BY <1>1, <1>3 DEF Loading, Detailing
<1>5. \A k \in JobKind : pageLists[k] \in [1..MaxPageLists -> ListUnderWay(k)]
  BY <1>3 DEF LivyTypes
<1>6. LivyTypes'
  <2>1. ASSUME NEW k \in JobKind PROVE rows'[k] \in Seq(JobRow) /\ Len(rows'[k]) <= Jobs
                                       /\ \A i \in 1..Len(rows'[k]) : rows'[k][i].id \in OfKind(k)
    <3>1. CASE k \in ks
      <4>1. rows'[k] = <<>> /\ Len(rows'[k]) = 0 /\ <<>> \in Seq(JobRow)
        BY <1>1, <3>1, EmptySeq
      <4>2. QED
        BY <4>1, KindOf
    <3>2. CASE k \notin ks
      <4>1. rows'[k] = rows[k]
        BY <1>1, <3>2
      <4>2. QED
        BY <1>3, <4>1 DEF LivyTypes
    <3>3. QED
      BY <3>1, <3>2
  <2>2. rows' \in [JobKind -> Seq(JobRow)]
    BY <1>1, <2>1
  <2>3. ASSUME NEW k \in JobKind PROVE pageLists'[k] \in [1..MaxPageLists -> ListUnderWay(k)]
    <3>1. [stage |-> "asked"] \in ListUnderWay(k)
      BY DEF ListUnderWay
    <3>2. QED
      BY <1>1, <1>2, <1>5, <3>1
  <2>4. DOMAIN pageLists' = JobKind
    BY <1>1
  <2>5. QED
    BY <1>3, <1>4, <2>1, <2>2, <2>3, <2>4 DEF LivyTypes
<1>7. ASSUME ~raced', NEW k \in JobKind
      PROVE  PageInv(k, rows'[k], pageLists'[k], below', kills', killed')
  <2>1. PageInv(k, rows[k], pageLists[k], below, kills, killed)
    BY <1>4, <1>7 DEF LivyInv
  <2>2. CASE k \in ks
    <3>1. /\ \A m \in 1..MaxPageLists : pageLists[k][m] = NoPageList
          /\ \A d \in below : JobKindOf[d.of] # k
      BY <1>4, <1>7, <2>2 DEF Loading, Detailing
    <3>2. rows'[k] = <<>> /\ Len(rows'[k]) = 0
      BY <1>1, <2>2
    <3>3. \A m \in 1..MaxPageLists :
             pageLists'[k][m] = IF m = n(k) THEN [stage |-> "asked"] ELSE NoPageList
      BY <1>1, <1>2, <1>5, <2>2, <3>1
    <3>4. OwnRows(rows'[k]) /\ OwnDetails(k, rows'[k], below')
      BY <3>1, <3>2 DEF OwnRows, OwnDetails
    <3>5. OneList(pageLists'[k]) /\ EmptyMeanwhile(rows'[k], pageLists'[k])
      BY <3>2, <3>3 DEF OneList, EmptyMeanwhile
    <3>6. \A m \in 1..MaxPageLists : pageLists'[k][m].stage # "read"
      BY <3>3 DEF NoPageList
    <3>7. KilledAreGone(k, rows'[k], pageLists'[k], kills', killed')
      BY <3>2, <3>6 DEF KilledAreGone
    <3>8. QED
      BY <3>4, <3>5, <3>7 DEF PageInv
  <2>3. CASE k \notin ks
    <3>1. rows'[k] = rows[k] /\ pageLists'[k] = pageLists[k]
      BY <1>1, <2>3
    <3>2. KilledAreGone(k, rows[k], pageLists[k], kills', killed)
      BY <2>1, <2>3 DEF PageInv, KilledAreGone
    <3>3. QED
      BY <2>1, <3>1, <3>2 DEF PageInv
  <2>4. QED
    BY <2>2, <2>3
<1>8. QED
  BY <1>6, <1>7 DEF LivyInv

LEMMA PropsChangedKeeps == ASSUME LivyInv, PropsChanged PROVE LivyInv'
  BY LoadListsKeeps DEF PropsChanged

LEMMA KillAnsweredKeeps == ASSUME LivyInv, NEW x \in kills, KillAnswered(x) PROVE LivyInv'
<1>1. JobKindOf[x.of] \in JobKind
  BY DeletionOf DEF LivyInv
<1>2. /\ LoadLists({JobKindOf[x.of]}) /\ kills' = kills \ {x}
      /\ UNCHANGED <<begun, running, killed, below>>
  BY DEF KillAnswered
<1>3. /\ kills' \subseteq kills
      /\ \A y \in kills : JobKindOf[y.of] \notin {JobKindOf[x.of]} => y \in kills'
  BY <1>2
<1>4. {JobKindOf[x.of]} \in SUBSET JobKind
  BY <1>1
<1>5. QED
  BY <1>2, <1>3, <1>4, LoadListsKeeps

(* One list of a kind goes on. *)
LEMMA ListStep ==
  ASSUME LivyInv, NEW k \in JobKind, NEW n \in 1..MaxPageLists, NEW list \in ListUnderWay(k),
         pageLists' = [pageLists EXCEPT ![k][n] = list]
  PROVE  /\ DOMAIN pageLists' = JobKind
         /\ \A j \in JobKind : pageLists'[j] \in [1..MaxPageLists -> ListUnderWay(j)]
         /\ \A j \in JobKind : j # k => pageLists'[j] = pageLists[j]
         /\ \A m \in 1..MaxPageLists :
               pageLists'[k][m] = IF m = n THEN list ELSE pageLists[k][m]
<1>1. /\ DOMAIN pageLists = JobKind
      /\ \A j \in JobKind : pageLists[j] \in [1..MaxPageLists -> ListUnderWay(j)]
  BY DEF LivyInv, LivyTypes
<1>2. /\ pageLists'[k] = [pageLists[k] EXCEPT ![n] = list]
      /\ \A j \in JobKind : j # k => pageLists'[j] = pageLists[j]
      /\ DOMAIN pageLists' = JobKind
  BY <1>1
<1>3. QED
  BY <1>1, <1>2

LEMMA JobsReadKeeps ==
  ASSUME LivyInv, NEW k \in JobKind, NEW n \in 1..MaxPageLists, JobsRead(k, n) PROVE LivyInv'
<1> DEFINE list == [stage |-> "read", jobs |-> {j \in running : JobKindOf[j] = k}]
<1>1. LivyTypes
  BY DEF LivyInv
<1>2. /\ pageLists[k][n].stage = "asked" /\ pageLists' = [pageLists EXCEPT ![k][n] = list]
      /\ UNCHANGED <<begun, running, killed, rows, below, kills, raced>>
  BY DEF JobsRead
<1>3. pageLists[k][n] # NoPageList
  BY <1>1, <1>2, ListOf
<1>4. list \in ListUnderWay(k) /\ list.jobs \cap killed = {} /\ list # NoPageList
  <2>1. running \subseteq 1..Jobs
    BY <1>1, KindOf DEF LivyTypes
  <2>2. {j \in running : JobKindOf[j] = k} \in SUBSET OfKind(k)
    BY <2>1 DEF OfKind
  <2>3. QED
    BY <1>1, <2>2 DEF ListUnderWay, NoPageList, LivyTypes
<1> HIDE DEF list
<1>5. /\ DOMAIN pageLists' = JobKind
      /\ \A j \in JobKind : pageLists'[j] \in [1..MaxPageLists -> ListUnderWay(j)]
      /\ \A j \in JobKind : j # k => pageLists'[j] = pageLists[j]
      /\ \A m \in 1..MaxPageLists : pageLists'[k][m] = IF m = n THEN list ELSE pageLists[k][m]
  BY <1>2, <1>4, ListStep
<1>6. LivyTypes'
  BY <1>1, <1>2, <1>5 DEF LivyTypes
<1>7. ASSUME ~raced, NEW j \in JobKind
      PROVE  PageInv(j, rows[j], pageLists'[j], below, kills, killed)
  <2>1. PageInv(j, rows[j], pageLists[j], below, kills, killed)
    BY <1>7 DEF LivyInv
  <2>2. CASE j = k
    <3>1. OneList(pageLists'[k]) /\ EmptyMeanwhile(rows[k], pageLists'[k])
      BY <1>3, <1>5, <2>1, <2>2 DEF PageInv, OneList, EmptyMeanwhile
    <3>2. KilledAreGone(k, rows[k], pageLists'[k], kills, killed)
      BY <1>4, <1>5, <2>1, <2>2 DEF PageInv, KilledAreGone
    <3>3. QED
      BY <2>1, <2>2, <3>1, <3>2 DEF PageInv
  <2>3. QED
    BY <1>5, <2>1, <2>2
<1>8. QED
  BY <1>2, <1>6, <1>7 DEF LivyInv

LEMMA JobsShownKeeps ==
  ASSUME LivyInv, NEW k \in JobKind, NEW n \in 1..MaxPageLists, JobsShown(k, n) PROVE LivyInv'
<1> DEFINE S == pageLists[k][n].jobs
           c == Cardinality(S)
           jobs == InOrder(S)
           list == [i \in DOMAIN jobs |-> [id |-> jobs[i], shows |-> Unasked]]
<1>1. LivyTypes
  BY DEF LivyInv
<1>2. /\ pageLists[k][n].stage = "read" /\ pageLists' = [pageLists EXCEPT ![k][n] = NoPageList]
      /\ rows' = [rows EXCEPT ![k] = list]
      /\ UNCHANGED <<begun, running, killed, below, kills, raced>>
  BY DEF JobsShown
<1>3. pageLists[k][n] # NoPageList /\ S \subseteq OfKind(k)
  BY <1>1, <1>2, ListOf
<1>4. c \in Nat /\ c <= Jobs /\ jobs \in [1..c -> S]
  BY <1>3, JobsInOrder DEF OfKind
<1>5. /\ list \in Seq(JobRow) /\ Len(list) = c
      /\ \A i \in 1..c : list[i].id \in S /\ list[i].shows = Unasked
  <2> HIDE DEF c, jobs, S
  <2>1. DOMAIN jobs = 1..c /\ \A i \in 1..c : jobs[i] \in S /\ jobs[i] \in 1..Jobs
    BY <1>3, <1>4 DEF OfKind
  <2>2. \A i \in 1..c : [id |-> jobs[i], shows |-> Unasked] \in JobRow
    BY <2>1, KindOf DEF JobRow, Unasked
  <2>3. list = [i \in 1..c |-> [id |-> jobs[i], shows |-> Unasked]]
    BY <2>1
  <2>4. list \in [1..c -> JobRow]
    BY <2>2, <2>3
  <2>5. list \in Seq(JobRow) /\ Len(list) = c
    BY <1>4, <2>3, <2>4
  <2>6. QED
    BY <2>1, <2>3, <2>5
<1> HIDE DEF c, jobs, list
<1>6. /\ DOMAIN pageLists' = JobKind
      /\ \A j \in JobKind : pageLists'[j] \in [1..MaxPageLists -> ListUnderWay(j)]
      /\ \A j \in JobKind : j # k => pageLists'[j] = pageLists[j]
      /\ \A m \in 1..MaxPageLists :
            pageLists'[k][m] = IF m = n THEN NoPageList ELSE pageLists[k][m]
  <2>1. NoPageList \in ListUnderWay(k)
    BY DEF ListUnderWay
  <2>2. QED
    BY <1>2, <2>1, ListStep
<1>7. /\ rows' \in [JobKind -> Seq(JobRow)]
      /\ \A j \in JobKind : rows'[j] = IF j = k THEN list ELSE rows[j]
  BY <1>1, <1>2, <1>5 DEF LivyTypes
<1>8. LivyTypes'
  <2>1. ASSUME NEW j \in JobKind PROVE Len(rows'[j]) <= Jobs
                                       /\ \A i \in 1..Len(rows'[j]) : rows'[j][i].id \in OfKind(j)
    BY <1>1, <1>3, <1>4, <1>5, <1>7 DEF LivyTypes
  <2>2. QED
    BY <1>1, <1>2, <1>6, <1>7, <2>1 DEF LivyTypes
<1>9. ASSUME ~raced, NEW j \in JobKind
      PROVE  PageInv(j, rows'[j], pageLists'[j], below, kills, killed)
  <2>1. PageInv(j, rows[j], pageLists[j], below, kills, killed)
    BY <1>9 DEF LivyInv
  <2>2. CASE j = k
    <3>1. rows[k] = <<>> /\ Len(rows[k]) = 0
      BY <1>3, <2>1, <2>2 DEF PageInv, EmptyMeanwhile
    <3>2. \A d \in below : JobKindOf[d.of] # k
      BY <2>1, <2>2, <3>1 DEF PageInv, OwnDetails
    <3>3. \A m \in 1..MaxPageLists : pageLists'[k][m] = NoPageList
      BY <1>3, <1>6, <2>1, <2>2 DEF PageInv, OneList
    <3>4. OwnRows(rows'[k]) /\ OwnDetails(k, rows'[k], below)
      BY <1>5, <1>7, <3>2 DEF OwnRows, OwnDetails
    <3>5. OneList(pageLists'[k]) /\ EmptyMeanwhile(rows'[k], pageLists'[k])
      BY <3>3 DEF OneList, EmptyMeanwhile
    <3>6. KilledAreGone(k, rows'[k], pageLists'[k], kills, killed)
      <4>1. \A m \in 1..MaxPageLists : pageLists'[k][m].stage # "read"
        BY <3>3 DEF NoPageList
      <4>2. (\E x \in kills : JobKindOf[x.of] = k) \/ S \cap killed = {}
        BY <1>2, <2>1, <2>2 DEF PageInv, KilledAreGone
      <4>3. QED
        BY <1>5, <1>7, <4>1, <4>2 DEF KilledAreGone
    <3>7. QED
      BY <2>2, <3>4, <3>5, <3>6 DEF PageInv
  <2>3. QED
    BY <1>6, <1>7, <2>1, <2>2
<1>10. QED
  BY <1>2, <1>8, <1>9 DEF LivyInv

(* A row and the details of one kind change. *)
LEMMA BelowStep ==
  ASSUME LivyInv, NEW k \in JobKind,
         rows' \in [JobKind -> Seq(JobRow)], \A j \in JobKind : j # k => rows'[j] = rows[j],
         Len(rows'[k]) = Len(rows[k]),
         \A m \in 1..Len(rows[k]) : rows'[k][m].id = rows[k][m].id,
         below' \subseteq [stage : {"timer", "asked"}, of : 1..Jobs, row : 1..Jobs],
         \A d \in below' : \/ \E e \in below : e.of = d.of /\ e.row = d.row
                           \/ /\ JobKindOf[d.of] = k /\ d.row \in 1..Len(rows[k])
                              /\ rows[k][d.row].id = d.of,
         ~raced => OwnRows(rows'[k]),
         UNCHANGED <<begun, running, killed, pageLists, kills, raced>>
  PROVE  LivyInv'
<1>1. LivyTypes
  BY DEF LivyInv
<1>2. LivyTypes'
  <2>1. ASSUME NEW j \in JobKind PROVE Len(rows'[j]) <= Jobs
                                       /\ \A i \in 1..Len(rows'[j]) : rows'[j][i].id \in OfKind(j)
    BY <1>1 DEF LivyTypes
  <2>2. QED
    BY <1>1, <2>1 DEF LivyTypes
<1>3. ASSUME ~raced, NEW j \in JobKind
      PROVE  PageInv(j, rows'[j], pageLists[j], below', kills, killed)
  <2>1. PageInv(j, rows[j], pageLists[j], below, kills, killed)
    BY <1>3 DEF LivyInv
  <2>2. Len(rows'[j]) = Len(rows[j]) /\ \A m \in 1..Len(rows[j]) : rows'[j][m].id = rows[j][m].id
    OBVIOUS
  <2>3. OwnRows(rows'[j])
    BY <1>3, <2>1 DEF PageInv
  <2>4. OwnDetails(j, rows'[j], below')
    <3> SUFFICES ASSUME NEW d \in below', JobKindOf[d.of] = j
                 PROVE  d.row \in 1..Len(rows'[j]) /\ rows'[j][d.row].id = d.of
      BY DEF OwnDetails
    <3>1. d.row \in 1..Len(rows[j]) /\ rows[j][d.row].id = d.of
      BY <2>1 DEF PageInv, OwnDetails
    <3>2. QED
      BY <2>2, <3>1
  <2>5. EmptyMeanwhile(rows'[j], pageLists[j])
    <3> SUFFICES ASSUME NEW n \in 1..MaxPageLists, pageLists[j][n] # NoPageList
                 PROVE  rows'[j] = <<>>
      BY DEF EmptyMeanwhile
    <3>1. rows[j] = <<>>
      BY <2>1 DEF PageInv, EmptyMeanwhile
    <3>2. Len(rows'[j]) = 0 /\ rows'[j] \in Seq(JobRow)
      BY <2>2, <3>1
    <3>3. QED
      BY <3>2, EmptySeq
  <2>6. KilledAreGone(j, rows'[j], pageLists[j], kills, killed)
    BY <2>1, <2>2 DEF PageInv, KilledAreGone
  <2>7. QED
    BY <2>1, <2>3, <2>4, <2>5, <2>6 DEF PageInv
<1>4. QED
  BY <1>2, <1>3 DEF LivyInv

(* A row shows its own, or nothing yet. *)
LEMMA RowShows ==
  ASSUME LivyInv, NEW k \in JobKind, NEW i \in 1..Len(rows[k]), NEW s \in 0..Jobs + 1,
         rows' = [rows EXCEPT ![k][i].shows = s], ~raced => s \in {Unasked, Waiting, rows[k][i].id}
  PROVE  /\ rows' \in [JobKind -> Seq(JobRow)]
         /\ \A j \in JobKind : j # k => rows'[j] = rows[j]
         /\ Len(rows'[k]) = Len(rows[k])
         /\ \A m \in 1..Len(rows[k]) : rows'[k][m].id = rows[k][m].id
         /\ ~raced => OwnRows(rows'[k])
<1> DEFINE r == [rows[k][i] EXCEPT !.shows = s]
           list == [rows[k] EXCEPT ![i] = r]
<1>1. rows \in [JobKind -> Seq(JobRow)] /\ rows[k] \in Seq(JobRow) /\ rows[k][i] \in JobRow
  BY RowsOf DEF LivyInv, LivyTypes
<1>2. r \in JobRow /\ r.id = rows[k][i].id /\ r.shows = s
  BY <1>1 DEF JobRow
<1>3. rows' = [rows EXCEPT ![k] = list]
  OBVIOUS
<1> HIDE DEF r
<1>4. /\ list \in Seq(JobRow) /\ Len(list) = Len(rows[k])
      /\ \A m \in 1..Len(rows[k]) : list[m] = IF m = i THEN r ELSE rows[k][m]
  BY <1>1, <1>2, ExceptSeq
<1> HIDE DEF list
<1>5. /\ rows' \in [JobKind -> Seq(JobRow)] /\ rows'[k] = list
      /\ \A j \in JobKind : j # k => rows'[j] = rows[j]
  BY <1>1, <1>3, <1>4
<1>6. \A m \in 1..Len(rows[k]) : rows'[k][m].id = rows[k][m].id
  BY <1>2, <1>4, <1>5
<1>7. ASSUME ~raced PROVE OwnRows(rows'[k])
  <2>1. OwnRows(rows[k])
    BY <1>7 DEF LivyInv, PageInv
  <2>2. QED
    BY <1>2, <1>4, <1>5, <1>7, <2>1 DEF OwnRows
<1>8. QED
  BY <1>4, <1>5, <1>6, <1>7

LEMMA RowsAreOwn ==
  ASSUME LivyInv, NEW k \in JobKind, UNCHANGED rows
  PROVE  /\ rows' \in [JobKind -> Seq(JobRow)]
         /\ \A j \in JobKind : j # k => rows'[j] = rows[j]
         /\ Len(rows'[k]) = Len(rows[k])
         /\ \A m \in 1..Len(rows[k]) : rows'[k][m].id = rows[k][m].id
         /\ ~raced => OwnRows(rows'[k])
BY DEF LivyInv, LivyTypes, PageInv

LEMMA WaitingShown == Waiting \in 0..Jobs + 1 /\ Unasked \in 0..Jobs + 1
  BY KindOf DEF Waiting, Unasked

LEMMA ExpandKeeps ==
  ASSUME LivyInv, NEW k \in JobKind, NEW i \in 1..Len(rows[k]), Expand(k, i) PROVE LivyInv'
<1> DEFINE d == [stage |-> "timer", of |-> rows[k][i].id, row |-> i]
           D == [stage : {"timer", "asked"}, of : 1..Jobs, row : 1..Jobs]
<1>1. LivyTypes /\ below \subseteq D
  BY DEF LivyInv, LivyTypes
<1>2. rows[k][i].id \in 1..Jobs /\ JobKindOf[rows[k][i].id] = k /\ i \in 1..Jobs
  BY <1>1, RowsOf
<1>3. /\ below' = below \cup {d}
      /\ rows' = IF k = "batch" THEN [rows EXCEPT ![k][i].shows = Waiting] ELSE rows
      /\ UNCHANGED <<begun, running, killed, pageLists, kills, raced>>
  BY DEF Expand
<1>4. /\ rows' \in [JobKind -> Seq(JobRow)]
      /\ \A j \in JobKind : j # k => rows'[j] = rows[j]
      /\ Len(rows'[k]) = Len(rows[k])
      /\ \A m \in 1..Len(rows[k]) : rows'[k][m].id = rows[k][m].id
      /\ ~raced => OwnRows(rows'[k])
  <2>1. CASE k = "batch"
    <3>1. rows' = [rows EXCEPT ![k][i].shows = Waiting]
      BY <1>3, <2>1
    <3>2. QED
      BY <3>1, WaitingShown, RowShows
  <2>2. CASE k # "batch"
    BY <1>3, <2>2, RowsAreOwn
  <2>3. QED
    BY <2>1, <2>2
<1>5. d \in D /\ d.row = i /\ d.of = rows[k][i].id
  BY <1>2
<1>6. below' \subseteq D
  BY <1>1, <1>3, <1>5
<1> HIDE DEF d
<1>7. \A e \in below' : \/ \E f \in below : f.of = e.of /\ f.row = e.row
                        \/ /\ JobKindOf[e.of] = k /\ e.row \in 1..Len(rows[k])
                           /\ rows[k][e.row].id = e.of
  BY <1>2, <1>3, <1>5
<1>8. QED
  BY <1>3, <1>4, <1>6, <1>7, BelowStep

LEMMA AskBelowKeeps == ASSUME LivyInv, NEW d \in below, AskBelow(d) PROVE LivyInv'
<1> DEFINE k == JobKindOf[d.of]
           there == d.row \in DOMAIN rows[k]
           asked == [d EXCEPT !.stage = "asked"]
           D == [stage : {"timer", "asked"}, of : 1..Jobs, row : 1..Jobs]
<1>1. LivyTypes /\ below \subseteq D
  BY DEF LivyInv, LivyTypes
<1>2. d \in D /\ k \in JobKind
  BY <1>1, DetailOf
<1>3. /\ below' = (below \ {d}) \cup (IF k = "session" /\ ~there THEN {} ELSE {asked})
      /\ rows' = IF k = "session" /\ there THEN [rows EXCEPT ![k][d.row].shows = Waiting] ELSE rows
      /\ UNCHANGED <<begun, running, killed, pageLists, kills, raced>>
  BY DEF AskBelow
<1>4. DOMAIN rows[k] = 1..Len(rows[k])
  BY <1>1, <1>2, RowsOf
<1> HIDE DEF k
<1>5. /\ rows' \in [JobKind -> Seq(JobRow)]
      /\ \A j \in JobKind : j # k => rows'[j] = rows[j]
      /\ Len(rows'[k]) = Len(rows[k])
      /\ \A m \in 1..Len(rows[k]) : rows'[k][m].id = rows[k][m].id
      /\ ~raced => OwnRows(rows'[k])
  <2>1. CASE k = "session" /\ there
    <3>1. rows' = [rows EXCEPT ![k][d.row].shows = Waiting] /\ d.row \in 1..Len(rows[k])
      BY <1>3, <1>4, <2>1
    <3>2. QED
      BY <1>2, <3>1, WaitingShown, RowShows
  <2>2. CASE ~(k = "session" /\ there)
    <3>1. UNCHANGED rows
      BY <1>3, <2>2
    <3>2. QED
      BY ONLY <1>2, <3>1, LivyInv, RowsAreOwn
  <2>3. QED
    BY <2>1, <2>2
<1>6. asked \in D /\ asked.of = d.of /\ asked.row = d.row
  BY ONLY <1>2
<1> HIDE DEF asked, there
<1>7. below' \subseteq D /\ \A e \in below' : \E f \in below : f.of = e.of /\ f.row = e.row
  BY <1>1, <1>3, <1>6
<1>8. QED
  BY <1>2, <1>3, <1>5, <1>7, BelowStep

LEMMA BelowReadKeeps == ASSUME LivyInv, NEW d \in below, BelowRead(d) PROVE LivyInv'
<1> DEFINE k == JobKindOf[d.of]
           D == [stage : {"timer", "asked"}, of : 1..Jobs, row : 1..Jobs]
<1>1. LivyTypes /\ below \subseteq D
  BY DEF LivyInv, LivyTypes
<1>2. d \in D /\ k \in JobKind /\ d.of \in 0..Jobs + 1
  <2>1. d.of \in 1..Jobs /\ k \in JobKind /\ d \in D
    BY <1>1, DetailOf
  <2>2. QED
    BY <2>1, KindOf
<1>3. /\ below' = below \ {d}
      /\ rows' = IF d.row \in DOMAIN rows[k] THEN [rows EXCEPT ![k][d.row].shows = d.of] ELSE rows
      /\ UNCHANGED <<begun, running, killed, pageLists, kills, raced>>
  BY DEF BelowRead
<1>4. DOMAIN rows[k] = 1..Len(rows[k])
  BY <1>1, <1>2, RowsOf
<1>5. ~raced => rows[k][d.row].id = d.of
  BY <1>2 DEF LivyInv, PageInv, OwnDetails
<1> HIDE DEF k
<1>6. /\ rows' \in [JobKind -> Seq(JobRow)]
      /\ \A j \in JobKind : j # k => rows'[j] = rows[j]
      /\ Len(rows'[k]) = Len(rows[k])
      /\ \A m \in 1..Len(rows[k]) : rows'[k][m].id = rows[k][m].id
      /\ ~raced => OwnRows(rows'[k])
  <2>1. CASE d.row \in DOMAIN rows[k]
    <3>1. rows' = [rows EXCEPT ![k][d.row].shows = d.of] /\ d.row \in 1..Len(rows[k])
      BY <1>3, <1>4, <2>1
    <3>2. QED
      BY <1>2, <1>5, <3>1, RowShows
  <2>2. CASE d.row \notin DOMAIN rows[k]
    BY <1>2, <1>3, <2>2, RowsAreOwn
  <2>3. QED
    BY <2>1, <2>2
<1>7. below' \subseteq D /\ \A e \in below' : \E f \in below : f.of = e.of /\ f.row = e.row
  BY <1>1, <1>3
<1>8. QED
  BY <1>2, <1>3, <1>6, <1>7, BelowStep

-----------------------------------------------------------------------------
(* Deletions. *)
LEMMA KillKeeps ==
  ASSUME LivyInv, NEW k \in JobKind, NEW i \in 1..Len(rows[k]), Kill(k, i) PROVE LivyInv'
<1>1. LivyTypes
  BY DEF LivyInv
<1>2. rows[k][i].id \in 1..Jobs
  BY <1>1, RowsOf
<1>3. /\ kills' = kills \cup {[stage |-> "sent", of |-> rows[k][i].id]}
      /\ UNCHANGED <<begun, running, killed, rows, pageLists, below, raced>>
  BY DEF Kill
<1>4. LivyTypes'
  BY <1>1, <1>2, <1>3 DEF LivyTypes
<1>5. ASSUME ~raced, NEW j \in JobKind
      PROVE  PageInv(j, rows[j], pageLists[j], below, kills', killed)
  <2>1. PageInv(j, rows[j], pageLists[j], below, kills, killed)
    BY <1>5 DEF LivyInv
  <2>2. KilledAreGone(j, rows[j], pageLists[j], kills', killed)
    BY <1>3, <2>1 DEF PageInv, KilledAreGone
  <2>3. QED
    BY <2>1, <2>2 DEF PageInv
<1>6. QED
  BY <1>3, <1>4, <1>5 DEF LivyInv

LEMMA KilledKeeps == ASSUME LivyInv, NEW x \in kills, Killed(x) PROVE LivyInv'
<1> DEFINE y == [x EXCEPT !.stage = "done"]
<1>1. LivyTypes
  BY DEF LivyInv
<1>2. /\ x \in [stage : {"sent", "done"}, of : 1..Jobs] /\ x.of \in running
      /\ JobKindOf[x.of] \in JobKind
  BY <1>1, DeletionOf DEF Killed
<1>3. /\ kills' = (kills \ {x}) \cup {y} /\ running' = running \ {x.of}
      /\ killed' = killed \cup {x.of}
      /\ UNCHANGED <<begun, rows, pageLists, below, raced>>
  BY DEF Killed
<1>4. y \in [stage : {"sent", "done"}, of : 1..Jobs] /\ y.of = x.of
  BY <1>2
<1> HIDE DEF y
<1>5. LivyTypes'
  BY <1>1, <1>2, <1>3, <1>4 DEF LivyTypes
<1>6. ASSUME ~raced, NEW j \in JobKind
      PROVE  PageInv(j, rows[j], pageLists[j], below, kills', killed')
  <2>1. PageInv(j, rows[j], pageLists[j], below, kills, killed)
    BY <1>6 DEF LivyInv
  <2>2. KilledAreGone(j, rows[j], pageLists[j], kills', killed')
    <3>1. CASE \E z \in kills : JobKindOf[z.of] = j
      BY <1>3, <1>4, <3>1 DEF KilledAreGone
    <3>2. CASE ~(\E z \in kills : JobKindOf[z.of] = j)
      <4>1. JobKindOf[x.of] # j
        BY <3>2
      <4>2. /\ \A i \in 1..Len(rows[j]) : rows[j][i].id \notin killed'
            /\ \A n \in 1..MaxPageLists :
                  pageLists[j][n].stage = "read" => pageLists[j][n].jobs \cap killed' = {}
        <5>1. \A i \in 1..Len(rows[j]) : rows[j][i].id # x.of
          BY <1>1, <4>1, RowsOf
        <5>2. \A n \in 1..MaxPageLists :
                 pageLists[j][n].stage = "read" => x.of \notin pageLists[j][n].jobs
          BY <1>1, <4>1, ListOf, KindOf
        <5>3. QED
          BY <1>3, <2>1, <3>2, <5>1, <5>2 DEF PageInv, KilledAreGone
      <4>3. QED
        BY <4>2 DEF KilledAreGone
    <3>3. QED
      BY <3>1, <3>2
  <2>3. QED
    BY <2>1, <2>2 DEF PageInv
<1>7. QED
  BY <1>3, <1>5, <1>6 DEF LivyInv

LEMMA LivyRequestFailsKeeps == ASSUME LivyInv, LivyRequestFails PROVE LivyInv'
<1>1. LivyTypes
  BY DEF LivyInv
<1>2. raced' = TRUE /\ UNCHANGED <<begun, running, killed, rows>>
  BY DEF LivyRequestFails
<1>3. CASE UNCHANGED <<below, kills>> /\ \E k \in JobKind, n \in 1..MaxPageLists :
             pageLists' = [pageLists EXCEPT ![k][n] = NoPageList]
  <2>1. PICK k \in JobKind, n \in 1..MaxPageLists :
           pageLists' = [pageLists EXCEPT ![k][n] = NoPageList]
    BY <1>3
  <2>2. NoPageList \in ListUnderWay(k)
    BY DEF ListUnderWay
  <2>3. /\ DOMAIN pageLists' = JobKind
        /\ \A j \in JobKind : pageLists'[j] \in [1..MaxPageLists -> ListUnderWay(j)]
    BY <2>1, <2>2, ListStep
  <2>4. QED
    BY <1>1, <1>2, <1>3, <2>3 DEF LivyTypes, LivyInv
<1>4. CASE pageLists' = pageLists /\ below' \subseteq below /\ kills' \subseteq kills
  BY <1>1, <1>2, <1>4 DEF LivyTypes, LivyInv
<1>5. QED
  BY <1>3, <1>4 DEF LivyRequestFails

LEMMA LivyInvNext == LivyInv /\ [LivyNext]_livyVars => LivyInv'
<1> SUFFICES ASSUME LivyInv, [LivyNext]_livyVars PROVE LivyInv'
  OBVIOUS
<1>1. \A k \in JobKind : DOMAIN rows[k] = 1..Len(rows[k])
  BY RowsOf DEF LivyInv
<1>2. CASE UNCHANGED livyVars
  BY <1>2 DEF livyVars, LivyInv, LivyTypes
<1>3. CASE JobBegins \/ (\E j \in 1..Jobs : JobEnds(j)) \/ PropsChanged
  BY <1>3, JobBeginsKeeps, JobEndsKeeps, PropsChangedKeeps
<1>4. CASE \E k \in JobKind, n \in 1..MaxPageLists : JobsRead(k, n) \/ JobsShown(k, n)
  BY <1>4, JobsReadKeeps, JobsShownKeeps
<1>5. CASE \E k \in JobKind : \E i \in DOMAIN rows[k] : Expand(k, i) \/ Kill(k, i)
  BY <1>1, <1>5, ExpandKeeps, KillKeeps
<1>6. CASE \E d \in below : AskBelow(d) \/ BelowRead(d)
  BY <1>6, AskBelowKeeps, BelowReadKeeps
<1>7. CASE (\E x \in kills : Killed(x) \/ KillAnswered(x)) \/ LivyRequestFails
  BY <1>7, KilledKeeps, KillAnsweredKeeps, LivyRequestFailsKeeps
<1>8. QED
  BY <1>2, <1>3, <1>4, <1>5, <1>6, <1>7 DEF LivyNext

(* What the page has of a kind stays its own: LivyInv is inductive. *)
THEOREM LivyInvariant == LivySpec => []LivyInv
  BY LivyInvInit, LivyInvNext, PTL DEF LivySpec

(* Every variable of the page has its type. *)
THEOREM LivyTypeCorrect == LivySpec => []LivyTypeOK
<1>1. LivyInv => LivyTypeOK
  <2> SUFFICES ASSUME LivyTypes PROVE LivyTypeOK
    BY DEF LivyInv
  <2>1. \A k \in JobKind, n \in 1..MaxPageLists :
           \/ pageLists[k][n] \in {NoPageList, [stage |-> "asked"]}
           \/ pageLists[k][n] \in [stage : {"read"}, jobs : SUBSET (1..Jobs)]
    <3> TAKE k \in JobKind, n \in 1..MaxPageLists
    <3>1. pageLists[k][n] \in ListUnderWay(k) /\ OfKind(k) \subseteq 1..Jobs
      BY ListOf DEF OfKind
    <3>2. QED
      BY <3>1 DEF ListUnderWay
  <2>2. QED
    BY <2>1 DEF LivyTypes, LivyTypeOK
<1>2. QED
  BY <1>1, LivyInvariant, PTL

(* A row of the page of a Livy server has below itself the statements or   *)
(* the log of its own session or batch, and a job that was deleted is not  *)
(* listed once its deletion and the list have been answered: as long as no *)
(* request failed and no list overtook a list or a detail of its kind.     *)
THEOREM JobsOwnCorrect == LivySpec => []JobsAreTheirOwn
<1>1. LivyInv => JobsAreTheirOwn
  <2> SUFFICES ASSUME LivyInv, ~raced, NEW k \in JobKind
               PROVE  /\ \A i \in DOMAIN rows[k] : rows[k][i].shows \in {Unasked, Waiting, rows[k][i].id}
                      /\ ~Loading(k) /\ (\A x \in kills : JobKindOf[x.of] # k)
                            => \A i \in DOMAIN rows[k] : rows[k][i].id \notin killed
    BY DEF JobsAreTheirOwn
  <2>1. DOMAIN rows[k] = 1..Len(rows[k])
    BY RowsOf DEF LivyInv
  <2>2. OwnRows(rows[k]) /\ KilledAreGone(k, rows[k], pageLists[k], kills, killed)
    BY DEF LivyInv, PageInv
  <2>3. QED
    BY <2>1, <2>2 DEF OwnRows, KilledAreGone
<1>2. QED
  BY <1>1, LivyInvariant, PTL

-----------------------------------------------------------------------------
(***************************************************************************)
(* The page of an Oozie server (UiTasks).                                  *)
(***************************************************************************)

(* f goes up from the tasks to m, as long as they are among these ids. *)
Climbs(f, ids, m) == f = [p \in 0..m |-> IF p \notin ids THEN {} ELSE {p} \cup f[PartOf[p]]]

LEMMA ClimbExists ==
  ASSUME NEW ids, ids \subseteq 1..Tasks, NEW m \in Nat
  PROVE  \E f : Climbs(f, ids, m)
<1> DEFINE T == {k \in Nat : ~ \E f : Climbs(f, ids, k)}
<1> SUFFICES ASSUME T # {} PROVE FALSE
  OBVIOUS
<1>1. PICK k \in T : \A j \in T : k <= j
  BY LeastNumber
<1>2. k # 0
  <2> DEFINE f == [p \in 0..0 |-> {}]
  <2>1. Climbs(f, ids, 0)
    BY TasksAssumption DEF Climbs
  <2>2. QED
    BY <2>1
<1>3. k - 1 \in Nat /\ k - 1 \notin T
  BY <1>1, <1>2
<1>4. PICK g : Climbs(g, ids, k - 1)
  BY <1>3
<1> DEFINE f == [p \in 0..k |-> IF p # k THEN g[p]
                                ELSE IF k \notin ids THEN {} ELSE {k} \cup g[PartOf[k]]]
<1>5. \A p \in 0..(k - 1) : f[p] = g[p]
  BY <1>3
<1>6. \A p \in ids : PartOf[p] \in Nat /\ p \in Nat /\ PartOf[p] < p
  BY TasksAssumption
<1>7. ASSUME NEW p \in 0..k PROVE f[p] = IF p \notin ids THEN {} ELSE {p} \cup f[PartOf[p]]
  <2>1. p \in ids => PartOf[p] \in 0..(k - 1)
    BY <1>3, <1>6
  <2>2. CASE p = k
    BY <1>1, <1>5, <2>1, <2>2
  <2>3. CASE p # k
    <3>1. p \in 0..(k - 1)
      BY <1>3, <2>3
    <3>2. g[p] = IF p \notin ids THEN {} ELSE {p} \cup g[PartOf[p]]
      BY <1>4, <3>1 DEF Climbs
    <3>3. QED
      BY <1>5, <2>1, <3>1, <3>2
  <2>4. QED
    BY <2>2, <2>3
<1>8. f = [p \in 0..k |-> f[p]]
  OBVIOUS
<1> HIDE DEF f
<1>9. Climbs(f, ids, k)
  BY <1>7, <1>8 DEF Climbs
<1>10. QED
  BY <1>1, <1>9

(* What is above a task, of these ids. *)
Above(ids, t) ==
    LET up[p \in 0..Tasks] == IF p \notin ids THEN {} ELSE {p} \cup up[PartOf[p]]
    IN  up[PartOf[t]]

LEMMA AncestorsAreAbove ==
  ASSUME NEW list, NEW t
  PROVE  Ancestors(list, t) = Above(IdsOf(list), t)
BY DEF Ancestors, Above

(* No Spark task is above another task. *)
LEMMA NoSparkAbove ==
  ASSUME NEW ids, ids \subseteq 1..Tasks, NEW t \in 1..Tasks
  PROVE  Above(ids, t) \cap Spark = {}
<1> DEFINE f == CHOOSE f : Climbs(f, ids, Tasks)
<1>0. Tasks \in Nat
  BY TasksAssumption
<1>1. Climbs(f, ids, Tasks)
  BY <1>0, ClimbExists
<1>2. Above(ids, t) = f[PartOf[t]]
  BY DEF Above, Climbs
<1> HIDE DEF f
<1>3. \A p \in 0..Tasks : f[p] = IF p \notin ids THEN {} ELSE {p} \cup f[PartOf[p]]
  BY <1>1 DEF Climbs
<1>4. \A p \in 1..Tasks : PartOf[p] \in Nat /\ PartOf[p] < p /\ PartOf[p] \notin Spark
  BY TasksAssumption DEF Spark
<1> DEFINE T == {p \in 0..Tasks : p \notin Spark /\ f[p] \cap Spark # {}}
<1>5. T = {}
  <2> SUFFICES ASSUME T # {} PROVE FALSE
    OBVIOUS
  <2>1. PICK p \in T : \A j \in T : p <= j
    <3>1. T \subseteq Nat
      BY <1>0
    <3> HIDE DEF T
    <3>2. QED
      BY <3>1, LeastNumber
  <2>2. p \in ids /\ p \in 1..Tasks /\ f[p] = {p} \cup f[PartOf[p]]
    BY <1>3, <2>1
  <2>3. PartOf[p] \in 0..Tasks /\ ~(p <= PartOf[p]) /\ PartOf[p] \notin Spark
    BY <1>0, <1>4, <2>2
  <2>4. PartOf[p] \notin T
    BY <2>1, <2>3
  <2>5. QED
    BY <2>1, <2>2, <2>3, <2>4
<1>6. PartOf[t] \in 0..Tasks /\ PartOf[t] \notin Spark
  BY <1>0, <1>4
<1>7. QED
  BY <1>2, <1>5, <1>6

(* The records that these rows count. *)
RecordsIn(num, S) == UNION {{j} \X (1..num[j]) : j \in S}

LEMMA RecordsCounted ==
  ASSUME NEW S, IsFiniteSet(S), NEW num, \A j \in S : num[j] \in Nat
  PROVE  /\ IsFiniteSet(RecordsIn(num, S)) /\ Cardinality(RecordsIn(num, S)) \in Nat
         /\ \A q \in RecordsIn(num, S) : q[1] \in S
<1> DEFINE all == {{j} \X (1..num[j]) : j \in S}
<1>1. IsFiniteSet(all)
  <2> DEFINE f == [j \in S |-> {j} \X (1..num[j])]
  <2>1. f \in Surjection(S, all)
    BY DEF Surjection
  <2> HIDE DEF f, all
  <2>2. QED
    BY <2>1, FS_Surjection
<1>2. ASSUME NEW j \in S PROVE IsFiniteSet({j} \X (1..num[j]))
  <2>1. num[j] \in Nat /\ IsFiniteSet({j})
    BY FS_Singleton
  <2>2. IsFiniteSet(1..num[j])
    BY <2>1, NumbersCounted
  <2>3. QED
    BY <2>1, <2>2, FS_Product
<1>3. IsFiniteSet(UNION all)
  BY <1>1, <1>2, FS_UNION
<1>4. QED
  BY <1>3, FS_CardinalityType DEF RecordsIn

(* One row more that counts. *)
LEMMA OneMoreCounted ==
  ASSUME NEW S, IsFiniteSet(S), NEW num, \A j \in S : num[j] \in Nat,
         NEW more, NEW r, r \notin S, more[r] \in Nat, \A j \in S : more[j] = num[j],
         NEW all, all = S \cup {r}
  PROVE  Cardinality(RecordsIn(more, all)) = Cardinality(RecordsIn(num, S)) + more[r]
<1> DEFINE A == RecordsIn(num, S)
           B == {r} \X (1..more[r])
<1>1. IsFiniteSet(A) /\ Cardinality(A) \in Nat /\ \A q \in A : q[1] \in S
  BY RecordsCounted
<1>2. IsFiniteSet(B) /\ Cardinality(B) = more[r]
  <2>1. IsFiniteSet({r}) /\ Cardinality({r}) = 1
    BY FS_Singleton
  <2>2. IsFiniteSet(1..more[r]) /\ Cardinality(1..more[r]) = more[r]
    BY NumbersCounted
  <2>3. PICK one, numbers : one = {r} /\ numbers = 1..more[r]
    OBVIOUS
  <2>4. IsFiniteSet(one) /\ Cardinality(one) = 1 /\ IsFiniteSet(numbers) /\ Cardinality(numbers) = more[r]
    BY <2>1, <2>2, <2>3
  <2>5. IsFiniteSet(one \X numbers) /\ Cardinality(one \X numbers) = 1 * more[r]
    BY ONLY <2>4, FS_Product
  <2>6. QED
    BY <2>3, <2>5
<1>3. RecordsIn(more, all) = A \cup B
  BY DEF RecordsIn
<1>4. A \cap B = {}
  BY <1>1
<1> HIDE DEF A, B
<1>5. Cardinality(A \cap B) = 0
  BY <1>4, FS_EmptySet
<1>6. Cardinality(A \cup B) = Cardinality(A) + Cardinality(B) - Cardinality(A \cap B)
  BY <1>1, <1>2, FS_Union
<1>7. Cardinality(A \cup B) = Cardinality(A) + more[r]
  BY <1>1, <1>2, <1>5, <1>6
<1>8. QED
  BY <1>3, <1>7 DEF A

NumsOf(list) == [j \in DOMAIN list |-> list[j].num]
CountedBelow(list, i) ==
    {j \in DOMAIN list : /\ list[i].id \in Ancestors(list, list[j].id)
                         /\ list[j].id \in Spark /\ list[j].num > 0}

(* A list has the newest task first. *)
Numbered(list) == \A i \in DOMAIN list : list[i].id = Len(list) + 1 - i

(* A detail is for the row of its task; rejects that were not read do not  *)
(* count yet.                                                              *)
DetailsFit(list, ds) ==
    \A d \in ds : /\ d.row \in DOMAIN list /\ list[d.row].id = d.of
                  /\ d.kind = "rejects" => list[d.row].num = 0

ShowsOwn(list) == \A i \in DOMAIN list : {list[i].rejects, list[i].logs} \subseteq {0, list[i].id}

CountsFit(list) ==
    \A i \in DOMAIN list : list[i].id \notin Spark =>
        list[i].num = Cardinality(RecordsIn(NumsOf(list), CountedBelow(list, i)))

TasksInv ==
    /\ TasksTypeOK
    /\ Numbered(tableData) /\ Len(tableData) <= started
    /\ ~overtaken => DetailsFit(tableData, details) /\ ShowsOwn(tableData) /\ CountsFit(tableData)

LEMMA TaskRowsTyped ==
  ASSUME NEW list \in Seq(TaskRow)
  PROVE  /\ Len(list) \in Nat /\ DOMAIN list = 1..Len(list) /\ IdsOf(list) \subseteq 1..Tasks
         /\ \A i \in DOMAIN list :
              /\ list[i] \in TaskRow /\ list[i].id \in 1..Tasks /\ list[i].num \in Nat
              /\ list[i].rejects \in 0..Tasks /\ list[i].logs \in 0..Tasks
<1>1. Len(list) \in Nat /\ DOMAIN list = 1..Len(list) /\ \A i \in DOMAIN list : list[i] \in TaskRow
  OBVIOUS
<1>2. \A r \in TaskRow : /\ r.id \in 1..Tasks /\ r.num \in Nat
                         /\ r.rejects \in 0..Tasks /\ r.logs \in 0..Tasks
  BY DEF TaskRow
<1>3. QED
  BY <1>1, <1>2 DEF IdsOf

LEMMA TasksParts ==
  ASSUME TasksTypeOK
  PROVE  /\ Tasks \in Nat /\ MaxLoads \in Nat /\ started \in 0..Tasks
         /\ tableData \in Seq(TaskRow) /\ loads \in SUBSET (0..Tasks)
         /\ IsFiniteSet(loads) /\ Cardinality(loads) \in Nat /\ Cardinality(loads) <= MaxLoads
         /\ details \subseteq Detail /\ overtaken \in BOOLEAN
         /\ Spark \subseteq 1..Tasks /\ \A t \in Spark : Rejected[t] \in Nat
         /\ \A d \in details : d.of \in Spark /\ d.row \in 1..Tasks /\ d.kind \in {"rejects", "logs"}
<1>1. Tasks \in Nat /\ MaxLoads \in Nat /\ Spark \subseteq 1..Tasks /\ \A t \in Spark : Rejected[t] \in Nat
  BY TasksAssumption DEF Spark
<1>2. IsFiniteSet(0..Tasks)
  BY <1>1, FS_Interval
<1>3. loads \in SUBSET (0..Tasks) /\ Cardinality(loads) <= MaxLoads
  BY DEF TasksTypeOK
<1>4. IsFiniteSet(loads) /\ Cardinality(loads) \in Nat
  BY <1>2, <1>3, FS_Subset, FS_CardinalityType
<1>5. \A d \in Detail : d.of \in Spark /\ d.row \in 1..Tasks /\ d.kind \in {"rejects", "logs"}
  BY DEF Detail
<1>6. QED
  BY <1>1, <1>3, <1>4, <1>5 DEF TasksTypeOK

(* A list in which the same Spark tasks count the same below the same.     *)
LEMMA BelowStays ==
  ASSUME NEW list, NEW other, DOMAIN other = DOMAIN list,
         \A i \in DOMAIN list : other[i].id = list[i].id /\ other[i].num = list[i].num
  PROVE  /\ NumsOf(other) = NumsOf(list)
         /\ \A i \in DOMAIN list : CountedBelow(other, i) = CountedBelow(list, i)
         /\ CountsFit(list) => CountsFit(other)
<1>1. IdsOf(other) = IdsOf(list)
  BY DEF IdsOf
<1>2. \A t : Ancestors(other, t) = Ancestors(list, t)
  BY <1>1, AncestorsAreAbove
<1>3. NumsOf(other) = NumsOf(list)
  BY DEF NumsOf
<1>4. \A i \in DOMAIN list : CountedBelow(other, i) = CountedBelow(list, i)
  BY <1>2 DEF CountedBelow
<1>5. QED
  BY <1>3, <1>4 DEF CountsFit

LEMMA TasksInvInit == TasksInit => TasksInv
<1> SUFFICES ASSUME TasksInit PROVE TasksInv
  OBVIOUS
<1>1. Tasks \in Nat /\ MaxLoads \in Nat /\ Cardinality({}) = 0
  BY TasksAssumption, FS_EmptySet
<1>2. tableData = <<>> /\ tableData \in Seq(TaskRow) /\ Len(tableData) = 0 /\ DOMAIN tableData = {}
  BY DEF TasksInit
<1>3. TasksTypeOK
  <2>1. loads \in SUBSET (0..Tasks) /\ Cardinality(loads) <= MaxLoads
    BY <1>1 DEF TasksInit
  <2>2. started \in 0..Tasks
    BY <1>1 DEF TasksInit
  <2>3. details \subseteq Detail
    BY DEF TasksInit
  <2>4. overtaken \in BOOLEAN
    BY DEF TasksInit
  <2>5. QED
    BY <1>2, <2>1, <2>2, <2>3, <2>4 DEF TasksTypeOK
<1>4. QED
  BY <1>2, <1>3 DEF TasksInit, TasksInv, Numbered, DetailsFit, ShowsOwn, CountsFit

LEMMA StartKeeps == ASSUME TasksInv, Start PROVE TasksInv'
<1>1. TasksTypeOK'
  BY TasksParts DEF TasksInv, Start, TasksTypeOK
<1>2. Len(tableData) <= started + 1
  BY TasksParts, TaskRowsTyped DEF TasksInv
<1>3. QED
  BY <1>1, <1>2 DEF TasksInv, Start

LEMMA LoadTasksKeeps == ASSUME TasksInv, LoadTasks PROVE TasksInv'
<1>1. Cardinality(loads \cup {started}) <= MaxLoads
  <2>1. /\ IsFiniteSet(loads) /\ Cardinality(loads) \in Nat /\ MaxLoads \in Nat
        /\ Cardinality(loads) < MaxLoads /\ started \notin loads
    BY TasksParts DEF TasksInv, LoadTasks
  <2>2. Cardinality(loads \cup {started}) = Cardinality(loads) + 1
    BY <2>1, FS_AddElement
  <2>3. QED
    BY <2>1, <2>2
<1>2. TasksTypeOK'
  BY <1>1, TasksParts DEF TasksInv, LoadTasks, TasksTypeOK
<1>3. QED
  BY <1>2 DEF TasksInv, LoadTasks

LEMMA OneLoadLess ==
  ASSUME TasksTypeOK, NEW l \in loads
  PROVE  Cardinality(loads \ {l}) <= MaxLoads
<1>1. /\ IsFiniteSet(loads) /\ Cardinality(loads) \in Nat /\ MaxLoads \in Nat
      /\ Cardinality(loads) <= MaxLoads
  BY TasksParts
<1>2. Cardinality(loads \ {l}) = Cardinality(loads) - 1
  BY <1>1, FS_RemoveElement
<1>3. QED
  BY <1>1, <1>2

LEMMA TasksLoadedKeeps ==
  ASSUME TasksInv, NEW l \in loads, NEW n \in 0..Tasks, TasksLoaded(l, n) PROVE TasksInv'
<1> DEFINE line(t) == [id |-> t, num |-> 0, logs |-> 0, rejects |-> IF t \in Spark THEN t ELSE 0]
           asked == {[kind |-> "rejects", of |-> t, row |-> n + 1 - t] : t \in Spark \cap 1..n}
<1>1. /\ tableData' = [i \in 1..n |-> line(n + 1 - i)]
      /\ loads' = loads \ {l} /\ details' = details \cup asked
      /\ overtaken' = (overtaken \/ details # {}) /\ started' = started /\ n \in l..started
  BY DEF TasksLoaded
<1>2. TasksTypeOK /\ n \in Nat /\ Tasks \in Nat /\ n <= Tasks
  BY TasksParts DEF TasksInv
<1>3. \A i \in 1..n : n + 1 - i \in 1..n /\ n + 1 - i \in 1..Tasks
  BY <1>2
<1>4. \A t \in 1..Tasks : line(t) \in TaskRow
  BY <1>2 DEF TaskRow
<1>5. /\ tableData' \in Seq(TaskRow) /\ Len(tableData') = n /\ DOMAIN tableData' = 1..n
      /\ \A i \in 1..n : tableData'[i] = line(n + 1 - i)
  BY <1>1, <1>2, <1>3, <1>4
<1>6. asked \subseteq Detail
  <2> SUFFICES ASSUME NEW t \in Spark \cap 1..n
               PROVE  [kind |-> "rejects", of |-> t, row |-> n + 1 - t] \in Detail
    OBVIOUS
  <2>1. n + 1 - t \in 1..Tasks
    BY <1>3
  <2>2. QED
    BY <2>1 DEF Detail
<1>7. Cardinality(loads \ {l}) <= MaxLoads
  BY <1>2, OneLoadLess
<1>8. TasksTypeOK'
  BY <1>1, <1>2, <1>5, <1>6, <1>7, TasksParts DEF TasksTypeOK
<1>9. Numbered(tableData') /\ Len(tableData') <= started'
  BY <1>1, <1>2, <1>5, TasksParts DEF Numbered
<1>10. \A i \in 1..n : /\ tableData'[i].id = n + 1 - i /\ tableData'[i].num = 0 /\ tableData'[i].logs = 0
                       /\ tableData'[i].rejects \in {0, n + 1 - i}
  BY <1>5
<1> HIDE DEF line
<1>11. ASSUME ~overtaken' PROVE DetailsFit(tableData', details')
  <2>1. details' = asked
    BY <1>1, <1>11
  <2> SUFFICES ASSUME NEW t \in Spark \cap 1..n
               PROVE  n + 1 - t \in DOMAIN tableData' /\ tableData'[n + 1 - t].id = t
                      /\ tableData'[n + 1 - t].num = 0
    BY <2>1 DEF DetailsFit
  <2>2. n + 1 - t \in 1..n /\ n + 1 - (n + 1 - t) = t
    BY <1>2
  <2>3. QED
    BY <1>5, <1>10, <2>2
<1>12. ShowsOwn(tableData')
  BY <1>5, <1>10 DEF ShowsOwn
<1>13. CountsFit(tableData')
  <2>1. \A i \in 1..n : CountedBelow(tableData', i) = {}
    BY <1>5, <1>10 DEF CountedBelow
  <2>2. Cardinality(RecordsIn(NumsOf(tableData'), {})) = 0
    BY FS_EmptySet DEF RecordsIn
  <2>3. QED
    BY <1>5, <1>10, <2>1, <2>2 DEF CountsFit
<1>14. QED
  BY <1>8, <1>9, <1>11, <1>12, <1>13 DEF TasksInv

(* Something else than the count is shown in a line.                        *)
LEMMA LogsShown ==
  ASSUME TasksInv, NEW i \in DOMAIN tableData, NEW t \in 0..Tasks, NEW ds, ds \subseteq Detail,
         tableData' = [tableData EXCEPT ![i].logs = t], details' = ds,
         UNCHANGED <<started, loads, overtaken>>,
         ~overtaken => t = tableData[i].id /\ DetailsFit(tableData, ds)
  PROVE  TasksInv'
<1>1. /\ TasksTypeOK /\ tableData \in Seq(TaskRow) /\ Numbered(tableData) /\ Len(tableData) <= started
      /\ ~overtaken => ShowsOwn(tableData) /\ CountsFit(tableData)
  BY DEF TasksInv, TasksTypeOK
<1>2. \A r \in TaskRow : /\ [r EXCEPT !.logs = t] \in TaskRow
                         /\ [r EXCEPT !.logs = t].id = r.id /\ [r EXCEPT !.logs = t].num = r.num
                         /\ [r EXCEPT !.logs = t].rejects = r.rejects
                         /\ [r EXCEPT !.logs = t].logs = t
  BY DEF TaskRow
<1>3. tableData' = [j \in DOMAIN tableData |-> IF j = i THEN [tableData[j] EXCEPT !.logs = t] ELSE tableData[j]]
  BY <1>1
<1>4. /\ DOMAIN tableData = 1..Len(tableData) /\ Len(tableData) \in Nat
      /\ \A j \in DOMAIN tableData : tableData[j] \in TaskRow
  BY <1>1, TaskRowsTyped
<1>5. /\ DOMAIN tableData' = DOMAIN tableData
      /\ \A j \in DOMAIN tableData : /\ tableData'[j] \in TaskRow
                                     /\ tableData'[j].id = tableData[j].id
                                     /\ tableData'[j].num = tableData[j].num
                                     /\ tableData'[j].rejects = tableData[j].rejects
                                     /\ tableData'[j].logs = IF j = i THEN t ELSE tableData[j].logs
  BY <1>2, <1>3, <1>4
<1>6. tableData' \in Seq(TaskRow) /\ Len(tableData') = Len(tableData)
  <2>1. tableData' \in [1..Len(tableData) -> TaskRow]
    BY <1>3, <1>4, <1>5
  <2>2. QED
    BY <1>4, <2>1
<1>7. TasksTypeOK'
  BY <1>1, <1>6 DEF TasksTypeOK
<1>8. Numbered(tableData')
  BY <1>1, <1>5, <1>6 DEF Numbered
<1>9. ASSUME ~overtaken
      PROVE  DetailsFit(tableData', ds) /\ ShowsOwn(tableData') /\ CountsFit(tableData')
  <2>1. DetailsFit(tableData', ds)
    BY <1>5, <1>9 DEF DetailsFit
  <2>2. ShowsOwn(tableData')
    BY <1>1, <1>5, <1>9 DEF ShowsOwn
  <2>3. CountsFit(tableData')
    BY <1>1, <1>5, <1>9, BelowStays
  <2>4. QED
    BY <2>1, <2>2, <2>3
<1>10. QED
  BY <1>1, <1>6, <1>7, <1>8, <1>9 DEF TasksInv

LEMMA ReadSparkLogKeeps ==
  ASSUME TasksInv, NEW i \in DOMAIN tableData, ReadSparkLog(i) PROVE TasksInv'
<1> DEFINE t == tableData[i].id
           d == [kind |-> "logs", of |-> t, row |-> i]
<1>1. /\ TasksTypeOK /\ tableData \in Seq(TaskRow) /\ Tasks \in Nat /\ details \subseteq Detail
      /\ Len(tableData) <= started /\ started \in 0..Tasks
  BY TasksParts DEF TasksInv
<1>2. Len(tableData) \in Nat /\ i \in 1..Len(tableData) /\ t \in 1..Tasks /\ t \in 0..Tasks /\ t \in Spark
  BY <1>1, TaskRowsTyped DEF ReadSparkLog
<1>3. i \in 1..Tasks
  BY <1>1, <1>2
<1>4. d \in Detail
  BY <1>2, <1>3 DEF Detail
<1>5. ~overtaken => DetailsFit(tableData, details \cup {d})
  BY DEF TasksInv, DetailsFit
<1>6. /\ tableData' = [tableData EXCEPT ![i].logs = t] /\ details' = details \cup {d}
      /\ UNCHANGED <<started, loads, overtaken>>
  BY DEF ReadSparkLog
<1> HIDE DEF d
<1>7. details \cup {d} \subseteq Detail
  BY <1>1, <1>4
<1>8. QED
  BY <1>2, <1>5, <1>6, <1>7, LogsShown

LEMMA LogsReadKeeps == ASSUME TasksInv, NEW d \in details, LogsRead(d) PROVE TasksInv'
<1> DEFINE ds == details \ {d}
<1>1. /\ TasksTypeOK /\ tableData \in Seq(TaskRow) /\ details \subseteq Detail
      /\ d.of \in Spark /\ Spark \subseteq 1..Tasks
  BY TasksParts DEF TasksInv
<1>2. ~overtaken => /\ DetailsFit(tableData, ds)
                    /\ d.row \in DOMAIN tableData /\ d.of = tableData[d.row].id
  BY DEF TasksInv, DetailsFit
<1>3. details' = ds /\ ds \subseteq Detail /\ UNCHANGED <<started, loads, overtaken>>
  BY <1>1 DEF LogsRead
<1>4. CASE d.row \in DOMAIN tableData
  <2>1. tableData' = [tableData EXCEPT ![d.row].logs = d.of] /\ d.of \in 0..Tasks
    BY <1>1, <1>4 DEF LogsRead
  <2> HIDE DEF ds
  <2>2. QED
    BY <1>2, <1>3, <1>4, <2>1, LogsShown
<1>5. CASE d.row \notin DOMAIN tableData
  <2>1. tableData' = tableData
    BY <1>5 DEF LogsRead
  <2>2. overtaken
    BY <1>2, <1>5
  <2>3. TasksTypeOK'
    BY <1>1, <1>3, <2>1 DEF TasksTypeOK
  <2>4. QED
    BY <1>3, <2>1, <2>2, <2>3 DEF TasksInv
<1>6. QED
  BY <1>4, <1>5

LEMMA TaskRequestFailsKeeps == ASSUME TasksInv, TaskRequestFails PROVE TasksInv'
<1>1. TasksTypeOK /\ UNCHANGED <<started, tableData, overtaken>>
  BY DEF TasksInv, TaskRequestFails
<1>2. CASE \E l \in loads : loads' = loads \ {l} /\ UNCHANGED details
  <2>1. PICK l \in loads : loads' = loads \ {l} /\ UNCHANGED details
    BY <1>2
  <2>2. Cardinality(loads \ {l}) <= MaxLoads
    BY <1>1, OneLoadLess
  <2>3. TasksTypeOK'
    BY <1>1, <2>1, <2>2 DEF TasksTypeOK
  <2>4. QED
    BY <1>1, <2>1, <2>3 DEF TasksInv
<1>3. CASE \E d \in details : details' = details \ {d} /\ UNCHANGED loads
  <2>1. TasksTypeOK'
    BY <1>1, <1>3 DEF TasksTypeOK
  <2>2. details' \subseteq details
    BY <1>3
  <2>3. QED
    BY <1>1, <2>1, <2>2 DEF TasksInv, DetailsFit
<1>4. QED
  BY <1>2, <1>3 DEF TaskRequestFails

(* The row of a task shows its rejected records. *)
LEMMA RejectsShown ==
  ASSUME NEW line \in TaskRow, NEW o \in 0..Tasks
  PROVE  /\ [line EXCEPT !.rejects = o] \in TaskRow
         /\ [line EXCEPT !.rejects = o].id = line.id /\ [line EXCEPT !.rejects = o].logs = line.logs
         /\ [line EXCEPT !.rejects = o].rejects = o /\ [line EXCEPT !.rejects = o].num = line.num
BY DEF TaskRow

(* The line and what it is part of count the records that were read.        *)
LEMMA RecordsRead ==
  ASSUME TasksInv, NEW d \in details, d.kind = "rejects", d.row \in DOMAIN tableData,
         NEW n \in Nat, n > 0, Rejected[d.of] = n,
         tableData' = [IncrementParentRejected(tableData, d.of, n) EXCEPT ![d.row].num = n, ![d.row].rejects = d.of],
         details' = details \ {d}, UNCHANGED <<started, loads, overtaken>>
  PROVE  TasksInv'
<1> DEFINE t == d.of
           r == d.row
           above == Ancestors(tableData, t)
           num(i) == IF i = r THEN n
                     ELSE IF tableData[i].id \in above THEN tableData[i].num + n ELSE tableData[i].num
<1>1. /\ TasksTypeOK /\ tableData \in Seq(TaskRow) /\ details \subseteq Detail
      /\ Numbered(tableData) /\ Len(tableData) <= started
      /\ t \in Spark /\ Spark \subseteq 1..Tasks
      /\ ~overtaken => DetailsFit(tableData, details) /\ ShowsOwn(tableData) /\ CountsFit(tableData)
  BY TasksParts DEF TasksInv
<1>2. /\ Len(tableData) \in Nat /\ DOMAIN tableData = 1..Len(tableData)
      /\ \A i \in DOMAIN tableData : tableData[i] \in TaskRow /\ tableData[i].id \in 1..Tasks
                                     /\ tableData[i].num \in Nat
      /\ IdsOf(tableData) \subseteq 1..Tasks
  BY <1>1, TaskRowsTyped
<1>3. \A i \in DOMAIN tableData : num(i) \in Nat
  BY <1>2
<1>4. \A line \in TaskRow : \A m \in Nat : \A o \in 0..Tasks :
        /\ [line EXCEPT !.num = m] \in TaskRow
        /\ [line EXCEPT !.num = m].id = line.id /\ [line EXCEPT !.num = m].logs = line.logs
        /\ [line EXCEPT !.num = m].rejects = line.rejects /\ [line EXCEPT !.num = m].num = m
        /\ [line EXCEPT !.rejects = o] \in TaskRow
        /\ [line EXCEPT !.rejects = o].id = line.id /\ [line EXCEPT !.rejects = o].logs = line.logs
        /\ [line EXCEPT !.rejects = o].rejects = o /\ [line EXCEPT !.rejects = o].num = line.num
  BY DEF TaskRow
<1> DEFINE up == IncrementParentRejected(tableData, t, n)
<1>5. up = [i \in DOMAIN tableData |-> IF tableData[i].id \in above
                                       THEN [tableData[i] EXCEPT !.num = tableData[i].num + n] ELSE tableData[i]]
  BY DEF IncrementParentRejected
<1> HIDE DEF above
<1>6. /\ DOMAIN up = DOMAIN tableData
      /\ \A i \in DOMAIN tableData :
           /\ up[i] \in TaskRow /\ up[i].id = tableData[i].id /\ up[i].logs = tableData[i].logs
           /\ up[i].rejects = tableData[i].rejects
           /\ up[i].num = IF tableData[i].id \in above THEN tableData[i].num + n ELSE tableData[i].num
  <2> SUFFICES ASSUME NEW i \in DOMAIN tableData
               PROVE  /\ up[i] \in TaskRow /\ up[i].id = tableData[i].id /\ up[i].logs = tableData[i].logs
                      /\ up[i].rejects = tableData[i].rejects
                      /\ up[i].num = IF tableData[i].id \in above THEN tableData[i].num + n ELSE tableData[i].num
    BY <1>5
  <2> DEFINE line == tableData[i]
             m == tableData[i].num + n
  <2>1. line \in TaskRow /\ m \in Nat
    BY <1>2
  <2>2. CASE tableData[i].id \in above
    <3>1. up[i] = [line EXCEPT !.num = m]
      BY <1>5, <2>2
    <3>2. 0 \in 0..Tasks
      BY <1>1, TasksParts
    <3> HIDE DEF line, m, up
    <3>3. /\ up[i] \in TaskRow /\ up[i].id = line.id /\ up[i].logs = line.logs
          /\ up[i].rejects = line.rejects /\ up[i].num = m
      <4>1. /\ [line EXCEPT !.num = m] \in TaskRow
            /\ [line EXCEPT !.num = m].id = line.id /\ [line EXCEPT !.num = m].logs = line.logs
            /\ [line EXCEPT !.num = m].rejects = line.rejects /\ [line EXCEPT !.num = m].num = m
        BY ONLY <1>4, <2>1, <3>2
      <4>2. QED
        BY ONLY <3>1, <4>1
    <3>4. QED
      BY <2>2, <3>3 DEF line, m
  <2>3. CASE tableData[i].id \notin above
    BY <1>5, <2>1, <2>3
  <2>4. QED
    BY <2>2, <2>3
<1> DEFINE mine == [[up[r] EXCEPT !.num = n] EXCEPT !.rejects = t]
<1>7. /\ mine \in TaskRow /\ mine.id = tableData[r].id /\ mine.logs = tableData[r].logs
      /\ mine.rejects = t /\ mine.num = n
  <2>1. t \in 0..Tasks
    BY <1>1
  <2>2. up[r] \in TaskRow /\ [up[r] EXCEPT !.num = n] \in TaskRow
    BY <1>4, <1>6, <2>1
  <2>3. /\ [up[r] EXCEPT !.num = n].id = tableData[r].id /\ [up[r] EXCEPT !.num = n].logs = tableData[r].logs
        /\ [up[r] EXCEPT !.num = n].num = n
    BY <1>4, <1>6, <2>1, <2>2
  <2> DEFINE counted == [up[r] EXCEPT !.num = n]
  <2>4. counted \in TaskRow /\ counted.id = tableData[r].id /\ counted.logs = tableData[r].logs
        /\ counted.num = n /\ mine = [counted EXCEPT !.rejects = t]
    BY <2>2, <2>3
  <2> HIDE DEF counted, mine
  <2>5. /\ [counted EXCEPT !.rejects = t] \in TaskRow
        /\ [counted EXCEPT !.rejects = t].id = counted.id /\ [counted EXCEPT !.rejects = t].logs = counted.logs
        /\ [counted EXCEPT !.rejects = t].rejects = t /\ [counted EXCEPT !.rejects = t].num = counted.num
    BY ONLY <2>1, <2>4, RejectsShown
  <2>6. QED
    BY ONLY <2>4, <2>5
<1>8. tableData' = [i \in DOMAIN tableData |-> IF i = r THEN mine ELSE up[i]]
  BY <1>6
<1> HIDE DEF up, mine
<1>9. /\ DOMAIN tableData' = DOMAIN tableData
      /\ \A i \in DOMAIN tableData :
           /\ tableData'[i] \in TaskRow /\ tableData'[i].id = tableData[i].id
           /\ tableData'[i].logs = tableData[i].logs
           /\ tableData'[i].rejects = IF i = r THEN t ELSE tableData[i].rejects
           /\ tableData'[i].num = num(i)
  <2>1. DOMAIN tableData' = DOMAIN tableData
    BY <1>8
  <2> SUFFICES ASSUME NEW i \in DOMAIN tableData
               PROVE  /\ tableData'[i] \in TaskRow /\ tableData'[i].id = tableData[i].id
                      /\ tableData'[i].logs = tableData[i].logs
                      /\ tableData'[i].rejects = IF i = r THEN t ELSE tableData[i].rejects
                      /\ tableData'[i].num = num(i)
    BY <2>1
  <2>2. CASE i = r
    <3>1. tableData'[i] = mine
      BY <1>8, <2>2
    <3>2. QED
      BY <1>7, <2>2, <3>1
  <2>3. CASE i # r
    <3>1. tableData'[i] = up[i]
      BY <1>8, <2>3
    <3>2. QED
      BY <1>6, <2>3, <3>1
  <2>4. QED
    BY <2>2, <2>3
<1> HIDE DEF num
<1>10. tableData' \in Seq(TaskRow) /\ Len(tableData') = Len(tableData)
  <2>1. tableData' \in [1..Len(tableData) -> TaskRow]
    BY <1>2, <1>8, <1>9
  <2>2. Len(tableData) \in Nat
    BY <1>2
  <2>3. QED
    BY ONLY <2>1, <2>2
<1>11. TasksTypeOK'
  BY <1>1, <1>10 DEF TasksTypeOK
<1>12. Numbered(tableData')
  <2>1. \A i \in DOMAIN tableData : tableData[i].id = Len(tableData) + 1 - i
    BY <1>1 DEF Numbered
  <2>2. \A i \in DOMAIN tableData : tableData'[i].id = Len(tableData') + 1 - i
    BY <1>9, <1>10, <2>1
  <2>3. QED
    BY <1>9, <2>2 DEF Numbered
<1>13. IdsOf(tableData') = IdsOf(tableData)
  BY <1>9 DEF IdsOf
<1>14. \A u : Ancestors(tableData', u) = Ancestors(tableData, u)
  BY <1>13, AncestorsAreAbove
<1>15. above \cap Spark = {}
  BY <1>1, <1>2, AncestorsAreAbove, NoSparkAbove DEF above
<1>16. ASSUME ~overtaken
       PROVE  DetailsFit(tableData', details') /\ ShowsOwn(tableData') /\ CountsFit(tableData')
  <2>1. DetailsFit(tableData, details) /\ ShowsOwn(tableData) /\ CountsFit(tableData)
    BY <1>1, <1>16
  <2>2. tableData[r].id = t /\ tableData[r].num = 0
    BY <2>1 DEF DetailsFit
  <2>3. \A i \in DOMAIN tableData : i # r /\ tableData[i].id \in Spark => num(i) = tableData[i].num
    BY <1>15 DEF num
  <2>4. DetailsFit(tableData', details')
    <3> SUFFICES ASSUME NEW e \in details, e # d
                 PROVE  /\ e.row \in DOMAIN tableData' /\ tableData'[e.row].id = e.of
                        /\ e.kind = "rejects" => tableData'[e.row].num = 0
      BY DEF DetailsFit
    <3>1. /\ e.row \in DOMAIN tableData /\ tableData[e.row].id = e.of /\ e.of \in Spark
          /\ e.kind = "rejects" => tableData[e.row].num = 0
      BY <1>1, <2>1, TasksParts DEF DetailsFit
    <3>2. e.kind = "rejects" => e.row # r
      <4>1. \A x, y \in Detail : x.kind = y.kind /\ x.of = y.of /\ x.row = y.row => x = y
        BY DEF Detail
      <4>2. QED
        BY <1>1, <2>2, <3>1, <4>1
    <3>3. QED
      BY <1>9, <2>3, <3>1, <3>2
  <2>5. ShowsOwn(tableData')
    BY <1>9, <2>1, <2>2 DEF ShowsOwn
  <2>6. CountsFit(tableData')
    <3> SUFFICES ASSUME NEW i \in DOMAIN tableData, tableData[i].id \notin Spark
                 PROVE  num(i) = Cardinality(RecordsIn(NumsOf(tableData'), CountedBelow(tableData', i)))
      BY <1>9 DEF CountsFit
    <3> DEFINE S == CountedBelow(tableData, i)
    <3>1. i # r
      BY <1>1, <2>2
    <3>2. /\ tableData[i].num = Cardinality(RecordsIn(NumsOf(tableData), S))
          /\ S \subseteq DOMAIN tableData /\ r \notin S
          /\ \A j \in S : tableData[j].id \in Spark /\ NumsOf(tableData)[j] \in Nat
      <4>1. tableData[i].num = Cardinality(RecordsIn(NumsOf(tableData), S))
        BY <2>1 DEF CountsFit
      <4>2. S \subseteq DOMAIN tableData /\ \A j \in S : tableData[j].id \in Spark /\ tableData[j].num > 0
        BY DEF CountedBelow
      <4> HIDE DEF S
      <4>3. r \notin S
        BY <2>2, <4>2
      <4>4. \A j \in S : NumsOf(tableData)[j] \in Nat
        BY <1>2, <4>2 DEF NumsOf
      <4>5. QED
        BY <4>1, <4>2, <4>3, <4>4
    <3>3. ASSUME NEW j \in S PROVE NumsOf(tableData')[j] = NumsOf(tableData)[j]
      <4>1. j \in DOMAIN tableData /\ j # r /\ tableData[j].id \in Spark
        BY <3>2
      <4> HIDE DEF S
      <4>2. j \in DOMAIN tableData' /\ tableData'[j].num = num(j)
        BY <1>9, <4>1
      <4>3. num(j) = tableData[j].num
        BY <2>3, <4>1
      <4>4. NumsOf(tableData')[j] = tableData'[j].num /\ NumsOf(tableData)[j] = tableData[j].num
        BY <4>1, <4>2 DEF NumsOf
      <4>5. QED
        BY <4>2, <4>3, <4>4
    <3>4. NumsOf(tableData')[r] = n
      BY <1>9 DEF NumsOf, num
    <3>5. IsFiniteSet(S)
      <4>0. Len(tableData) \in Nat
        BY <1>2
      <4>1. IsFiniteSet(1..Len(tableData))
        BY ONLY <4>0, NumbersCounted
      <4>2. S \in SUBSET (1..Len(tableData))
        BY <1>2, <3>2
      <4> HIDE DEF S
      <4>3. QED
        BY <4>1, <4>2, FS_Subset
    <3>6. \A j \in DOMAIN tableData : j # r =>
            (j \in CountedBelow(tableData', i) <=> j \in S)
      <4>1. ASSUME NEW j \in DOMAIN tableData, j # r
            PROVE  j \in CountedBelow(tableData', i) <=> j \in S
        <5>1. /\ j \in DOMAIN tableData' /\ tableData'[j].id = tableData[j].id
              /\ tableData'[i].id = tableData[i].id
          BY <1>9
        <5>2. tableData[j].id \in Spark => tableData'[j].num = tableData[j].num
          BY <1>9, <2>3, <4>1
        <5>3. Ancestors(tableData', tableData[j].id) = Ancestors(tableData, tableData[j].id)
          BY <1>14
        <5>4. QED
          BY ONLY <4>1, <5>1, <5>2, <5>3 DEF CountedBelow, S
      <4>2. QED
        BY <4>1
    <3>7. r \in CountedBelow(tableData', i) <=> tableData[i].id \in above
      <4>1. /\ r \in DOMAIN tableData' /\ tableData'[r].id = t /\ tableData'[r].num = n
            /\ tableData'[i].id = tableData[i].id /\ t \in Spark
        BY <1>1, <1>9, <2>2 DEF num
      <4>2. Ancestors(tableData', t) = above
        BY <1>14 DEF above
      <4>3. QED
        BY <4>1, <4>2 DEF CountedBelow
    <3>8. CountedBelow(tableData', i) \subseteq DOMAIN tableData
      BY <1>9 DEF CountedBelow
    <3> HIDE DEF S
    <3>9. CASE tableData[i].id \in above
      <4>1. CountedBelow(tableData', i) = S \cup {r}
        BY <3>2, <3>6, <3>7, <3>8, <3>9
      <4>2. num(i) = tableData[i].num + n
        BY <3>1, <3>9 DEF num
      <4>3. NumsOf(tableData')[r] \in Nat
        BY <3>4
      <4>4. Cardinality(RecordsIn(NumsOf(tableData'), S \cup {r})) =
              Cardinality(RecordsIn(NumsOf(tableData), S)) + NumsOf(tableData')[r]
        <5>1. PICK before, after, at :
                before = NumsOf(tableData) /\ after = NumsOf(tableData') /\ at = r
          OBVIOUS
        <5>2. /\ IsFiniteSet(S) /\ \A j \in S : before[j] \in Nat
              /\ at \notin S /\ after[at] \in Nat /\ \A j \in S : after[j] = before[j]
          BY <3>2, <3>3, <3>5, <4>3, <5>1
        <5>3. PICK all : all = S \cup {at}
          OBVIOUS
        <5>4. Cardinality(RecordsIn(after, all)) = Cardinality(RecordsIn(before, S)) + after[at]
          BY ONLY <5>2, <5>3, OneMoreCounted
        <5>5. QED
          BY <5>1, <5>3, <5>4
      <4>5. QED
        BY <3>2, <3>4, <4>1, <4>2, <4>4
    <3>10. CASE tableData[i].id \notin above
      <4>1. CountedBelow(tableData', i) = S
        BY <3>2, <3>6, <3>7, <3>8, <3>10
      <4>2. num(i) = tableData[i].num
        BY <3>1, <3>10 DEF num
      <4>3. RecordsIn(NumsOf(tableData'), S) = RecordsIn(NumsOf(tableData), S)
        BY <3>3 DEF RecordsIn
      <4>4. QED
        BY <3>2, <4>1, <4>2, <4>3
    <3>11. QED
      BY <3>9, <3>10
  <2>7. QED
    BY <2>4, <2>5, <2>6
<1>17. QED
  BY <1>1, <1>10, <1>11, <1>12, <1>16 DEF TasksInv

LEMMA RejectsReadKeeps == ASSUME TasksInv, NEW d \in details, RejectsRead(d) PROVE TasksInv'
<1> DEFINE n == Rejected[d.of]
<1>1. /\ n \in Nat /\ d.kind = "rejects" /\ details' = details \ {d}
      /\ UNCHANGED <<started, loads, overtaken>> /\ TasksTypeOK
  BY TasksParts DEF TasksInv, RejectsRead
<1>2. DOMAIN IncrementParentRejected(tableData, d.of, n) = DOMAIN tableData
  BY DEF IncrementParentRejected
<1>3. CASE n > 0 /\ d.row \in DOMAIN tableData
  <2>1. tableData' = [IncrementParentRejected(tableData, d.of, n)
                        EXCEPT ![d.row].num = n, ![d.row].rejects = d.of]
    BY <1>2, <1>3 DEF RejectsRead
  <2> HIDE DEF n
  <2>2. Rejected[d.of] = n
    BY DEF n
  <2>3. QED
    BY <1>1, <1>3, <2>1, <2>2, RecordsRead
<1>4. CASE ~(n > 0 /\ d.row \in DOMAIN tableData)
  <2>1. tableData' = tableData
    BY <1>2, <1>4 DEF RejectsRead
  <2>2. TasksTypeOK'
    BY <1>1, <2>1 DEF TasksTypeOK
  <2>3. QED
    BY <1>1, <2>1, <2>2 DEF TasksInv, DetailsFit
<1>5. QED
  BY <1>3, <1>4

LEMMA TasksInvNext == TasksInv /\ [TasksNext]_tasksVars => TasksInv'
<1> SUFFICES ASSUME TasksInv, [TasksNext]_tasksVars PROVE TasksInv'
  OBVIOUS
<1>1. CASE UNCHANGED tasksVars
  BY <1>1 DEF TasksInv, tasksVars, TasksTypeOK
<1>2. CASE TasksNext
  BY <1>2, StartKeeps, LoadTasksKeeps, TasksLoadedKeeps, ReadSparkLogKeeps, RejectsReadKeeps,
     LogsReadKeeps, TaskRequestFailsKeeps DEF TasksNext
<1>3. QED
  BY <1>1, <1>2

THEOREM TasksInvariant == TasksSpec => []TasksInv
  BY TasksInvInit, TasksInvNext, PTL DEF TasksSpec

(* The rows, the lists and the details of the page keep their types.       *)
THEOREM TasksTypeCorrect == TasksSpec => []TasksTypeOK
<1>1. TasksInv => TasksTypeOK
  BY DEF TasksInv
<1>2. QED
  BY <1>1, TasksInvariant, PTL

(* While no list overtakes details, rows show what belongs to their tasks  *)
(* and each task counts the rejected records of the Spark tasks below it,  *)
(* in whatever order the answers come.                                     *)
THEOREM RejectsAddUpCorrect == TasksSpec => []RejectsAddUp
<1>1. TasksInv => RejectsAddUp
  <2> SUFFICES ASSUME TasksInv, ~overtaken, NEW i \in DOMAIN tableData
               PROVE  /\ {tableData[i].rejects, tableData[i].logs} \subseteq {0, tableData[i].id}
                      /\ tableData[i].id \notin Spark =>
                           tableData[i].num = Cardinality(UNION {{j} \X (1..tableData[j].num) :
                                                                 j \in CountedBelow(tableData, i)})
    BY DEF RejectsAddUp, CountedBelow
  <2>1. RecordsIn(NumsOf(tableData), CountedBelow(tableData, i)) =
          UNION {{j} \X (1..tableData[j].num) : j \in CountedBelow(tableData, i)}
    BY DEF RecordsIn, NumsOf, CountedBelow
  <2>2. QED
    BY <2>1 DEF TasksInv, ShowsOwn, CountsFit
<1>2. QED
  BY <1>1, TasksInvariant, PTL
-----------------------------------------------------------------------------
(* What these pages show of the server's answers, they show of what was    *)
(* asked for: AnswersAreShownWhereAsked joins the pages of the runtime     *)
(* servers and the editors of a projection and of an aggregation.          *)
THEOREM AnswersCorrect ==
  TasksSpec /\ LivySpec /\ ProjectionSpec /\ AggregationSpec => []AnswersAreShownWhereAsked
<1>1. RejectsAddUp /\ JobsAreTheirOwn /\ VerdictIsOfTheSelected /\ CoffeeIsForATest
        => AnswersAreShownWhereAsked
  BY DEF AnswersAreShownWhereAsked
<1>2. QED
  BY <1>1, RejectsAddUpCorrect, JobsOwnCorrect, VerdictCorrect, CoffeeCorrect, PTL

-----------------------------------------------------------------------------
(***************************************************************************)
(* The ports of a transformation (UiPorts).                                *)
(***************************************************************************)

(* The ports keep their types.                                             *)
PortField == Name \cup {Number}

LEMMA DeterminedTyped ==
  ASSUME NEW n \in Node, NodeKind[n] \in {"copy", "sequence", "target"}, NEW new \in Seq(InField)
  PROVE  Determined(n, new) \in Seq(OutField)
<1>1. FieldNames(new) \in Seq(PortField)
  <2>1. \A i \in DOMAIN new : new[i] \in InField
    BY SeqFacts
  <2>2. \A i \in DOMAIN new : new[i].name \in PortField
    BY <2>1 DEF InField, PortField
  <2>3. \A i \in DOMAIN new : FieldNames(new)[i] \in PortField
    BY <2>2 DEF FieldNames
  <2>4. Len(new) \in Nat /\ DOMAIN new = 1..Len(new)
    BY SeqFacts
  <2>5. FieldNames(new) \in [1..Len(new) -> PortField]
    BY <2>3, <2>4 DEF FieldNames
  <2>6. QED
    BY <2>4, <2>5, SequenceFrom
<1>2. ASSUME NEW names \in Seq(PortField) PROVE Plain(names) \in Seq(OutField)
  <2>1. \A i \in DOMAIN names : names[i] \in PortField
    BY SeqFacts
  <2>2. \A i \in DOMAIN names : Plain(names)[i] \in OutField
    BY <2>1 DEF Plain, OutField, PortField
  <2>3. Len(names) \in Nat /\ DOMAIN names = 1..Len(names)
    BY SeqFacts
  <2>4. Plain(names) \in [1..Len(names) -> OutField]
    BY <2>2, <2>3 DEF Plain
  <2>5. QED
    BY <2>3, <2>4, SequenceFrom
<1>3. Append(FieldNames(new), Number) \in Seq(PortField)
  BY <1>1 DEF PortField
<1>4. QED
  BY <1>1, <1>2, <1>3 DEF Determined

LEMMA FilledTyped ==
  ASSUME NEW fields \in Seq(OutField), NEW name \in PortField, NEW at \in PortField, NEW names
  PROVE  /\ Filled(fields, name) \in Seq(OutField)
         /\ Refer(fields, at, name) \in Seq(OutField)
         /\ Forget(fields, names) \in Seq(OutField)
         /\ Detached(fields, names) \in Seq(OutField)
<1>1. \A i \in DOMAIN fields : fields[i] \in OutField /\ fields[i].from \subseteq Ref
  <2>1. \A i \in DOMAIN fields : fields[i] \in OutField
    BY SeqFacts
  <2>2. \A f \in OutField : f.from \subseteq Ref
    BY DEF OutField
  <2>3. QED
    BY <2>1, <2>2
<1>2. [name |-> name, live |-> TRUE] \in Ref
  BY DEF Ref, PortField
<1>3. ASSUME NEW f \in OutField, NEW from \in SUBSET Ref PROVE [f EXCEPT !.from = from] \in OutField
  BY DEF OutField
<1>4. ASSUME NEW x \in PortField PROVE Refer(fields, x, name) \in Seq(OutField)
  <2>1. \A i \in DOMAIN fields : Refer(fields, x, name)[i] \in OutField
    BY <1>1, <1>2, <1>3 DEF Refer
  <2>2. Len(fields) \in Nat /\ DOMAIN fields = 1..Len(fields)
    BY SeqFacts
  <2>3. Refer(fields, x, name) \in [1..Len(fields) -> OutField]
    BY <2>1, <2>2 DEF Refer
  <2>4. QED
    BY <2>2, <2>3, SequenceFrom
<1>5. Forget(fields, names) \in Seq(OutField)
  <2>1. \A i \in DOMAIN fields : Forget(fields, names)[i] \in OutField
    BY <1>1, <1>3 DEF Forget
  <2>2. Len(fields) \in Nat /\ DOMAIN fields = 1..Len(fields)
    BY SeqFacts
  <2>3. Forget(fields, names) \in [1..Len(fields) -> OutField]
    BY <2>1, <2>2 DEF Forget
  <2>4. QED
    BY <2>2, <2>3, SequenceFrom
<1>6. Detached(fields, names) \in Seq(OutField)
  <2>1. ASSUME NEW r \in Ref PROVE [r EXCEPT !.live = r.live /\ r.name \in names] \in Ref
    BY DEF Ref
  <2>2. ASSUME NEW i \in DOMAIN fields
        PROVE  {[r EXCEPT !.live = @ /\ r.name \in names] : r \in fields[i].from} \subseteq Ref
    BY <1>1, <2>1
  <2>3. \A i \in DOMAIN fields : Detached(fields, names)[i] \in OutField
    BY <1>1, <1>3, <2>2 DEF Detached
  <2>4. Len(fields) \in Nat /\ DOMAIN fields = 1..Len(fields)
    BY SeqFacts
  <2>5. Detached(fields, names) \in [1..Len(fields) -> OutField]
    BY <2>3, <2>4 DEF Detached
  <2>6. QED
    BY <2>4, <2>5, SequenceFrom
<1>7. [name |-> name, from |-> {[name |-> name, live |-> TRUE]}] \in OutField
  BY <1>2 DEF OutField, PortField
<1>8. QED
  BY <1>4, <1>5, <1>6, <1>7 DEF Filled

LEMMA ProjectedTyped ==
  ASSUME NEW fields \in Seq(OutField), NEW new \in Seq(InField), NEW old \in Seq(InField)
  PROVE  Projected(fields, new, old) \in Seq(OutField)
<1> DEFINE plus == Added(new, old)
           minus == Gone(new, old)
           staying == {old[i].name : i \in {j \in DOMAIN old \cap DOMAIN new : old[j] = new[j]}}
           base == Detached(Forget(fields, {g.name : g \in ToSet(minus)}), staying)
           m == Len(plus)
           step == [k \in 1..m |-> [fs \in Seq(OutField) |-> Filled(fs, plus[k].name)]]
           Fills(f) == f = [k \in 0..m |-> IF k = 0 THEN base ELSE Filled(f[k - 1], plus[k].name)]
           filled == CHOOSE f : Fills(f)
           changed == IF Len(plus) = 1 /\ Len(minus) = 1
                      THEN Refer(base, minus[1].name, plus[1].name) ELSE filled[m]
<1>1. plus \in Seq(InField) /\ minus \in Seq(InField)
  BY KeptTyped DEF Added, Gone
<1>2. /\ m \in Nat /\ \A k \in 1..m : plus[k].name \in PortField
      /\ \A k \in DOMAIN minus : minus[k].name \in PortField
  <2>1. m \in Nat /\ DOMAIN plus = 1..m
    BY <1>1, SeqFacts
  <2>2. \A k \in DOMAIN plus : plus[k] \in InField
    BY <1>1, SeqFacts
  <2>3. \A k \in DOMAIN minus : minus[k] \in InField
    BY <1>1, SeqFacts
  <2>4. \A f \in InField : f.name \in PortField
    BY DEF InField, PortField
  <2>5. QED
    BY <2>1, <2>2, <2>3, <2>4
<1>3. base \in Seq(OutField)
  <2>1. Number \in PortField
    BY DEF PortField
  <2>2. Forget(fields, {g.name : g \in ToSet(minus)}) \in Seq(OutField)
    BY <2>1, FilledTyped
  <2>3. QED
    BY <2>1, <2>2, FilledTyped
<1> HIDE DEF plus, minus, staying, base, m
<1>4. \A k \in 1..m : \A fs \in Seq(OutField) : Filled(fs, plus[k].name) \in Seq(OutField)
  BY <1>2, FilledTyped
<1>5. step \in [1..m -> [Seq(OutField) -> Seq(OutField)]]
  BY <1>4
<1>6. Fills(filled)
  <2> DEFINE S == Seq(OutField)
  <2>0. m \in Nat /\ base \in S /\ step \in [1..m -> [S -> S]]
    BY <1>2, <1>3, <1>5
  <2> HIDE DEF step, S
  <2>9. \E f \in [0..m -> S] : StepsFrom(f, base, step, m)
    BY ONLY <2>0, StepByStep
  <2> USE DEF S
  <2>1. PICK f \in [0..m -> Seq(OutField)] :
           f[0] = base /\ \A k \in 1..m : f[k] = step[k][f[k - 1]]
    BY <2>9 DEF StepsFrom
  <2> USE DEF step
  <2>2. ASSUME NEW k \in 0..m
        PROVE  f[k] = IF k = 0 THEN base ELSE Filled(f[k - 1], plus[k].name)
    <3>1. CASE k = 0
      BY <2>1, <3>1
    <3>2. CASE k # 0
      <4>1. k \in 1..m /\ k - 1 \in 0..m
        BY <1>2, <3>2
      <4>2. f[k] = step[k][f[k - 1]] /\ f[k - 1] \in Seq(OutField)
        BY <2>1, <4>1
      <4> DEFINE once == [fs \in Seq(OutField) |-> Filled(fs, plus[k].name)]
      <4>3. step[k] = once /\ \A fs \in Seq(OutField) : once[fs] = Filled(fs, plus[k].name)
        BY <4>1
      <4> HIDE DEF once
      <4> HIDE DEF step
      <4>4. QED
        BY <3>2, <4>2, <4>3
    <3>3. QED
      BY <3>1, <3>2
  <2>3. f = [k \in 0..m |-> f[k]]
    OBVIOUS
  <2>4. Fills(f)
    BY <2>2, <2>3
  <2>5. QED
    BY <2>4
<1> HIDE DEF filled
<1>7. filled[m] \in Seq(OutField)
  <2> DEFINE T == {k \in 0..m : filled[k] \in Seq(OutField)}
  <2>1. 0 \in T
    BY <1>2, <1>3, <1>6
  <2>2. ASSUME NEW k \in 1..m, k - 1 \in T PROVE k \in T
    <3>1. k \in 0..m /\ k # 0
      BY <1>2
    <3>2. filled[k] = IF k = 0 THEN base ELSE Filled(filled[k - 1], plus[k].name)
      BY <1>6, <3>1
    <3>3. filled[k] = Filled(filled[k - 1], plus[k].name)
      BY <3>1, <3>2
    <3>4. filled[k - 1] \in Seq(OutField)
      BY <2>2
    <3>5. filled[k] \in Seq(OutField)
      BY <1>4, <3>3, <3>4
    <3>6. QED
      BY <3>1, <3>5
  <2> HIDE DEF T
  <2>3. \A k \in 0..m : k \in T
    BY <1>2, <2>1, <2>2, UpToTheEnd
  <2>4. m \in 0..m
    BY <1>2
  <2>5. QED
    BY <2>3, <2>4 DEF T
<1>8. changed \in Seq(OutField)
  <2>1. CASE Len(plus) = 1 /\ Len(minus) = 1
    <3>1. minus[1].name \in PortField /\ plus[1].name \in PortField
      BY <1>1, <1>2, <2>1 DEF m
    <3>2. QED
      BY <1>3, <2>1, <3>1, FilledTyped
  <2>2. QED
    BY <1>7, <2>1
<1> HIDE DEF changed
<1>9. Kept(changed, {i \in DOMAIN changed : changed[i].from # {}}) \in Seq(OutField)
  BY <1>8, KeptTyped
<1>10. Projected(fields, new, old) = Kept(changed, {i \in DOMAIN changed : changed[i].from # {}})
  BY DEF Projected, changed, filled, Fills, base, staying, plus, minus, m
<1>11. QED
  BY <1>9, <1>10

LEMMA AdaptedIs ==
  ASSUME NEW p \in Ports, NEW n \in Node, NodeKind[n] # "source", NEW new \in Seq(InField)
  PROVE  /\ Adapted(p, n, new) \in Ports
         /\ Adapted(p, n, new).in[n] = new
         /\ \A x \in Node \ {n} : /\ Adapted(p, n, new).in[x] = p.in[x]
                                  /\ Adapted(p, n, new).out[x] = p.out[x]
<1> DEFINE out == IF NodeKind[n] = "projection" THEN Projected(p.out[n], new, p.in[n])
                  ELSE Determined(n, new)
<1>1. /\ p.in \in [Node -> Seq(InField)] /\ p.out \in [Node -> Seq(OutField)]
      /\ p.in[n] \in Seq(InField) /\ p.out[n] \in Seq(OutField)
  BY DEF Ports
<1>2. out \in Seq(OutField)
  <2>1. CASE NodeKind[n] = "projection"
    BY <1>1, <2>1, ProjectedTyped
  <2>2. CASE NodeKind[n] # "projection"
    <3>1. NodeKind[n] \in {"copy", "sequence", "target"}
      BY <2>2, PortsAssumption
    <3>2. QED
      BY <2>2, <3>1, DeterminedTyped
  <2>3. QED
    BY <2>1, <2>2
<1> HIDE DEF out
<1>3. Adapted(p, n, new) = [in |-> [p.in EXCEPT ![n] = new], out |-> [p.out EXCEPT ![n] = out]]
  BY DEF Adapted, out
<1>4. QED
  BY <1>1, <1>2, <1>3 DEF Ports

LEMMA CopiedIs ==
  ASSUME NEW p \in Ports, NEW w \in Wire
  PROVE  /\ Copied(p, w) \in Seq(InField)
         /\ FieldNames(Copied(p, w)) = FieldNames(p.out[w.start])
<1> DEFINE out == p.out[w.start]
           right == p.in[w.finish]
           new == Copied(p, w)
<1>1. out \in Seq(OutField) /\ right \in Seq(InField)
  BY DEF Ports, Wire
<1>2. DOMAIN new = DOMAIN out
  BY DEF Copied
<1>3. ASSUME NEW i \in DOMAIN out PROVE new[i] \in InField /\ new[i].name = out[i].name
  <2>1. out[i] \in OutField
    BY <1>1, SeqFacts
  <2>2. out[i].name \in Name \cup {Number}
    BY <2>1 DEF OutField
  <2>3. CASE i \in DOMAIN right /\ right[i].name = out[i].name
    <3>1. right[i] \in InField
      BY <1>1, <2>3, SeqFacts
    <3>2. QED
      BY <2>3, <3>1 DEF Copied
  <2>4. CASE ~(i \in DOMAIN right /\ right[i].name = out[i].name)
    <3>1. new[i] = [name |-> out[i].name, id |-> FALSE]
      BY <2>4 DEF Copied
    <3>2. QED
      BY <2>2, <3>1 DEF InField
  <2>5. QED
    BY <2>3, <2>4
<1>4. new \in Seq(InField)
  <2>1. Len(out) \in Nat /\ DOMAIN out = 1..Len(out)
    BY <1>1, SeqFacts
  <2>2. new \in [1..Len(out) -> InField]
    BY <1>2, <1>3, <2>1 DEF Copied
  <2> HIDE DEF new, out
  <2>3. QED
    BY <2>1, <2>2, SequenceFrom
<1>5. FieldNames(new) = FieldNames(out)
  <2> HIDE DEF new, out
  <2>1. QED
    BY <1>2, <1>3 DEF FieldNames
<1>6. QED
  BY <1>4, <1>5

LEMMA FirstFromIs ==
  ASSUME NEW ws \in Seq(Wire), NEW n
  PROVE  \/ FirstFrom(ws, n) = 0 /\ \A i \in DOMAIN ws : ws[i].start # n
         \/ FirstFrom(ws, n) \in DOMAIN ws /\ ws[FirstFrom(ws, n)].start = n
<1> DEFINE I == {i \in 1..Len(ws) : ws[i].start = n}
<1>1. FirstFrom(ws, n) = IF I # {} THEN Min(I) ELSE 0
  BY DEF FirstFrom, SelectInSeq
<1>2. Len(ws) \in Nat /\ DOMAIN ws = 1..Len(ws)
  BY SeqFacts
<1>3. CASE I = {}
  BY <1>1, <1>2, <1>3
<1>4. CASE I # {}
  <2>1. I \subseteq Nat
    BY <1>2
  <2> HIDE DEF I
  <2>2. \E m \in I : \A k \in I : m <= k
    BY <1>4, <2>1, LeastNumber
  <2>3. Min(I) \in I
    BY <2>2 DEF Min
  <2>4. FirstFrom(ws, n) \in I
    BY <1>1, <1>4, <2>3
  <2>5. QED
    BY <1>2, <2>4 DEF I
<1>5. QED
  BY <1>3, <1>4

-----------------------------------------------------------------------------
(* A change on its way.                                                    *)
NoSourceInput(p) == \A n \in Node : NodeKind[n] = "source" => p.in[n] = <<>>

\* Transitions of a list as there can be: into steps and targets, and without a cycle.
Drawn(ws) ==
    /\ ws \in Seq(Wire)
    /\ \A i \in DOMAIN ws : NodeKind[ws[i].finish] # "source"
Ranks(r, ws) == \A i \in DOMAIN ws : r[ws[i].start] < r[ws[i].finish]
Acyclic(ws) == \E r \in [Node -> Nat] : Ranks(r, ws)

Station == {s \in [ports : Ports, node : Node, fields : Seq(InField), more : BOOLEAN] :
               NodeKind[s.node] # "source" /\ NoSourceInput(s.ports)}

\* The nodes that the transitions lead to are entered and left by one transition each.
OneToOne(ws) ==
    \A i, j \in DOMAIN ws : i # j => ws[i].start # ws[j].start /\ ws[i].finish # ws[j].finish

\* These transitions have the same fields at both ends, or lead where the change is going;
\* and what it brings there are the fields that the transition into it begins with.
AllCarry(K, ws, p) == \A i \in K : Carries(p, ws[i])
CarryBehind(K, ws, s) ==
    /\ \A i \in K : Carries(s.ports, ws[i]) \/ (s.more /\ ws[i].finish = s.node)
    /\ s.more => \A i \in DOMAIN ws :
         ws[i].finish = s.node => FieldNames(s.fields) = FieldNames(s.ports.out[ws[i].start])

\* The change has come through this many nodes, all of them before the one where it is.
Behind(s, k, r) ==
    s.more => \E V \in SUBSET Node :
        IsFiniteSet(V) /\ Cardinality(V) = k /\ \A v \in V : r[v] < r[s.node]

LEMMA OnwardIs ==
  ASSUME NEW ws, Drawn(ws), NEW s \in Station
  PROVE  /\ Onward(ws, s) \in Station
         /\ ~s.more => Onward(ws, s) = s
         /\ s.more =>
              LET q == Adapted(s.ports, s.node, s.fields)
                  t == Onward(ws, s)
              IN  /\ t.ports = q
                  /\ ~t.more => \A i \in DOMAIN ws : ws[i].start = s.node =>
                                  \E j \in DOMAIN ws : ws[j].start = s.node /\ Carries(q, ws[j])
                  /\ t.more => \E j \in DOMAIN ws :
                                  /\ ws[j].start = s.node /\ t.node = ws[j].finish
                                  /\ FieldNames(t.fields) = FieldNames(q.out[ws[j].start])
<1> DEFINE q == Adapted(s.ports, s.node, s.fields)
           next == FirstFrom(ws, s.node)
           t == Onward(ws, s)
<1>1. /\ s.ports \in Ports /\ s.node \in Node /\ s.fields \in Seq(InField) /\ s.more \in BOOLEAN
      /\ NodeKind[s.node] # "source" /\ NoSourceInput(s.ports)
      /\ s = [ports |-> s.ports, node |-> s.node, fields |-> s.fields, more |-> s.more]
  BY DEF Station
<1>2. q \in Ports /\ NoSourceInput(q)
  <2>1. q \in Ports /\ \A x \in Node \ {s.node} : q.in[x] = s.ports.in[x]
    BY <1>1, AdaptedIs
  <2>2. QED
    BY <1>1, <2>1 DEF NoSourceInput
<1>3. ws \in Seq(Wire) /\ \A i \in DOMAIN ws : ws[i] \in Wire /\ NodeKind[ws[i].finish] # "source"
  <2>1. ws \in Seq(Wire)
    BY DEF Drawn
  <2>2. QED
    BY <2>1, SeqFacts DEF Drawn
<1>4. \/ next = 0 /\ \A i \in DOMAIN ws : ws[i].start # s.node
      \/ next \in DOMAIN ws /\ ws[next].start = s.node
  BY <1>3, FirstFromIs
<1>5. 0 \notin DOMAIN ws
  <2>1. Len(ws) \in Nat /\ DOMAIN ws = 1..Len(ws)
    BY <1>3, SeqFacts
  <2>2. QED
    BY <2>1
<1>6. t = IF ~s.more THEN s
          ELSE IF next = 0 \/ Carries(q, ws[next])
          THEN [ports |-> q, node |-> s.node, fields |-> s.fields, more |-> FALSE]
          ELSE [ports |-> q, node |-> ws[next].finish, fields |-> Copied(q, ws[next]), more |-> TRUE]
  BY DEF Onward
<1> HIDE DEF q, next, t
<1>7. CASE ~s.more
  BY <1>6, <1>7 DEF t
<1>8. CASE s.more /\ (next = 0 \/ (next \in DOMAIN ws /\ Carries(q, ws[next])))
  <2>1. t = [ports |-> q, node |-> s.node, fields |-> s.fields, more |-> FALSE]
    BY <1>5, <1>6, <1>8
  <2>2. t \in Station /\ t.ports = q /\ ~t.more
    BY <1>1, <1>2, <2>1 DEF Station
  <2>3. \A i \in DOMAIN ws : ws[i].start = s.node =>
           \E j \in DOMAIN ws : ws[j].start = s.node /\ Carries(q, ws[j])
    BY <1>4, <1>5, <1>8
  <2>4. QED
    BY <1>8, <2>2, <2>3 DEF t, q
<1>9. CASE s.more /\ next \in DOMAIN ws /\ ~Carries(q, ws[next])
  <2>1. t = [ports |-> q, node |-> ws[next].finish, fields |-> Copied(q, ws[next]), more |-> TRUE]
    BY <1>5, <1>6, <1>9
  <2>2. ws[next] \in Wire /\ ws[next].finish \in Node /\ NodeKind[ws[next].finish] # "source"
    BY <1>3, <1>9 DEF Wire
  <2>3. /\ Copied(q, ws[next]) \in Seq(InField)
        /\ FieldNames(Copied(q, ws[next])) = FieldNames(q.out[ws[next].start])
    BY <1>2, <2>2, CopiedIs
  <2>4. t \in Station /\ t.ports = q /\ t.more
    BY <1>2, <2>1, <2>2, <2>3 DEF Station
  <2>5. /\ ws[next].start = s.node /\ t.node = ws[next].finish
        /\ FieldNames(t.fields) = FieldNames(q.out[ws[next].start])
    BY <1>4, <1>5, <1>9, <2>1, <2>3
  <2>6. QED
    BY <1>9, <2>4, <2>5 DEF t, q
<1>10. QED
  BY <1>1, <1>4, <1>7, <1>8, <1>9

\* As long as the transitions are one to one, a step leaves no other transition behind.
LEMMA OnwardCarries ==
  ASSUME NEW ws, Drawn(ws), OneToOne(ws), NEW r \in [Node -> Nat], Ranks(r, ws),
         NEW s \in Station, NEW K, K \subseteq DOMAIN ws, CarryBehind(K, ws, s)
  PROVE  CarryBehind(K, ws, Onward(ws, s))
<1> DEFINE q == Adapted(s.ports, s.node, s.fields)
           t == Onward(ws, s)
<1>1. CASE ~s.more
  BY <1>1, OnwardIs
<1>2. CASE s.more
  <2>1. /\ s.ports \in Ports /\ s.node \in Node /\ s.fields \in Seq(InField)
        /\ NodeKind[s.node] # "source"
    BY DEF Station
  <2>2. /\ q.in[s.node] = s.fields
        /\ \A x \in Node \ {s.node} : q.in[x] = s.ports.in[x] /\ q.out[x] = s.ports.out[x]
    BY <2>1, AdaptedIs
  <2>3. \A i \in DOMAIN ws : ws[i].start \in Node /\ ws[i].finish \in Node /\ ws[i].start # ws[i].finish
    <3>1. ws \in Seq(Wire)
      BY DEF Drawn
    <3>2. ASSUME NEW i \in DOMAIN ws
          PROVE ws[i].start \in Node /\ ws[i].finish \in Node /\ ws[i].start # ws[i].finish
      <4>1. ws[i] \in Wire
        BY <3>1, SeqFacts
      <4>2. ws[i].start \in Node /\ ws[i].finish \in Node
        BY <4>1 DEF Wire
      <4>3. r[ws[i].start] \in Nat /\ r[ws[i].start] < r[ws[i].finish]
        BY <4>2 DEF Ranks
      <4>4. QED
        BY <4>2, <4>3
    <3>3. QED
      BY <3>2
  <2>4. /\ t.ports = q
        /\ ~t.more => \A i \in DOMAIN ws : ws[i].start = s.node =>
                        \E j \in DOMAIN ws : ws[j].start = s.node /\ Carries(q, ws[j])
        /\ t.more => \E j \in DOMAIN ws :
                        /\ ws[j].start = s.node /\ t.node = ws[j].finish
                        /\ FieldNames(t.fields) = FieldNames(q.out[ws[j].start])
    BY <1>2, OnwardIs
  <2>5. t.more \in BOOLEAN
    BY OnwardIs DEF Station
  <2> HIDE DEF q, t
  <2>6. ASSUME NEW i \in K, ws[i].start # s.node PROVE Carries(q, ws[i])
    <3>1. CASE ws[i].finish = s.node
      <4>1. FieldNames(s.fields) = FieldNames(s.ports.out[ws[i].start])
        BY <1>2, <3>1 DEF CarryBehind
      <4>2. QED
        BY <2>2, <2>3, <2>6, <3>1, <4>1 DEF Carries
    <3>2. CASE ws[i].finish # s.node
      <4>1. Carries(s.ports, ws[i])
        BY <3>2 DEF CarryBehind
      <4>2. QED
        BY <2>2, <2>3, <2>6, <3>2, <4>1 DEF Carries
    <3>3. QED
      BY <3>1, <3>2
  <2>7. ASSUME NEW i \in K PROVE Carries(t.ports, ws[i]) \/ (t.more /\ ws[i].finish = t.node)
    <3>1. CASE ws[i].start # s.node
      BY <2>4, <2>6, <3>1
    <3>2. CASE ws[i].start = s.node /\ ~t.more
      <4>1. PICK j \in DOMAIN ws : ws[j].start = s.node /\ Carries(q, ws[j])
        BY <2>4, <3>2
      <4>2. i = j
        BY <3>2, <4>1 DEF OneToOne
      <4>3. QED
        BY <2>4, <4>1, <4>2
    <3>3. CASE ws[i].start = s.node /\ t.more
      <4>1. PICK j \in DOMAIN ws : ws[j].start = s.node /\ t.node = ws[j].finish
        BY <2>4, <3>3
      <4>2. i = j
        BY <3>3, <4>1 DEF OneToOne
      <4>3. QED
        BY <3>3, <4>1, <4>2
    <3>4. QED
      BY <2>5, <3>1, <3>2, <3>3
  <2>8. ASSUME t.more, NEW i \in DOMAIN ws, ws[i].finish = t.node
        PROVE  FieldNames(t.fields) = FieldNames(t.ports.out[ws[i].start])
    <3>1. PICK j \in DOMAIN ws : /\ ws[j].start = s.node /\ t.node = ws[j].finish
                                 /\ FieldNames(t.fields) = FieldNames(q.out[ws[j].start])
      BY <2>4, <2>8
    <3>2. i = j
      BY <2>8, <3>1 DEF OneToOne
    <3>3. QED
      BY <2>4, <3>1, <3>2
  <2>9. QED
    BY <2>7, <2>8 DEF CarryBehind, t
<1>3. QED
  BY <1>1, <1>2 DEF Station

LEMMA OnwardRises ==
  ASSUME NEW ws, Drawn(ws), NEW r \in [Node -> Nat], Ranks(r, ws),
         NEW s \in Station, NEW k \in Nat, Behind(s, k, r)
  PROVE  Behind(Onward(ws, s), k + 1, r)
<1> DEFINE t == Onward(ws, s)
<1>1. SUFFICES ASSUME t.more
               PROVE  \E V \in SUBSET Node :
                         IsFiniteSet(V) /\ Cardinality(V) = k + 1 /\ \A v \in V : r[v] < r[t.node]
  BY DEF Behind
<1>2. s.more
  BY <1>1, OnwardIs DEF Station
<1>3. PICK V \in SUBSET Node :
         IsFiniteSet(V) /\ Cardinality(V) = k /\ \A v \in V : r[v] < r[s.node]
  BY <1>2 DEF Behind
<1>4. PICK j \in DOMAIN ws : ws[j].start = s.node /\ t.node = ws[j].finish
  BY <1>1, <1>2, OnwardIs
<1>5. s.node \in Node /\ t.node \in Node
  BY OnwardIs DEF Station
<1> HIDE DEF t
<1>6. r[s.node] < r[t.node] /\ r[s.node] \in Nat /\ r[t.node] \in Nat
  BY <1>4, <1>5 DEF Ranks
<1>7. s.node \notin V
  BY <1>3, <1>6
<1>8. IsFiniteSet(V \cup {s.node}) /\ Cardinality(V \cup {s.node}) = k + 1
  BY <1>3, <1>7, FS_AddElement
<1>9. \A v \in V \cup {s.node} : r[v] < r[t.node]
  BY <1>3, <1>5, <1>6
<1>10. V \cup {s.node} \in SUBSET Node
  BY <1>5
<1>11. QED
  BY <1>8, <1>9, <1>10

\* A change has ended when it has come to as many nodes as there are.
LEMMA NodesAreCounted == IsFiniteSet(Node) /\ Cardinality(Node) <= Len(Order) /\ Len(Order) \in Nat
<1>1. Order \in Seq(Node) /\ ToSet(Order) = Node
  BY PortsAssumption
<1>2. Len(Order) \in Nat /\ DOMAIN Order = 1..Len(Order) /\ \A i \in DOMAIN Order : Order[i] \in Node
  BY <1>1, SeqFacts
<1>3. Order \in Surjection(1..Len(Order), Node)
  <2>1. Order \in [1..Len(Order) -> Node]
    BY <1>1, <1>2
  <2>2. \A n \in Node : \E i \in 1..Len(Order) : Order[i] = n
    BY <1>1, <1>2 DEF ToSet
  <2>3. QED
    BY <2>1, <2>2 DEF Surjection
<1>4. IsFiniteSet(1..Len(Order)) /\ Cardinality(1..Len(Order)) = Len(Order)
  BY <1>2, NumbersCounted
<1>5. QED
  BY <1>2, <1>3, <1>4, FS_Surjection

LEMMA NoneIsLast ==
  ASSUME NEW s \in Station, NEW r \in [Node -> Nat], Behind(s, Len(Order), r)
  PROVE  ~s.more
<1> SUFFICES ASSUME s.more PROVE FALSE
  OBVIOUS
<1>1. PICK V \in SUBSET Node :
         IsFiniteSet(V) /\ Cardinality(V) = Len(Order) /\ \A v \in V : r[v] < r[s.node]
  BY DEF Behind
<1>2. s.node \in Node /\ r[s.node] \in Nat
  BY DEF Station
<1>3. s.node \notin V
  BY <1>1, <1>2
<1>4. Cardinality(V \cup {s.node}) = Len(Order) + 1
  BY <1>1, <1>3, FS_AddElement
<1>5. V \cup {s.node} \in SUBSET Node
  BY <1>2
<1>6. Cardinality(V \cup {s.node}) <= Cardinality(Node)
  BY <1>5, NodesAreCounted, FS_Subset
<1>7. Cardinality(Node) \in Nat
  BY NodesAreCounted, FS_CardinalityType
<1>8. QED
  BY <1>4, <1>6, <1>7, NodesAreCounted

\* The stations of a change, from the port where it begins.
Walk(at, ws, p, n, new) ==
    /\ at[0] = [ports |-> p, node |-> n, fields |-> new, more |-> TRUE]
    /\ \A k \in 0..Len(Order) : at[k] \in Station
    /\ \A k \in 1..Len(Order) : at[k] = Onward(ws, at[k - 1])
    /\ InputChanged(ws, p, n, new) = at[Len(Order)].ports

LEMMA WalkIs ==
  ASSUME NEW ws, Drawn(ws), NEW p \in Ports, NoSourceInput(p),
         NEW n \in Node, NodeKind[n] # "source", NEW new \in Seq(InField)
  PROVE  \E at : Walk(at, ws, p, n, new)
<1> DEFINE m == Len(Order)
           start == [ports |-> p, node |-> n, fields |-> new, more |-> TRUE]
           step == [k \in 1..m |-> [s \in Station |-> Onward(ws, s)]]
           Walks(f) == f = [k \in 0..m |-> IF k = 0 THEN start ELSE Onward(ws, f[k - 1])]
           at == CHOOSE f : Walks(f)
<1>1. m \in Nat
  BY NodesAreCounted
<1>2. start \in Station
  BY DEF Station
<1> HIDE DEF m, start
<1>3. \A s \in Station : Onward(ws, s) \in Station
  BY OnwardIs
<1>4. step \in [1..m -> [Station -> Station]]
  BY <1>3
<1>5. Walks(at)
  <2> HIDE DEF step
  <2>1. \E f \in [0..m -> Station] : StepsFrom(f, start, step, m)
    BY <1>1, <1>2, <1>4, StepByStep
  <2> USE DEF step
  <2>2. PICK f \in [0..m -> Station] : f[0] = start /\ \A k \in 1..m : f[k] = step[k][f[k - 1]]
    BY <2>1 DEF StepsFrom
  <2>3. ASSUME NEW k \in 0..m PROVE f[k] = IF k = 0 THEN start ELSE Onward(ws, f[k - 1])
    <3>1. CASE k = 0
      BY <2>2, <3>1
    <3>2. CASE k # 0
      <4>1. k \in 1..m /\ k - 1 \in 0..m
        BY <1>1, <3>2
      <4>2. QED
        BY <2>2, <3>2, <4>1
    <3>3. QED
      BY <3>1, <3>2
  <2>4. f = [k \in 0..m |-> f[k]]
    OBVIOUS
  <2>5. Walks(f)
    BY <2>3, <2>4
  <2>6. QED
    BY <2>5
<1> HIDE DEF at
<1>6. at[0] = start /\ \A k \in 1..m : at[k] = Onward(ws, at[k - 1])
  <2>1. \A k \in 0..m : at[k] = IF k = 0 THEN start ELSE Onward(ws, at[k - 1])
    BY <1>5
  <2>2. 0 \in 0..m /\ \A k \in 1..m : k \in 0..m /\ k # 0
    BY <1>1
  <2>3. QED
    BY <2>1, <2>2
<1>7. \A k \in 0..m : at[k] \in Station
  <2> DEFINE T == {k \in 0..m : at[k] \in Station}
  <2>1. 0 \in T
    BY <1>1, <1>2, <1>6
  <2>2. ASSUME NEW k \in 1..m, k - 1 \in T PROVE k \in T
    BY <1>3, <1>6, <2>2
  <2> HIDE DEF T
  <2>3. \A k \in 0..m : k \in T
    BY <1>1, <2>1, <2>2, UpToTheEnd
  <2>4. QED
    BY <2>3 DEF T
<1>8. InputChanged(ws, p, n, new) = at[m].ports
  BY DEF InputChanged, at, Walks, start, m
<1>9. QED
  BY <1>6, <1>7, <1>8 DEF m, start, Walk

LEMMA InputChangedTyped ==
  ASSUME NEW ws, Drawn(ws), NEW p \in Ports, NoSourceInput(p),
         NEW n \in Node, NodeKind[n] # "source", NEW new \in Seq(InField)
  PROVE  InputChanged(ws, p, n, new) \in Ports /\ NoSourceInput(InputChanged(ws, p, n, new))
<1>1. PICK at : Walk(at, ws, p, n, new)
  BY WalkIs
<1>2. at[Len(Order)] \in Station
  BY <1>1, NodesAreCounted DEF Walk
<1>3. QED
  BY <1>1, <1>2 DEF Station, Walk

LEMMA InputChangedCarries ==
  ASSUME NEW ws, Drawn(ws), OneToOne(ws), Acyclic(ws), NEW p \in Ports, NoSourceInput(p),
         NEW n \in Node, NodeKind[n] # "source", NEW new \in Seq(InField),
         NEW K, K \subseteq DOMAIN ws,
         CarryBehind(K, ws, [ports |-> p, node |-> n, fields |-> new, more |-> TRUE])
  PROVE  AllCarry(K, ws, InputChanged(ws, p, n, new))
<1>0. PICK at : Walk(at, ws, p, n, new)
  BY WalkIs
<1>1. /\ at[0] = [ports |-> p, node |-> n, fields |-> new, more |-> TRUE]
      /\ \A k \in 0..Len(Order) : at[k] \in Station
      /\ \A k \in 1..Len(Order) : at[k] = Onward(ws, at[k - 1])
      /\ InputChanged(ws, p, n, new) = at[Len(Order)].ports
  BY <1>0 DEF Walk
<1>2. PICK r \in [Node -> Nat] : Ranks(r, ws)
  BY DEF Acyclic
<1> DEFINE m == Len(Order)
           T == {k \in 0..m : CarryBehind(K, ws, at[k]) /\ Behind(at[k], k, r)}
<1>3. m \in Nat
  BY NodesAreCounted
<1>4. 0 \in T
  <2>1. IsFiniteSet({}) /\ Cardinality({}) = 0
    BY FS_EmptySet
  <2>2. Behind(at[0], 0, r)
    <3>1. {} \in SUBSET Node /\ \A v \in {} : r[v] < r[at[0].node]
      OBVIOUS
    <3>2. QED
      BY <2>1, <3>1 DEF Behind
  <2>3. CarryBehind(K, ws, at[0])
    BY <1>1
  <2>4. QED
    BY <1>3, <2>2, <2>3
<1>5. ASSUME NEW k \in 1..m, k - 1 \in T PROVE k \in T
  <2>1. k - 1 \in 0..m /\ k - 1 \in Nat /\ k \in 0..m /\ (k - 1) + 1 = k
    BY <1>3
  <2>2. at[k - 1] \in Station /\ at[k] = Onward(ws, at[k - 1])
    BY <1>1, <2>1
  <2>3. CarryBehind(K, ws, at[k - 1]) /\ Behind(at[k - 1], k - 1, r)
    BY <1>5
  <2>4. CarryBehind(K, ws, at[k])
    BY <1>2, <2>2, <2>3, OnwardCarries
  <2>5. Behind(Onward(ws, at[k - 1]), (k - 1) + 1, r)
    BY <1>2, <2>1, <2>2, <2>3, OnwardRises
  <2>6. Behind(at[k], k, r)
    BY <2>1, <2>2, <2>5
  <2>7. QED
    BY <2>1, <2>4, <2>6
<1> HIDE DEF T, m
<1>6. \A k \in 0..m : k \in T
  BY <1>3, <1>4, <1>5, UpToTheEnd
<1>7. m \in T /\ at[m] \in Station
  BY <1>1, <1>3, <1>6 DEF m
<1>8. CarryBehind(K, ws, at[m]) /\ Behind(at[m], Len(Order), r)
  BY <1>7 DEF T, m
<1>9. ~at[m].more
  BY <1>2, <1>7, <1>8, NoneIsLast
<1>10. QED
  BY <1>1, <1>8, <1>9 DEF CarryBehind, AllCarry, m

LEMMA AlongIs ==
  ASSUME NEW ws, Drawn(ws), Acyclic(ws), NEW p \in Ports, NoSourceInput(p), NEW i \in DOMAIN ws
  PROVE  /\ Along(ws, p, ws[i]) \in Ports /\ NoSourceInput(Along(ws, p, ws[i]))
         /\ \A K \in SUBSET DOMAIN ws :
              OneToOne(ws) /\ AllCarry(K, ws, p) => AllCarry(K \cup {i}, ws, Along(ws, p, ws[i]))
<1>1. CASE Carries(p, ws[i])
  BY <1>1 DEF Along, AllCarry
<1>2. CASE ~Carries(p, ws[i])
  <2> DEFINE new == Copied(p, ws[i])
             n == ws[i].finish
  <2>1. ws \in Seq(Wire) /\ NodeKind[n] # "source"
    BY DEF Drawn
  <2>2. ws[i] \in Wire
    BY <2>1, SeqFacts
  <2>3. n \in Node /\ new \in Seq(InField) /\ FieldNames(new) = FieldNames(p.out[ws[i].start])
    BY <2>2, CopiedIs DEF Wire
  <2>4. Along(ws, p, ws[i]) = InputChanged(ws, p, n, new)
    BY <1>2 DEF Along
  <2> HIDE DEF new, n
  <2>5. ASSUME NEW K \in SUBSET DOMAIN ws, OneToOne(ws), AllCarry(K, ws, p)
        PROVE  AllCarry(K \cup {i}, ws, Along(ws, p, ws[i]))
    <3> DEFINE s == [ports |-> p, node |-> n, fields |-> new, more |-> TRUE]
    <3>1. s.ports = p /\ s.node = n /\ s.fields = new /\ s.more
      OBVIOUS
    <3> HIDE DEF s
    <3>2. \A j \in K \cup {i} : Carries(s.ports, ws[j]) \/ (s.more /\ ws[j].finish = s.node)
      BY <2>5, <3>1 DEF AllCarry, n
    <3>3. \A j \in DOMAIN ws : ws[j].finish = s.node =>
             FieldNames(s.fields) = FieldNames(s.ports.out[ws[j].start])
      <4>1. \A j \in DOMAIN ws : ws[j].finish = n => j = i
        BY <2>5 DEF OneToOne, n
      <4>2. QED
        BY <2>3, <3>1, <4>1
    <3>4. CarryBehind(K \cup {i}, ws, s)
      BY <3>2, <3>3 DEF CarryBehind
    <3>5. QED
      BY <2>1, <2>3, <2>4, <2>5, <3>4, InputChangedCarries DEF s
  <2>6. QED
    BY <2>1, <2>3, <2>4, <2>5, InputChangedTyped
<1>3. QED
  BY <1>1, <1>2

LEMMA LostIs ==
  ASSUME NEW ws, Drawn(ws), Acyclic(ws), NEW p \in Ports, NoSourceInput(p), NEW n \in Node
  PROVE  /\ Lost(ws, p, n) \in Ports /\ NoSourceInput(Lost(ws, p, n))
         /\ \A K \in SUBSET DOMAIN ws :
              OneToOne(ws) /\ AllCarry(K, ws, p) => AllCarry(K, ws, Lost(ws, p, n))
<1>1. CASE ~(p.in[n] # <<>> /\ \A w \in ToSet(ws) : w.finish # n)
  BY <1>1 DEF Lost
<1>2. CASE p.in[n] # <<>> /\ \A w \in ToSet(ws) : w.finish # n
  <2>1. NodeKind[n] # "source"
    BY <1>2 DEF NoSourceInput
  <2>2. <<>> \in Seq(InField)
    OBVIOUS
  <2>3. \A j \in DOMAIN ws : ws[j].finish # n
    BY <1>2 DEF ToSet
  <2>4. Lost(ws, p, n) = InputChanged(ws, p, n, <<>>)
    BY <1>2 DEF Lost
  <2>5. ASSUME NEW K \in SUBSET DOMAIN ws, OneToOne(ws), AllCarry(K, ws, p)
        PROVE  AllCarry(K, ws, Lost(ws, p, n))
    <3>1. CarryBehind(K, ws, [ports |-> p, node |-> n, fields |-> <<>>, more |-> TRUE])
      BY <2>3, <2>5 DEF CarryBehind, AllCarry
    <3>2. QED
      BY <2>1, <2>2, <2>4, <2>5, <3>1, InputChangedCarries
  <2>6. QED
    BY <2>1, <2>2, <2>4, <2>5, InputChangedTyped
<1>3. QED
  BY <1>1, <1>2

-----------------------------------------------------------------------------
(* All changes, and the invariant.                                         *)
SoundPorts == {p \in Ports : NoSourceInput(p)}

\* The ports of one state, after the changes along all transitions.
PortsSettled(ws, p) ==
    /\ p \in SoundPorts /\ Drawn(ws) /\ Acyclic(ws)
    /\ OneToOne(ws) => AllCarry(DOMAIN ws, ws, p)

LEMMA PortsEdited ==
  ASSUME NEW p \in Ports, NEW out \in [Node -> Seq(OutField)]
  PROVE  /\ [p EXCEPT !.out = out] \in Ports
         /\ [p EXCEPT !.out = out].in = p.in /\ [p EXCEPT !.out = out].out = out
BY DEF Ports

LEMMA CorrectedIs ==
  ASSUME NEW p \in SoundPorts
  PROVE  Corrected(p) \in SoundPorts
<1> DEFINE out == [n \in Node |-> IF NodeKind[n] \in {"copy", "sequence"}
                                  THEN Determined(n, p.in[n]) ELSE p.out[n]]
<1>1. /\ p \in Ports /\ NoSourceInput(p)
      /\ p.in \in [Node -> Seq(InField)] /\ p.out \in [Node -> Seq(OutField)]
  BY DEF SoundPorts, Ports
<1>2. ASSUME NEW n \in Node, NodeKind[n] \in {"copy", "sequence"}
      PROVE  Determined(n, p.in[n]) \in Seq(OutField)
  <2>1. NodeKind[n] \in {"copy", "sequence", "target"} /\ p.in[n] \in Seq(InField)
    BY <1>1, <1>2
  <2>2. QED
    BY <2>1, DeterminedTyped
<1>3. out \in [Node -> Seq(OutField)]
  BY <1>1, <1>2
<1>4. Corrected(p) = [p EXCEPT !.out = out]
  BY DEF Corrected
<1> HIDE DEF out
<1>5. Corrected(p) \in Ports /\ Corrected(p).in = p.in
  BY <1>1, <1>3, <1>4, PortsEdited
<1>6. QED
  BY <1>1, <1>5 DEF SoundPorts, NoSourceInput

\* All transitions in the order of their list: those that were followed carry.
FollowedTo(f, ws, p) ==
    /\ f[0] = Corrected(p)
    /\ \A i \in 1..Len(ws) : f[i] = Along(ws, f[i - 1], ws[i])
FreedTo(f, ws, p) ==
    /\ f[0] = p
    /\ \A i \in 1..Len(Order) : f[i] = Lost(ws, f[i - 1], Order[i])

LEMMA FollowedIs ==
  ASSUME NEW ws, Drawn(ws), Acyclic(ws), NEW p \in SoundPorts, NEW f, FollowedTo(f, ws, p)
  PROVE  f[Len(ws)] \in SoundPorts /\ (OneToOne(ws) => AllCarry(DOMAIN ws, ws, f[Len(ws)]))
<1> DEFINE m == Len(ws)
           T == {i \in 0..m : /\ f[i] \in SoundPorts
                              /\ OneToOne(ws) => AllCarry(1..i, ws, f[i])}
<1>1. m \in Nat /\ DOMAIN ws = 1..m
  <2>1. ws \in Seq(Wire)
    BY DEF Drawn
  <2>2. QED
    BY <2>1, SeqFacts
<1> HIDE DEF m
<1>2. 0 \in T
  <2>1. f[0] \in SoundPorts
    BY CorrectedIs DEF FollowedTo
  <2>2. 1..0 = {} /\ AllCarry({}, ws, f[0])
    BY DEF AllCarry
  <2>3. QED
    BY <1>1, <2>1, <2>2
<1>3. ASSUME NEW i \in 1..m, i - 1 \in T PROVE i \in T
  <2> DEFINE q == f[i - 1]
  <2>1. q \in Ports /\ NoSourceInput(q) /\ (OneToOne(ws) => AllCarry(1..(i - 1), ws, q))
    BY <1>3 DEF SoundPorts
  <2>2. f[i] = Along(ws, q, ws[i])
    BY DEF FollowedTo, m
  <2> HIDE DEF q
  <2>3. 1..(i - 1) \in SUBSET DOMAIN ws /\ i \in DOMAIN ws /\ 1..i = 1..(i - 1) \cup {i} /\ i \in 0..m
    BY <1>1
  <2>4. f[i] \in Ports /\ NoSourceInput(f[i]) /\ (OneToOne(ws) => AllCarry(1..(i - 1) \cup {i}, ws, f[i]))
    BY <2>1, <2>2, <2>3, AlongIs
  <2>5. QED
    BY <2>3, <2>4 DEF SoundPorts
<1> HIDE DEF T
<1>4. \A i \in 0..m : i \in T
  BY <1>1, <1>2, <1>3, UpToTheEnd
<1>5. m \in T
  BY <1>1, <1>4
<1>6. QED
  BY <1>1, <1>5 DEF T, m

LEMMA FreedIs ==
  ASSUME NEW ws, Drawn(ws), Acyclic(ws), NEW p \in SoundPorts, NEW f, FreedTo(f, ws, p),
         OneToOne(ws) => AllCarry(DOMAIN ws, ws, p)
  PROVE  PortsSettled(ws, f[Len(Order)])
<1> DEFINE m == Len(Order)
           T == {i \in 0..m : PortsSettled(ws, f[i])}
<1>1. m \in Nat /\ \A i \in 1..m : Order[i] \in Node
  <2>1. Order \in Seq(Node)
    BY PortsAssumption
  <2>2. QED
    BY <2>1, SeqFacts
<1> HIDE DEF m
<1>2. 0 \in T
  BY <1>1 DEF FreedTo, PortsSettled
<1>3. ASSUME NEW i \in 1..m, i - 1 \in T PROVE i \in T
  <2> DEFINE q == f[i - 1]
  <2>1. q \in Ports /\ NoSourceInput(q) /\ (OneToOne(ws) => AllCarry(DOMAIN ws, ws, q))
    BY <1>3 DEF PortsSettled, SoundPorts
  <2>2. f[i] = Lost(ws, q, Order[i])
    BY DEF FreedTo, m
  <2> HIDE DEF q
  <2>3. Order[i] \in Node /\ i \in 0..m
    BY <1>1
  <2>4. f[i] \in Ports /\ NoSourceInput(f[i]) /\ (OneToOne(ws) => AllCarry(DOMAIN ws, ws, f[i]))
    BY <2>1, <2>2, <2>3, LostIs
  <2>5. QED
    BY <2>3, <2>4 DEF PortsSettled, SoundPorts
<1> HIDE DEF T
<1>4. \A i \in 0..m : i \in T
  BY <1>1, <1>2, <1>3, UpToTheEnd
<1>5. m \in T
  BY <1>1, <1>4
<1>6. QED
  BY <1>5 DEF T, m

LEMMA NormalizedIs ==
  ASSUME NEW ws, Drawn(ws), Acyclic(ws), NEW p \in SoundPorts
  PROVE  PortsSettled(ws, Normalized(ws, p))
<1> DEFINE m == Len(ws)
           N == Len(Order)
           Follows(f) == f = [i \in 0..m |-> IF i = 0 THEN Corrected(p) ELSE Along(ws, f[i - 1], ws[i])]
           followed == CHOOSE f : Follows(f)
           Frees(f) == f = [i \in 0..N |-> IF i = 0 THEN followed[m] ELSE Lost(ws, f[i - 1], Order[i])]
           freed == CHOOSE f : Frees(f)
<1>1. m \in Nat /\ DOMAIN ws = 1..m /\ N \in Nat /\ \A i \in 1..N : Order[i] \in Node
  <2>1. ws \in Seq(Wire) /\ Order \in Seq(Node)
    BY PortsAssumption DEF Drawn
  <2>2. QED
    BY <2>1, SeqFacts
<1>2. \A q \in SoundPorts : /\ \A i \in 1..m : Along(ws, q, ws[i]) \in SoundPorts
                            /\ \A n \in Node : Lost(ws, q, n) \in SoundPorts
  BY <1>1, AlongIs, LostIs DEF SoundPorts
<1> HIDE DEF m, N
<1>3. Follows(followed)
  <2> DEFINE step == [i \in 1..m |-> [q \in SoundPorts |-> Along(ws, q, ws[i])]]
             start == Corrected(p)
  <2>1. start \in SoundPorts /\ step \in [1..m -> [SoundPorts -> SoundPorts]]
    BY <1>2, CorrectedIs
  <2> HIDE DEF step, start
  <2>2. \E f \in [0..m -> SoundPorts] : StepsFrom(f, start, step, m)
    BY <1>1, <2>1, StepByStep
  <2> USE DEF step, start
  <2>3. PICK f \in [0..m -> SoundPorts] : f[0] = start /\ \A i \in 1..m : f[i] = step[i][f[i - 1]]
    BY <2>2 DEF StepsFrom
  <2>4. ASSUME NEW i \in 0..m
        PROVE  f[i] = IF i = 0 THEN Corrected(p) ELSE Along(ws, f[i - 1], ws[i])
    <3>1. CASE i = 0
      BY <2>3, <3>1
    <3>2. CASE i # 0
      <4>1. i \in 1..m /\ i - 1 \in 0..m
        BY <1>1, <3>2
      <4>2. QED
        BY <2>3, <3>2, <4>1
    <3>3. QED
      BY <3>1, <3>2
  <2>5. f = [i \in 0..m |-> f[i]]
    OBVIOUS
  <2>6. Follows(f)
    BY <2>4, <2>5
  <2>7. QED
    BY <2>6
<1> HIDE DEF followed
<1>4. FollowedTo(followed, ws, p)
  <2>1. \A i \in 0..m : followed[i] = IF i = 0 THEN Corrected(p) ELSE Along(ws, followed[i - 1], ws[i])
    BY <1>3
  <2>2. 0 \in 0..m /\ \A i \in 1..m : i \in 0..m /\ i # 0
    BY <1>1
  <2>3. QED
    BY <2>1, <2>2 DEF FollowedTo, m
<1>5. followed[m] \in SoundPorts /\ (OneToOne(ws) => AllCarry(DOMAIN ws, ws, followed[m]))
  BY <1>4, FollowedIs DEF m
<1>6. Frees(freed)
  <2> DEFINE step == [i \in 1..N |-> [q \in SoundPorts |-> Lost(ws, q, Order[i])]]
             start == followed[m]
  <2>1. start \in SoundPorts /\ step \in [1..N -> [SoundPorts -> SoundPorts]]
    BY <1>1, <1>2, <1>5
  <2> HIDE DEF step, start
  <2>2. \E f \in [0..N -> SoundPorts] : StepsFrom(f, start, step, N)
    BY <1>1, <2>1, StepByStep
  <2> USE DEF step, start
  <2>3. PICK f \in [0..N -> SoundPorts] : f[0] = start /\ \A i \in 1..N : f[i] = step[i][f[i - 1]]
    BY <2>2 DEF StepsFrom
  <2>4. ASSUME NEW i \in 0..N
        PROVE  f[i] = IF i = 0 THEN followed[m] ELSE Lost(ws, f[i - 1], Order[i])
    <3>1. CASE i = 0
      BY <2>3, <3>1
    <3>2. CASE i # 0
      <4>1. i \in 1..N /\ i - 1 \in 0..N
        BY <1>1, <3>2
      <4>2. QED
        BY <2>3, <3>2, <4>1
    <3>3. QED
      BY <3>1, <3>2
  <2>5. f = [i \in 0..N |-> f[i]]
    OBVIOUS
  <2>6. Frees(f)
    BY <2>4, <2>5
  <2>7. QED
    BY <2>6
<1> HIDE DEF freed
<1>7. FreedTo(freed, ws, followed[m])
  <2>1. \A i \in 0..N : freed[i] = IF i = 0 THEN followed[m] ELSE Lost(ws, freed[i - 1], Order[i])
    BY <1>6
  <2>2. 0 \in 0..N /\ \A i \in 1..N : i \in 0..N /\ i # 0
    BY <1>1
  <2>3. QED
    BY <2>1, <2>2 DEF FreedTo, N
<1>8. Normalized(ws, p) = freed[N]
  BY DEF Normalized, freed, Frees, followed, Follows, m, N
<1>9. QED
  BY <1>5, <1>7, <1>8, FreedIs DEF N

-----------------------------------------------------------------------------
(* The steps.                                                              *)
PortsInv == wires \in Seq(Wire) /\ PortsSettled(wires, ports)

LEMMA NormalizeSettles ==
  ASSUME Drawn(wires'), Acyclic(wires'), NEW p \in SoundPorts, Normalize(p)
  PROVE  PortsSettled(wires', ports')
<1>1. PortsSettled(wires', Normalized(wires', p))
  BY NormalizedIs
<1>2. QED
  BY <1>1 DEF Normalize

LEMMA SetOutSettles ==
  ASSUME PortsInv, NEW n \in Node, NEW new \in Seq(OutField), SetOut(n, new)
  PROVE  PortsSettled(wires', ports')
<1> DEFINE out == [ports.out EXCEPT ![n] = new]
<1>1. ports \in Ports /\ NoSourceInput(ports) /\ Drawn(wires) /\ Acyclic(wires)
  BY DEF PortsInv, PortsSettled, SoundPorts
<1>2. out \in [Node -> Seq(OutField)]
  BY <1>1 DEF Ports
<1>3. [ports EXCEPT !.out[n] = new] = [ports EXCEPT !.out = out]
  OBVIOUS
<1> HIDE DEF out
<1> DEFINE q == [ports EXCEPT !.out = out]
<1>4. q \in Ports /\ q.in = ports.in
  BY <1>1, <1>2, PortsEdited
<1> HIDE DEF q
<1>5. q \in SoundPorts
  BY <1>1, <1>4 DEF SoundPorts, NoSourceInput
<1>6. [ports EXCEPT !.out[n] = new] \in SoundPorts
  BY <1>3, <1>5 DEF q
<1>7. wires' = wires /\ Normalize([ports EXCEPT !.out[n] = new])
  BY DEF SetOut
<1>8. QED
  BY <1>1, <1>6, <1>7, NormalizeSettles

LEMMA OutIsSeq ==
  ASSUME PortsInv, NEW n \in Node
  PROVE  ports.out[n] \in Seq(OutField)
BY DEF PortsInv, PortsSettled, SoundPorts, Ports

LEMMA AddStep ==
  ASSUME PortsInv, NEW n \in Node, NEW name \in Name, AddField(n, name)
  PROVE  PortsSettled(wires', ports')
<1>1. ports.out[n] \in Seq(OutField)
  BY OutIsSeq
<1>2. [name |-> name, from |-> {}] \in OutField
  BY DEF OutField
<1>3. Append(ports.out[n], [name |-> name, from |-> {}]) \in Seq(OutField)
  BY <1>1, <1>2
<1>4. QED
  BY <1>3, SetOutSettles DEF AddField

LEMMA RemoveStep ==
  ASSUME PortsInv, NEW n \in Node, NEW i, RemoveField(n, i)
  PROVE  PortsSettled(wires', ports')
<1>1. ports.out[n] \in Seq(OutField)
  BY OutIsSeq
<1>2. i \in 1..Len(ports.out[n])
  BY <1>1, SeqFacts DEF RemoveField
<1>3. RemoveAt(ports.out[n], i) \in Seq(OutField)
  BY <1>1, <1>2, RemovedSeq
<1>4. QED
  BY <1>3, SetOutSettles DEF RemoveField

LEMMA RenameStep ==
  ASSUME PortsInv, NEW n \in Node, NEW i, NEW name \in Name, RenameField(n, i, name)
  PROVE  PortsSettled(wires', ports')
<1> DEFINE out == ports.out[n]
           new == [out EXCEPT ![i] = [out[i] EXCEPT !.name = name]]
<1>1. out \in Seq(OutField) /\ i \in DOMAIN out
  BY OutIsSeq DEF RenameField
<1>2. out[i] \in OutField
  BY <1>1, SeqFacts
<1>3. [out[i] EXCEPT !.name = name] \in OutField
  BY <1>2 DEF OutField
<1>4. new \in Seq(OutField)
  BY <1>1, <1>3
<1>5. [out EXCEPT ![i].name = name] = new
  OBVIOUS
<1>6. SetOut(n, new)
  BY <1>5 DEF RenameField
<1>7. QED
  BY <1>4, <1>6, SetOutSettles

\* A transition to a node from which none leads back makes no cycle.
LEMMA ConnectStep ==
  ASSUME PortsInv, NEW n \in Node, NEW m \in Node, Connect(n, m)
  PROVE  PortsSettled(wires', ports')
<1> DEFINE w == [start |-> n, finish |-> m]
<1>1. /\ ports \in SoundPorts /\ Drawn(wires) /\ Acyclic(wires) /\ wires \in Seq(Wire)
      /\ \A i \in DOMAIN wires : NodeKind[wires[i].finish] # "source"
  BY DEF PortsInv, PortsSettled, Drawn
<1>2. /\ wires' = Append(wires, w) /\ NodeKind[m] # "source" /\ m \notin Upstream(n)
      /\ Normalize(ports)
  BY DEF Connect
<1>3. Len(wires) \in Nat /\ DOMAIN wires = 1..Len(wires) /\ \A i \in DOMAIN wires : wires[i] \in Wire
  BY <1>1, SeqFacts
<1>4. w \in Wire /\ w.start = n /\ w.finish = m
  BY DEF Wire
<1> HIDE DEF w
<1>5. /\ wires' \in Seq(Wire) /\ DOMAIN wires' = 1..(Len(wires) + 1)
      /\ \A i \in DOMAIN wires : wires'[i] = wires[i]
      /\ wires'[Len(wires) + 1] = w
  BY <1>1, <1>2, <1>3, <1>4
<1>6. \A i \in DOMAIN wires' : i \in DOMAIN wires \/ i = Len(wires) + 1
  BY <1>3, <1>5
<1>7. Drawn(wires')
  BY <1>1, <1>2, <1>4, <1>5, <1>6 DEF Drawn
<1>8. Acyclic(wires')
  <2>1. PICK r \in [Node -> Nat] : Ranks(r, wires)
    BY <1>1 DEF Acyclic
  <2>2. PICK S \in SUBSET Node :
           /\ n \in S /\ m \notin S
           /\ \A x \in ToSet(wires) : x.finish \in S => x.start \in S
    BY <1>2 DEF Upstream
  <2> DEFINE rank == [x \in Node |-> IF x \in S THEN r[x] ELSE r[x] + r[n] + 1]
  <2>3. /\ \A x \in Node : r[x] \in Nat
        /\ rank \in [Node -> Nat]
    BY <2>1
  <2>4. ASSUME NEW i \in DOMAIN wires PROVE rank[wires'[i].start] < rank[wires'[i].finish]
    <3>1. wires[i].start \in Node /\ wires[i].finish \in Node
      BY <1>3 DEF Wire
    <3>2. wires[i].finish \in S => wires[i].start \in S
      BY <2>2 DEF ToSet
    <3>3. r[wires[i].start] < r[wires[i].finish]
      BY <2>1 DEF Ranks
    <3>4. rank[wires[i].start] < rank[wires[i].finish]
      BY <2>3, <3>1, <3>2, <3>3
    <3>5. QED
      BY <1>5, <3>4
  <2>5. rank[w.start] < rank[w.finish]
    BY <1>4, <2>2, <2>3
  <2> HIDE DEF rank
  <2>6. Ranks(rank, wires')
    BY <1>5, <1>6, <2>4, <2>5 DEF Ranks
  <2>7. QED
    BY <2>3, <2>6 DEF Acyclic
<1>9. QED
  BY <1>1, <1>2, <1>7, <1>8, NormalizeSettles

LEMMA DisconnectStep ==
  ASSUME PortsInv, NEW i \in 1..MaxWires, Disconnect(i)
  PROVE  PortsSettled(wires', ports')
<1>1. /\ ports \in SoundPorts /\ Acyclic(wires) /\ wires \in Seq(Wire)
      /\ \A j \in DOMAIN wires : NodeKind[wires[j].finish] # "source"
  BY DEF PortsInv, PortsSettled, Drawn
<1>2. i \in DOMAIN wires /\ wires' = RemoveAt(wires, i) /\ Normalize(ports)
  BY DEF Disconnect
<1>3. Len(wires) \in Nat /\ DOMAIN wires = 1..Len(wires)
  BY <1>1, SeqFacts
<1>4. /\ wires' \in Seq(Wire) /\ Len(wires') = Len(wires) - 1
      /\ \A j \in 1..(Len(wires) - 1) : wires'[j] = IF j < i THEN wires[j] ELSE wires[j + 1]
  BY <1>1, <1>2, <1>3, RemovedSeq
<1>5. DOMAIN wires' = 1..(Len(wires) - 1)
  BY <1>4, SeqFacts
<1>6. ASSUME NEW j \in DOMAIN wires' PROVE \E k \in DOMAIN wires : wires'[j] = wires[k]
  BY <1>3, <1>4, <1>5
<1>7. Drawn(wires')
  BY <1>1, <1>4, <1>6 DEF Drawn
<1>8. Acyclic(wires')
  BY <1>1, <1>6 DEF Acyclic, Ranks
<1>9. QED
  BY <1>1, <1>2, <1>7, <1>8, NormalizeSettles

LEMMA SavedStep ==
  ASSUME PortsInv, Saved
  PROVE  PortsSettled(wires', ports')
<1>1. /\ ports \in Ports /\ NoSourceInput(ports) /\ wires' = wires
      /\ Drawn(wires) /\ Acyclic(wires)
      /\ OneToOne(wires) => AllCarry(DOMAIN wires, wires, ports)
  BY DEF PortsInv, PortsSettled, SoundPorts, Saved
<1> DEFINE in == [n \in Node |-> [i \in DOMAIN ports.in[n] |-> [ports.in[n][i] EXCEPT !.id = TRUE]]]
           out == [n \in Node |-> [i \in DOMAIN ports.out[n] |->
                     [ports.out[n][i] EXCEPT !.from = {r \in @ : r.live}]]]
<1>2. ports' = [in |-> in, out |-> out]
  BY DEF Saved
<1>3. ASSUME NEW n \in Node
      PROVE  /\ in[n] \in Seq(InField) /\ out[n] \in Seq(OutField)
             /\ FieldNames(in[n]) = FieldNames(ports.in[n])
             /\ FieldNames(out[n]) = FieldNames(ports.out[n])
             /\ ports.in[n] = <<>> => in[n] = <<>>
  <2> DEFINE a == ports.in[n]
             b == ports.out[n]
  <2>1. a \in Seq(InField) /\ b \in Seq(OutField)
    BY <1>1 DEF Ports
  <2>2. /\ Len(a) \in Nat /\ DOMAIN a = 1..Len(a) /\ \A i \in DOMAIN a : a[i] \in InField
        /\ Len(b) \in Nat /\ DOMAIN b = 1..Len(b) /\ \A i \in DOMAIN b : b[i] \in OutField
    BY <2>1, SeqFacts
  <2>3. \A f \in InField : [f EXCEPT !.id = TRUE] \in InField /\ [f EXCEPT !.id = TRUE].name = f.name
    BY DEF InField
  <2>4. \A f \in OutField : /\ [f EXCEPT !.from = {r \in @ : r.live}] \in OutField
                            /\ [f EXCEPT !.from = {r \in @ : r.live}].name = f.name
    BY DEF OutField
  <2>5. /\ in[n] = [i \in DOMAIN a |-> [a[i] EXCEPT !.id = TRUE]]
        /\ out[n] = [i \in DOMAIN b |-> [b[i] EXCEPT !.from = {r \in @ : r.live}]]
    OBVIOUS
  <2> HIDE DEF a, b, in, out
  <2>6. in[n] \in [1..Len(a) -> InField] /\ out[n] \in [1..Len(b) -> OutField]
    BY <2>2, <2>3, <2>4, <2>5
  <2>7. in[n] \in Seq(InField) /\ Len(in[n]) = Len(a) /\ out[n] \in Seq(OutField)
    BY <2>2, <2>6, SequenceFrom
  <2>8. FieldNames(in[n]) = FieldNames(a)
    BY <2>2, <2>3, <2>5 DEF FieldNames
  <2>9. FieldNames(out[n]) = FieldNames(b)
    BY <2>2, <2>4, <2>5 DEF FieldNames
  <2>10. a = <<>> => in[n] = <<>>
    BY <2>7
  <2>11. QED
    BY <2>7, <2>8, <2>9, <2>10 DEF a, b
<1>4. in \in [Node -> Seq(InField)] /\ out \in [Node -> Seq(OutField)]
  BY <1>3
<1> HIDE DEF in, out
<1>5. ports' \in Ports /\ ports'.in = in /\ ports'.out = out
  BY <1>2, <1>4 DEF Ports
<1>6. NoSourceInput(ports')
  BY <1>1, <1>3, <1>5 DEF NoSourceInput
<1>7. ASSUME OneToOne(wires), NEW i \in DOMAIN wires PROVE Carries(ports', wires[i])
  <2>1. wires[i].start \in Node /\ wires[i].finish \in Node
    <3>1. wires[i] \in Wire
      BY SeqFacts DEF PortsInv
    <3>2. QED
      BY <3>1 DEF Wire
  <2>2. Carries(ports, wires[i])
    BY <1>1, <1>7 DEF AllCarry
  <2>3. QED
    BY <1>3, <1>5, <2>1, <2>2 DEF Carries
<1>8. QED
  BY <1>1, <1>5, <1>6, <1>7 DEF PortsSettled, SoundPorts, AllCarry

LEMMA PortsInvInit == PortsInit => PortsInv
<1> SUFFICES ASSUME PortsInit PROVE PortsInv
  OBVIOUS
<1>1. ports \in Ports /\ NoSourceInput(ports)
  BY DEF PortsInit, Ports, NoSourceInput
<1>2. wires \in Seq(Wire) /\ DOMAIN wires = {}
  BY DEF PortsInit
<1>3. Acyclic(wires)
  <2>1. [n \in Node |-> 0] \in [Node -> Nat] /\ Ranks([n \in Node |-> 0], wires)
    BY <1>2 DEF Ranks
  <2>2. QED
    BY <2>1 DEF Acyclic
<1>4. QED
  BY <1>1, <1>2, <1>3 DEF PortsInv, PortsSettled, SoundPorts, Drawn, AllCarry

LEMMA PortsInvNext == PortsInv /\ [PortsNext]_portsVars => PortsInv'
<1> SUFFICES ASSUME PortsInv, [PortsNext]_portsVars PROVE PortsInv'
  OBVIOUS
<1>1. ASSUME PortsSettled(wires', ports') PROVE PortsInv'
  BY <1>1 DEF PortsInv, PortsSettled, Drawn
<1>2. CASE UNCHANGED portsVars
  BY <1>2 DEF portsVars, PortsInv
<1>3. CASE \E n \in Node, name \in Name : AddField(n, name)
  BY <1>1, <1>3, AddStep
<1>4. CASE \E n \in Node, i \in 1..MaxOutputs : RemoveField(n, i)
  BY <1>1, <1>4, RemoveStep
<1>5. CASE \E n \in Node, i \in 1..MaxOutputs, name \in Name : RenameField(n, i, name)
  BY <1>1, <1>5, RenameStep
<1>6. CASE \E n, m \in Node : Connect(n, m)
  BY <1>1, <1>6, ConnectStep
<1>7. CASE \E i \in 1..MaxWires : Disconnect(i)
  BY <1>1, <1>7, DisconnectStep
<1>8. CASE Saved
  BY <1>1, <1>8, SavedStep
<1>9. QED
  BY <1>2, <1>3, <1>4, <1>5, <1>6, <1>7, <1>8 DEF PortsNext

\* For any transformation, whatever is added, renamed, connected or saved: the invariant.
THEOREM PortsInvariant == PortsSpec => []PortsInv
BY PortsInvInit, PortsInvNext, PTL DEF PortsSpec

\* The fields of all ports, their references and the transitions keep their types.
THEOREM PortsTypeCorrect == PortsSpec => []PortsTypeOK
<1>1. PortsInv => PortsTypeOK
  BY DEF PortsInv, PortsSettled, SoundPorts, PortsTypeOK
<1>2. QED
  BY <1>1, PortsInvariant, PTL

\* For any transformation without a cycle in which each node is entered and left by one
\* transition: after every change, normalizeTransformationPorts has brought both ends of
\* every transition to the same fields, however long the path from the change.
THEOREM LinksCarryCorrect == PortsSpec => []LinksCarryFields
<1>1. PortsInv => LinksCarryFields
  <2> SUFFICES ASSUME PortsInv, NEW i \in DOMAIN wires, \A j \in DOMAIN wires : Simple(j)
               PROVE  FieldNames(ports.out[wires[i].start]) = FieldNames(ports.in[wires[i].finish])
    BY DEF LinksCarryFields
  <2>1. DOMAIN wires = 1..Len(wires) /\ Len(wires) \in Nat
    BY SeqFacts DEF PortsInv
  <2>2. OneToOne(wires)
    <3> SUFFICES ASSUME NEW j \in DOMAIN wires, NEW k \in DOMAIN wires, j # k
                 PROVE  wires[j].start # wires[k].start /\ wires[j].finish # wires[k].finish
      BY DEF OneToOne
    <3>1. Simple(j) /\ Simple(k)
      OBVIOUS
    <3>2. j \in 1..(k - 1) \/ k \in 1..(j - 1)
      BY <2>1
    <3>3. QED
      BY <3>1, <3>2 DEF Simple
  <2>3. Carries(ports, wires[i])
    BY <2>2 DEF PortsInv, PortsSettled, AllCarry
  <2>4. QED
    BY <2>3 DEF Carries
<1>2. QED
  BY <1>1, PortsInvariant, PTL

-----------------------------------------------------------------------------
(* All pages of the client and the algorithms behind them keep their types,*)
(* for any number of nodes, tasks, rules, columns, rows, parameters, parts,*)
(* jobs, tabs and fields.                                                  *)
THEOREM PagesTypeCorrect ==
  PortsSpec /\ TasksSpec /\ EventsSpec /\ StructureSpec /\ FieldsSpec /\ DeploymentSpec
    /\ ReferencesSpec /\ LivySpec /\ ProjectionSpec /\ AggregationSpec => []PagesTypeOK
<1>1. PortsTypeOK /\ TasksTypeOK /\ EventsTypeOK /\ StructureTypeOK /\ FieldsTypeOK
        /\ DeploymentTypeOK /\ ReferencesTypeOK /\ LivyTypeOK /\ ProjectionTypeOK
        /\ AggregationTypeOK => PagesTypeOK
  BY DEF PagesTypeOK
<1>2. QED
  BY <1>1, PortsTypeCorrect, TasksTypeCorrect, EventsTypeCorrect, StructureTypeCorrect,
     FieldsTypeCorrect, DeploymentTypeCorrect, ReferencesTypeCorrect, LivyTypeCorrect,
     ProjectionTypeCorrect, AggregationTypeCorrect, PTL
=============================================================================
