------------------------------ MODULE UiEvents ------------------------------
(***************************************************************************)
(* The rule editor of an events processor (EventsProcessorView.js and      *)
(* EventsProcessorComponents.js): a list of rules, each with the parts of  *)
(* its condition and its actions, and the fields of a data structure.      *)
(*                                                                         *)
(* The user points at a row of the page; the code finds the rule by its    *)
(* name, the text typed into a name by the number of the row half a second *)
(* later, an item by its number and the rule it was drawn for, and a field *)
(* by an element of a path: its name with its number behind it.            *)
(***************************************************************************)
EXTENDS Naturals, FiniteSets, SequencesExt

CONSTANTS
    MaxRules,      \* bound: rules of the page; their names are 1..MaxRules
    MaxMade,       \* bound: rules, items and fields that are ever made
    MaxFields,     \* bound: fields of the structure
    FieldName, Unnamed,
    PathElement,   \* a name with a number behind it, which another pair may give as well
    Function, NoFunction,   \* what an item calls
    Attribute, AttributesOf,   \* what can be set in an item, by the function it calls
    StartRules,    \* how many rules the server holds, named 1, 2, ..., with a condition
    StartFields    \* the names of the fields it holds

ASSUME EventsAssumption ==
    /\ {MaxRules, MaxMade, MaxFields, StartRules} \subseteq Nat
    /\ StartRules <= MaxRules
    /\ NoFunction \notin Function
    /\ AttributesOf \in [Function \cup {NoFunction} -> SUBSET Attribute]
    /\ Unnamed \in FieldName /\ StartFields \in Seq(FieldName)
    /\ DOMAIN PathElement = FieldName \X (1..MaxFields)
    /\ Len(StartFields) <= MaxFields /\ StartRules + Len(StartFields) <= MaxMade

VARIABLES
    rules,         \* entity.rules
    treeFields,    \* the fields of a structure of the entity
    made,          \* identities given so far (history)
    opened,        \* state.expandedRules: numbers of rows
    typed,         \* the text that is being typed into the name of a row
    dialog,        \* the dialog that is open
    astray,        \* whether an edit reached something else than the user pointed at (history)
    loose          \* whether two rules of one name, or a field whose path element is also
                   \* another's, were edited, or what was pointed at moved away (history)

eventsVars == <<rules, treeFields, made, opened, typed, dialog, astray, loose>>
-----------------------------------------------------------------------------
Row == 1..MaxRules
RuleName == 1..MaxRules
Made == 1..MaxMade
Side == {"conditions", "actions"}

(* A part of a condition or an action: the function it calls (only a       *)
(* function action has one) and the attributes that are set: operands,     *)
(* fields, expressions, the mappings of its function's parameters.         *)
Item == {y \in [id : Made, function : Function \cup {NoFunction}, set : SUBSET Attribute] :
            y.set \subseteq AttributesOf[y.function]}

Rule == [id : Made, name : RuleName, condition : BOOLEAN,
         conditions : Seq(Item), actions : Seq(Item)]
Field == [id : Made, name : FieldName]
NothingTyped == [row |-> 0]
NoDialog == [kind |-> "none"]

EventsTypeOK ==
    /\ rules \in Seq(Rule) /\ Len(rules) <= MaxRules
    /\ treeFields \in Seq(Field) /\ Len(treeFields) <= MaxFields
    /\ made \in 0..MaxMade
    /\ opened \subseteq Row
    /\ typed \in {NothingTyped} \cup [row : Row, name : RuleName, of : Made]
    /\ dialog.kind \in {"none", "item", "field", "edit"}
    /\ {astray, loose} \subseteq BOOLEAN

StoredRules == [i \in 1..StartRules |->
                   [id |-> i, name |-> i, condition |-> TRUE,
                    conditions |-> <<>>, actions |-> <<>>]]
StoredFields == [k \in DOMAIN StartFields |-> [id |-> StartRules + k, name |-> StartFields[k]]]

EventsInit ==
    /\ rules = StoredRules /\ treeFields = StoredFields
    /\ made = StartRules + Len(StartFields)
    /\ opened = {} /\ typed = NothingTyped /\ dialog = NoDialog
    /\ astray = FALSE /\ loose = FALSE

Ids(list) == [k \in DOMAIN list |-> list[k].id]
SwapItems(list, k) == [list EXCEPT ![k] = list[k + 1], ![k + 1] = list[k]]

(* The rule that is found by a name: the first one that has it. *)
Named(n) == CHOOSE i \in DOMAIN rules : rules[i].name = n /\ \A j \in 1..(i - 1) : rules[j].name # n

(* A row that moves while its name is being typed *)
Moved(list) == Ids(list) # Ids(rules) /\ typed # NothingTyped

(* RenderCondition reads the class of a condition: where an open row shows *)
(* a rule without one - a row that a search opened, or one left open that  *)
(* another rule moves to - the page fails, until it is loaded again.       *)
Fails == \E i \in opened \cap DOMAIN rules : ~rules[i].condition

(* Nothing can be clicked while a dialog is open. *)
Clickable == dialog = NoDialog /\ ~Fails
-----------------------------------------------------------------------------
(* Rules                                                                   *)

(* For the mutation checks: a new rule is numbered by the rules there are. *)
AddRuleByCount ==
    /\ Clickable
    /\ Len(rules) < MaxRules /\ made < MaxMade
    /\ made' = made + 1
    /\ LET free == {n \in RuleName : \A i \in DOMAIN rules : rules[i].name # n}
           n    == Len(rules) + 1
       IN  rules' = Append(rules, [id |-> made', name |-> n, condition |-> FALSE,
                                   conditions |-> <<>>, actions |-> <<>>])
    /\ UNCHANGED <<treeFields, opened, typed, dialog, astray, loose>>

(* The least number that is not a name becomes the name of a new rule. *)
AddRule ==
    /\ Clickable
    /\ Len(rules) < MaxRules /\ made < MaxMade
    /\ made' = made + 1
    /\ LET free == {n \in RuleName : \A i \in DOMAIN rules : rules[i].name # n}
           n    == CHOOSE m \in free : \A k \in free : m <= k
       IN  rules' = Append(rules, [id |-> made', name |-> n, condition |-> FALSE,
                                   conditions |-> <<>>, actions |-> <<>>])
    /\ UNCHANGED <<treeFields, opened, typed, dialog, astray, loose>>

(* DeleteRulesElement *)
DeleteRule(i) ==
    /\ Clickable
    /\ LET j == Named(rules[i].name)
       IN  /\ rules' = RemoveAt(rules, j)
           /\ astray' = (astray \/ j # i)
    /\ loose' = (loose \/ Moved(rules'))
    /\ UNCHANGED <<treeFields, made, opened, typed, dialog>>

(* MoveRulesElement: up, or down when d = 0. *)
MoveRule(i, d) ==
    /\ Clickable
    /\ LET j == Named(rules[i].name)
       IN  /\ j - d \in 1..(Len(rules) - 1)
           /\ rules' = SwapItems(rules, j - d)
           /\ astray' = (astray \/ j # i)
    /\ loose' = (loose \/ Moved(rules'))
    /\ UNCHANGED <<treeFields, made, opened, typed, dialog>>

(* onExpand: a rule without a condition gets one when its row is opened. *)
OpenRule(i) ==
    /\ Clickable
    /\ i \notin opened
    /\ opened' = opened \cup {i}
    /\ rules' = [rules EXCEPT ![i].condition = TRUE]
    /\ UNCHANGED <<treeFields, made, typed, dialog, astray, loose>>

FoldRule(i) ==
    /\ Clickable
    /\ i \in opened
    /\ opened' = opened \ {i}
    /\ UNCHANGED <<rules, treeFields, made, typed, dialog, astray, loose>>

(* IsSearchStringContains: the rows that show a name that is found *)
Hits(found) == {i \in DOMAIN rules : rules[i].name \in found}

(* Search with RuleKeywordsFound: the rows of the rules whose name is      *)
(* found are opened, without what onExpand does.                           *)
SearchRules(found) ==
    /\ ~Fails
    /\ opened' = opened \cup Hits(found)
    /\ UNCHANGED <<rules, treeFields, made, typed, dialog, astray, loose>>

(* The name in an open row is typed; Debounced calls its row's handler     *)
(* later, when the row may show another rule, or be gone.                  *)
TypeName(i, n) ==
    /\ Clickable
    /\ i \in opened
    /\ typed = NothingTyped \/ typed.row = i
    /\ typed' = [row |-> i, name |-> n, of |-> rules[i].id]
    /\ UNCHANGED <<rules, treeFields, made, opened, dialog, astray, loose>>

NameTyped ==
    /\ ~Fails
    /\ typed # NothingTyped
    /\ typed' = NothingTyped
    /\ IF typed.row \in DOMAIN rules
       THEN /\ rules' = [rules EXCEPT ![typed.row].name = typed.name]
            /\ astray' = (astray \/ rules[typed.row].id # typed.of)
            /\ dialog' = IF dialog.kind = "item" /\ dialog.rule = typed.row
                         THEN [dialog EXCEPT !.live = FALSE] ELSE dialog
       ELSE UNCHANGED <<rules, astray, dialog>>
    /\ loose' = (loose \/ \E i, j \in DOMAIN rules' : i # j /\ rules'[i].name = rules'[j].name)
    /\ UNCHANGED <<treeFields, made, opened>>
-----------------------------------------------------------------------------
(* The items of an open rule: renderWhenRow and renderThenRow.             *)

Shows(i, w) == i \in opened /\ w \in Side

AddItem(i, w) ==
    /\ Clickable
    /\ Shows(i, w)
    /\ made < MaxMade
    /\ made' = made + 1
    /\ rules' = [rules EXCEPT ![i][w] = Append(@, [id |-> made', function |-> NoFunction,
                                                  set |-> {}])]
    /\ UNCHANGED <<treeFields, opened, typed, dialog, astray, loose>>

(* What is typed or chosen in an item is set at once, where it is drawn:   *)
(* in an action through its rule, in a condition through all its parents.  *)
SetIn(i, w, k, a) ==
    /\ Clickable
    /\ Shows(i, w)
    /\ k \in DOMAIN rules[i][w]
    /\ a \in AttributesOf[rules[i][w][k].function]
    /\ rules' = [rules EXCEPT ![i][w][k].set = @ \cup {a}]
    /\ UNCHANGED <<treeFields, made, opened, typed, dialog, astray, loose>>

SetAttribute(i, k, a) == SetIn(i, "actions", k, a)
SetOperand(i, k, a) == SetIn(i, "conditions", k, a)

(* Another function forgets the mappings of the parameters. *)
ChooseFunction(i, k, f) ==
    /\ Clickable
    /\ Shows(i, "actions")
    /\ k \in DOMAIN rules[i].actions
    /\ rules' = [rules EXCEPT ![i].actions[k] = [@ EXCEPT !.function = f, !.set = {}]]
    /\ UNCHANGED <<treeFields, made, opened, typed, dialog, astray, loose>>

(* upItem, downItem, upAction, downAction; one up is another down. *)
MoveItem(i, w, k) ==
    /\ Clickable
    /\ Shows(i, w)
    /\ k + 1 \in DOMAIN rules[i][w]
    /\ rules' = [rules EXCEPT ![i][w] = SwapItems(@, k)]
    /\ UNCHANGED <<treeFields, made, opened, typed, dialog, astray, loose>>

(* deleteItem, deleteAction: a dialog that knows the rule it was drawn for *)
AskDeleteItem(i, w, k) ==
    /\ Clickable
    /\ Shows(i, w)
    /\ dialog' = [kind |-> "item", rule |-> i, side |-> w, item |-> k,
                  of |-> rules[i][w][k].id, live |-> TRUE]
    /\ UNCHANGED <<rules, treeFields, made, opened, typed, astray, loose>>

(* A rule that was replaced meanwhile is not found, and nothing happens. *)
DeleteItem ==
    /\ ~Fails
    /\ dialog.kind = "item"
    /\ dialog' = NoDialog
    /\ IF dialog.live
       THEN /\ rules' = [rules EXCEPT ![dialog.rule][dialog.side] = RemoveAt(@, dialog.item)]
            /\ astray' = (astray \/ rules[dialog.rule][dialog.side][dialog.item].id # dialog.of)
       ELSE UNCHANGED <<rules, astray>>
    /\ UNCHANGED <<treeFields, made, opened, typed, loose>>
-----------------------------------------------------------------------------
(* The fields of a structure, by the elements of paths.                    *)

LastElement(list, k) == PathElement[list[k].name, k]

(* DoActionWithField: the first field a path element leads to, 0 if none   *)
FieldAt(list, e) ==
    LET at == {k \in DOMAIN list : LastElement(list, k) = e}
    IN  IF at = {} THEN 0 ELSE CHOOSE k \in at : \A l \in at : k <= l

(* Two fields with one path element, as f with the number 12 and f1 with 2 *)
Clash(list) == \E k, l \in DOMAIN list : k # l /\ LastElement(list, k) = LastElement(list, l)

AddTreeElement ==
    /\ Clickable
    /\ Len(treeFields) < MaxFields /\ made < MaxMade
    /\ made' = made + 1
    /\ treeFields' = Append(treeFields, [id |-> made', name |-> Unnamed])
    /\ UNCHANGED <<rules, opened, typed, dialog, astray, loose>>

(* MoveTreeElement: up, or down when d = 0. *)
MoveTreeElement(k, d) ==
    /\ Clickable
    /\ LET j == FieldAt(treeFields, LastElement(treeFields, k))
       IN  /\ j - d \in 1..(Len(treeFields) - 1)
           /\ treeFields' = SwapItems(treeFields, j - d)
           /\ astray' = (astray \/ j # k)
    /\ loose' = (loose \/ Clash(treeFields))
    /\ UNCHANGED <<rules, made, opened, typed, dialog>>

(* DeleteTreeElement asks; its dialog keeps the structure it was drawn for *)
AskDeleteField(k) ==
    /\ Clickable
    /\ dialog' = [kind |-> "field", number |-> k, list |-> treeFields]
    /\ UNCHANGED <<rules, treeFields, made, opened, typed, astray, loose>>

DeleteField ==
    /\ ~Fails
    /\ dialog.kind = "field"
    /\ dialog' = NoDialog
    /\ LET j == FieldAt(dialog.list, LastElement(dialog.list, dialog.number))
       IN  /\ treeFields' = RemoveAt(dialog.list, j)
           /\ astray' = (astray \/ dialog.list # treeFields \/ j # dialog.number)
    /\ loose' = (loose \/ Clash(dialog.list))
    /\ UNCHANGED <<rules, made, opened, typed>>

(* openEditDialog and saveEditedEntity: the field is looked for when the   *)
(* dialog opens and again when it is confirmed, by the element it had.     *)
OpenEditDialog(k, n) ==
    /\ Clickable
    /\ LET j == FieldAt(treeFields, LastElement(treeFields, k))
       IN  dialog' = [kind |-> "edit", number |-> k, drawn |-> treeFields[k],
                      field |-> treeFields[j], name |-> n]
    /\ loose' = (loose \/ Clash(treeFields))
    /\ UNCHANGED <<rules, treeFields, made, opened, typed, astray>>

SaveEditedEntity ==
    /\ ~Fails
    /\ dialog.kind = "edit"
    /\ dialog' = NoDialog
    /\ LET j == FieldAt(treeFields, PathElement[dialog.drawn.name, dialog.number])
       IN  IF j = 0 THEN UNCHANGED <<treeFields, astray>>
           ELSE /\ treeFields' = [treeFields EXCEPT ![j] = [dialog.field EXCEPT !.name = dialog.name]]
                /\ astray' = (astray \/ treeFields[j].id # dialog.drawn.id)
    /\ loose' = (loose \/ Clash(treeFields))
    /\ UNCHANGED <<rules, made, opened, typed>>

CancelDialog ==
    /\ ~Fails
    /\ dialog # NoDialog
    /\ dialog' = NoDialog
    /\ UNCHANGED <<rules, treeFields, made, opened, typed, astray, loose>>

(* An answer of the server replaces the entity (UiEntity): here with what  *)
(* it held at first.  A dialog about a rule is about none of its rules.    *)
Reload ==
    /\ ~Fails
    /\ rules' = StoredRules /\ treeFields' = StoredFields
    /\ dialog' = IF dialog.kind = "item" THEN [dialog EXCEPT !.live = FALSE] ELSE dialog
    /\ loose' = (loose \/ dialog # NoDialog \/ typed # NothingTyped)
    /\ UNCHANGED <<made, opened, typed, astray>>

(* The user loads the page anew. *)
LoadPage ==
    /\ rules' = StoredRules /\ treeFields' = StoredFields
    /\ opened' = {} /\ typed' = NothingTyped /\ dialog' = NoDialog
    /\ UNCHANGED <<made, astray, loose>>

EventsNext ==
    \/ AddRule
    \/ \E i \in DOMAIN rules : DeleteRule(i)
    \/ \E i \in DOMAIN rules, d \in {0, 1} : MoveRule(i, d)
    \/ \E i \in DOMAIN rules : OpenRule(i)
    \/ \E i \in DOMAIN rules : FoldRule(i)
    \/ \E n \in RuleName : SearchRules({n})
    \/ \E i \in DOMAIN rules, n \in RuleName : TypeName(i, n)
    \/ NameTyped
    \/ \E i \in DOMAIN rules, w \in Side : AddItem(i, w)
    \/ \E i \in DOMAIN rules, k \in Made, a \in Attribute : SetAttribute(i, k, a)
    \/ \E i \in DOMAIN rules, k \in Made, a \in Attribute : SetOperand(i, k, a)
    \/ \E i \in DOMAIN rules, k \in Made, f \in Function : ChooseFunction(i, k, f)
    \/ \E i \in DOMAIN rules, w \in Side, k \in Made : MoveItem(i, w, k)
    \/ \E i \in DOMAIN rules, w \in Side :
           \E k \in DOMAIN rules[i][w] : AskDeleteItem(i, w, k)
    \/ DeleteItem
    \/ AddTreeElement
    \/ \E k \in DOMAIN treeFields, d \in {0, 1} : MoveTreeElement(k, d)
    \/ \E k \in DOMAIN treeFields : AskDeleteField(k)
    \/ DeleteField
    \/ \E k \in DOMAIN treeFields, n \in FieldName : OpenEditDialog(k, n)
    \/ SaveEditedEntity
    \/ CancelDialog
    \/ Reload
    \/ LoadPage

EventsSpec == EventsInit /\ [][EventsNext]_eventsVars
-----------------------------------------------------------------------------
(* An edit reaches what the user pointed at, although every kind of thing  *)
(* is found in another way: provided that the user gave no two rules one   *)
(* name (the page itself never does), moved no rule within half a second   *)
(* of typing its name, edited no field in a structure where two have one   *)
(* path element, and no answer came while a dialog was open or a name was  *)
(* being typed.                                                            *)
EditsReachTheirTarget == astray => loose
=============================================================================
