-------------------------- MODULE UiTargetsProofs ---------------------------
(***************************************************************************)
(* Proofs about the edits of the client, for any number of rules, columns, *)
(* parameters and parts: that an edit reaches what the user pointed at,    *)
(* although that is found by its name, its number, a key or its place.  And*)
(* that the references between the parts of an object follow these parts   *)
(* through a save.                                                         *)
(***************************************************************************)
EXTENDS UiListsProofs, UiEvents, UiDeployment, UiStructure, UiReferences

-----------------------------------------------------------------------------
(***************************************************************************)
(* The rule editor of an events processor (UiEvents).                      *)
(***************************************************************************)

RuleList(list) == list \in Seq(Rule) /\ Len(list) <= MaxRules
FieldList(list) == list \in Seq(Field) /\ Len(list) <= MaxFields
NamesDiffer(list) == \A i, j \in 1 .. Len(list) : i # j => list[i].name # list[j].name

TypedRuleName == [row : Row, name : RuleName, of : Made]
ItemDialog == [kind : {"item"}, rule : Row, side : Side, item : Nat, of : Made, live : BOOLEAN]
FieldDialog == [kind : {"field"}, number : Nat, list : Seq(Field)]
EditDialog == [kind : {"edit"}, number : Nat, drawn : Field, field : Field, name : FieldName]

(* What a dialog shows is in a list. *)
ItemListed(list, x) ==
    /\ x.rule \in 1 .. Len(list)
    /\ x.item \in 1 .. Len(list[x.rule][x.side])
    /\ list[x.rule][x.side][x.item].id = x.of

(* A dialog about a rule of the page finds its item there, and one that    *)
(* keeps the fields it was drawn for has the number of one of them.        *)
DialogInv ==
    /\ dialog \in {NoDialog} \cup ItemDialog \cup FieldDialog \cup EditDialog
    /\ dialog \in ItemDialog /\ dialog.live => ItemListed(rules, dialog)
    /\ dialog \in FieldDialog =>
          FieldList(dialog.list) /\ dialog.number \in 1 .. Len(dialog.list)

(* What is pointed at is where it was. *)
TypedStays(list) ==
    typed # NothingTyped => typed.row \in 1 .. Len(list) /\ list[typed.row].id = typed.of
DialogStays ==
    /\ dialog \in FieldDialog => dialog.list = treeFields
    /\ dialog \in EditDialog =>
          dialog.number \in 1 .. Len(treeFields) /\ treeFields[dialog.number] = dialog.drawn

EventsInv ==
    /\ RuleList(rules) /\ FieldList(treeFields)
    /\ made \in 0..MaxMade /\ opened \subseteq Row
    /\ astray \in BOOLEAN /\ loose \in BOOLEAN
    /\ typed \in {NothingTyped} \cup TypedRuleName
    /\ DialogInv
    /\ ~loose => NamesDiffer(rules) /\ TypedStays(rules) /\ DialogStays
    /\ astray => loose

(* Fewer numbers than there are leave one free. *)
LEMMA FreeNumber ==
  ASSUME NEW n \in Nat, NEW m \in Nat, n < m, NEW f \in [1 .. n -> 1 .. m]
  PROVE  \E k \in 1 .. m : \A i \in 1 .. n : f[i] # k
<1> SUFFICES ASSUME \A k \in 1 .. m : \E i \in 1 .. n : f[i] = k PROVE FALSE
  OBVIOUS
<1> DEFINE S == 1 .. m
           T == 1 .. n
           g == [k \in S |-> CHOOSE i \in T : f[i] = k]
<1>1. \A k \in S : g[k] \in T /\ f[g[k]] = k
  OBVIOUS
<1>2. g \in [S -> T]
  BY <1>1
<1>3. IsFiniteSet(S) /\ IsFiniteSet(T) /\ Cardinality(T) < Cardinality(S)
  BY NumbersCounted
<1> HIDE DEF g, S, T
<1>4. \E j, k \in S : j # k /\ g[j] = g[k]
  BY ONLY <1>2, <1>3, FS_PigeonHole
<1>5. QED
  BY <1>1, <1>4

LEMMA DialogKinds ==
  ASSUME NEW d \in {NoDialog} \cup ItemDialog \cup FieldDialog \cup EditDialog
  PROVE  /\ d.kind \in {"none", "item", "field", "edit"}
         /\ d.kind = "item" <=> d \in ItemDialog
         /\ d.kind = "field" <=> d \in FieldDialog
         /\ d.kind = "edit" <=> d \in EditDialog
         /\ d = NoDialog => d \notin ItemDialog \cup FieldDialog \cup EditDialog
<1>1. CASE d = NoDialog
  BY <1>1 DEF NoDialog, ItemDialog, FieldDialog, EditDialog
<1>2. CASE d \in ItemDialog
  BY <1>2 DEF NoDialog, ItemDialog, FieldDialog, EditDialog
<1>3. CASE d \in FieldDialog
  BY <1>3 DEF NoDialog, ItemDialog, FieldDialog, EditDialog
<1>4. CASE d \in EditDialog
  BY <1>4 DEF NoDialog, ItemDialog, FieldDialog, EditDialog
<1>5. QED
  BY <1>1, <1>2, <1>3, <1>4

LEMMA NoDialogOpen ==
  NoDialog \notin ItemDialog \cup FieldDialog \cup EditDialog
BY DEF NoDialog, ItemDialog, FieldDialog, EditDialog

(* The rule of a row, and a row's rule replaced. *)
LEMMA RuleOf ==
  ASSUME NEW list, RuleList(list)
  PROVE  /\ Len(list) \in 0 .. MaxRules /\ DOMAIN list = 1 .. Len(list)
         /\ 1 .. Len(list) \subseteq Row
         /\ \A i \in 1 .. Len(list) :
               /\ list[i] \in Rule /\ list[i].name \in RuleName /\ list[i].id \in Made
               /\ list[i].conditions \in Seq(Item) /\ list[i].actions \in Seq(Item)
               /\ \A w \in Side : list[i][w] \in Seq(Item)
<1>1. list \in Seq(Rule) /\ Len(list) <= MaxRules /\ MaxRules \in Nat
  BY EventsAssumption DEF RuleList
<1>2. Len(list) \in Nat /\ DOMAIN list = 1 .. Len(list)
  BY <1>1, LenProperties
<1>3. \A i \in 1 .. Len(list) : list[i] \in Rule
  BY <1>1, ElementOfSeq
<1>4. ASSUME NEW i \in 1 .. Len(list)
      PROVE  /\ list[i] \in Rule /\ list[i].name \in RuleName /\ list[i].id \in Made
             /\ list[i].conditions \in Seq(Item) /\ list[i].actions \in Seq(Item)
  BY <1>3 DEF Rule
<1>5. ASSUME NEW i \in 1 .. Len(list), NEW w \in Side
      PROVE  list[i][w] \in Seq(Item)
  BY <1>4 DEF Side
<1>6. 1 .. Len(list) \subseteq Row
  BY <1>1, <1>2 DEF Row
<1>7. QED
  BY <1>1, <1>2, <1>4, <1>5, <1>6

LEMMA ReplacedRule ==
  ASSUME NEW list, RuleList(list), NEW i \in 1 .. Len(list), NEW r \in Rule
  PROVE  LET new == [list EXCEPT ![i] = r]
         IN  /\ RuleList(new) /\ Len(new) = Len(list)
             /\ \A j \in 1 .. Len(list) : new[j] = IF j = i THEN r ELSE list[j]
BY ExceptSeq DEF RuleList

(* Another list of items on one side of a rule. *)
LEMMA RuleWith ==
  ASSUME NEW r \in Rule, NEW w \in Side, NEW items \in Seq(Item)
  PROVE  LET new == [r EXCEPT ![w] = items]
         IN  /\ new \in Rule /\ new.id = r.id /\ new.name = r.name
<1>1. CASE w = "conditions"
  BY <1>1 DEF Rule
<1>2. CASE w = "actions"
  BY <1>2 DEF Rule
<1>3. QED
  BY <1>1, <1>2 DEF Side

LEMMA FieldOf ==
  ASSUME NEW list, FieldList(list)
  PROVE  /\ Len(list) \in Nat /\ DOMAIN list = 1 .. Len(list)
         /\ \A k \in 1 .. Len(list) : list[k] \in Field
BY LenProperties, ElementOfSeq DEF FieldList

LEMMA ItemOf ==
  ASSUME NEW items \in Seq(Item)
  PROVE  /\ Len(items) \in Nat /\ DOMAIN items = 1 .. Len(items)
         /\ \A k \in 1 .. Len(items) :
               /\ items[k] \in Item /\ items[k].id \in Made
               /\ items[k].function \in Function \cup {NoFunction}
               /\ items[k].set \subseteq AttributesOf[items[k].function]
<1>1. Len(items) \in Nat /\ DOMAIN items = 1 .. Len(items)
  BY LenProperties
<1>2. \A k \in 1 .. Len(items) : items[k] \in Item
  BY ElementOfSeq
<1>3. QED
  BY <1>1, <1>2 DEF Item

LEMMA SwappedItems ==
  ASSUME NEW S, NEW s \in Seq(S), NEW i \in 1 .. Len(s) - 1
  PROVE  /\ SwapItems(s, i) \in Seq(S) /\ Len(SwapItems(s, i)) = Len(s)
         /\ \A j \in 1 .. Len(s) : SwapItems(s, i)[j] =
               IF j = i THEN s[i + 1] ELSE IF j = i + 1 THEN s[i] ELSE s[j]
<1>1. Len(s) \in Nat
  BY LenProperties
<1>2. i \in 1 .. Len(s) /\ i < Len(s)
  BY <1>1
<1>3. QED
  BY <1>2, SwappedSeq DEF SwapItems

(* The first rule of a name; and where no two have one name, the only one. *)
LEMMA NamedRow ==
  ASSUME RuleList(rules), NEW i \in 1 .. Len(rules)
  PROVE  LET j == Named(rules[i].name)
         IN  /\ j \in 1 .. Len(rules) /\ rules[j].name = rules[i].name
             /\ NamesDiffer(rules) => j = i
<1> DEFINE n == rules[i].name
           T == {j \in 1 .. Len(rules) : rules[j].name = n}
<1>1. Len(rules) \in Nat /\ DOMAIN rules = 1 .. Len(rules)
  BY RuleOf
<1>2. PICK m \in T : \A k \in T : m <= k
  <2>1. T \subseteq Nat /\ T # {}
    BY <1>1
  <2> HIDE DEF T
  <2>2. QED
    BY <2>1, LeastNumber
<1>3. \A j \in 1 .. (m - 1) : rules[j].name # n
  <2> SUFFICES ASSUME NEW j \in 1 .. (m - 1), rules[j].name = n PROVE FALSE
    OBVIOUS
  <2>1. m \in 1 .. Len(rules)
    BY <1>2
  <2>2. j \in T /\ ~(m <= j)
    BY <1>1, <2>1
  <2>3. QED
    BY <1>2, <2>2
<1>4. \E j \in DOMAIN rules : rules[j].name = n /\ \A k \in 1 .. (j - 1) : rules[k].name # n
  BY <1>1, <1>2, <1>3
<1>5. Named(n) \in DOMAIN rules /\ rules[Named(n)].name = n
  BY <1>4 DEF Named
<1>6. QED
  BY <1>1, <1>5 DEF NamesDiffer

(* What the server holds. *)
LEMMA StoredRulesFit == RuleList(StoredRules) /\ NamesDiffer(StoredRules)
<1> DEFINE n == StartRules
           rule(i) == [id |-> i, name |-> i, condition |-> TRUE,
                       conditions |-> <<>>, actions |-> <<>>]
<1>1. /\ n \in Nat /\ n <= MaxRules /\ n <= MaxMade /\ MaxRules \in Nat /\ MaxMade \in Nat
  BY EventsAssumption, LenProperties
<1>2. \A i \in 1 .. n : rule(i) \in Rule
  BY <1>1, EmptySeq DEF Rule, RuleName, Made
<1> DEFINE stored == [i \in 1 .. n |-> rule(i)]
<1>3. stored \in Seq(Rule) /\ Len(stored) = n /\ \A i \in 1 .. n : stored[i].name = i
  BY <1>1, <1>2
<1>4. stored = StoredRules
  BY DEF StoredRules
<1> HIDE DEF stored
<1>5. QED
  BY <1>1, <1>3, <1>4 DEF RuleList, NamesDiffer

LEMMA StoredFieldsFit == FieldList(StoredFields)
<1> DEFINE n == Len(StartFields)
           field(k) == [id |-> StartRules + k, name |-> StartFields[k]]
<1>1. /\ n \in Nat /\ n <= MaxFields /\ StartRules \in Nat /\ StartRules + n <= MaxMade
      /\ MaxMade \in Nat /\ DOMAIN StartFields = 1 .. n
  BY EventsAssumption, LenProperties
<1>2. \A k \in 1 .. n : StartFields[k] \in FieldName
  BY EventsAssumption, ElementOfSeq
<1>3. \A k \in 1 .. n : StartRules + k \in Made
  BY <1>1 DEF Made
<1>4. \A k \in 1 .. n : field(k) \in Field
  BY <1>2, <1>3 DEF Field
<1> DEFINE stored == [k \in 1 .. n |-> field(k)]
<1> HIDE DEF n
<1>5. stored \in Seq(Field) /\ Len(stored) = n
  BY <1>1, <1>4
<1>6. stored = StoredFields
  BY <1>1 DEF StoredFields
<1> HIDE DEF stored
<1>7. QED
  BY <1>1, <1>5, <1>6 DEF FieldList

LEMMA EventsInvInit == EventsInit => EventsInv
<1> SUFFICES ASSUME EventsInit PROVE EventsInv
  OBVIOUS
<1> USE DEF EventsInit
<1>1. /\ StartRules \in Nat /\ MaxRules \in Nat /\ MaxMade \in Nat /\ StartRules <= MaxRules
      /\ StartFields \in Seq(FieldName) /\ Len(StartFields) <= MaxFields
      /\ StartRules + Len(StartFields) <= MaxMade /\ Len(StartFields) \in Nat
  BY EventsAssumption, LenProperties
<1>2. RuleList(StoredRules) /\ NamesDiffer(StoredRules)
  BY StoredRulesFit
<1>3. FieldList(StoredFields)
  BY StoredFieldsFit
<1>4. DialogInv /\ DialogStays /\ TypedStays(rules)
  BY NoDialogOpen DEF DialogInv, DialogStays, TypedStays
<1>5. /\ RuleList(rules) /\ NamesDiffer(rules) /\ FieldList(treeFields)
      /\ made \in 0..MaxMade
  BY <1>1, <1>2, <1>3
<1>6. QED
  BY <1>4, <1>5 DEF EventsInv

(* A step that leaves the fields and what is typed alone, with no dialog.  *)
LEMMA RulesStep ==
  ASSUME EventsInv, dialog = NoDialog, RuleList(rules'),
         made' \in 0..MaxMade, opened' \subseteq Row, UNCHANGED <<treeFields, typed, dialog>>,
         astray' \in BOOLEAN, loose' \in BOOLEAN, astray' => loose',
         ~loose' => ~loose /\ NamesDiffer(rules'),
         ~loose' /\ typed # NothingTyped => TypedStays(rules')
  PROVE  EventsInv'
<1>1. DialogInv' /\ DialogStays'
  BY NoDialogOpen DEF DialogInv, DialogStays
<1>2. TypedStays(rules)' <=> TypedStays(rules')
  BY DEF TypedStays
<1>3. ~loose' => TypedStays(rules')
  BY DEF TypedStays
<1>4. ~loose' => NamesDiffer(rules)'
  BY DEF NamesDiffer
<1>5. RuleList(rules)' /\ FieldList(treeFields)'
  BY DEF EventsInv, RuleList, FieldList
<1>6. typed' \in {NothingTyped} \cup TypedRuleName
  BY DEF EventsInv
<1>7. QED
  BY <1>1, <1>2, <1>3, <1>4, <1>5, <1>6 DEF EventsInv

(* A rule that changes, and keeps its name.                                *)
LEMMA RuleStep ==
  ASSUME EventsInv, dialog = NoDialog, NEW i \in 1 .. Len(rules), NEW r \in Rule,
         r.id = rules[i].id, r.name = rules[i].name, rules' = [rules EXCEPT ![i] = r],
         made' \in 0..MaxMade, opened' \subseteq Row,
         UNCHANGED <<treeFields, typed, dialog, astray, loose>>
  PROVE  EventsInv'
<1>1. RuleList(rules) /\ astray \in BOOLEAN /\ loose \in BOOLEAN /\ (astray => loose)
  BY DEF EventsInv
<1>2. /\ RuleList(rules') /\ Len(rules') = Len(rules)
      /\ \A j \in 1 .. Len(rules) : rules'[j] = IF j = i THEN r ELSE rules[j]
  <2> DEFINE new == [rules EXCEPT ![i] = r]
  <2>1. /\ RuleList(new) /\ Len(new) = Len(rules)
        /\ \A j \in 1 .. Len(rules) : new[j] = IF j = i THEN r ELSE rules[j]
    BY ONLY <1>1, i \in 1 .. Len(rules), r \in Rule, ReplacedRule
  <2>2. rules' = new
    OBVIOUS
  <2> HIDE DEF new
  <2>3. QED
    BY <2>1, <2>2
<1>3. \A j \in 1 .. Len(rules) : rules'[j].name = rules[j].name /\ rules'[j].id = rules[j].id
  BY <1>2
<1>4. ~loose => NamesDiffer(rules') /\ TypedStays(rules')
  BY <1>2, <1>3 DEF EventsInv, NamesDiffer, TypedStays
<1>5. QED
  BY <1>1, <1>2, <1>4, RulesStep

(* A rule with other items on one side.                                    *)
LEMMA ItemsStep ==
  ASSUME EventsInv, dialog = NoDialog, NEW i \in 1 .. Len(rules), NEW w \in Side,
         NEW items \in Seq(Item), rules' = [rules EXCEPT ![i] = [rules[i] EXCEPT ![w] = items]],
         made' \in 0..MaxMade, UNCHANGED <<treeFields, opened, typed, dialog, astray, loose>>
  PROVE  EventsInv'
<1> DEFINE r == [rules[i] EXCEPT ![w] = items]
<1>1. RuleList(rules) /\ opened' \subseteq Row
  BY DEF EventsInv
<1>2. rules[i] \in Rule
  BY <1>1, RuleOf
<1>3. r \in Rule /\ r.id = rules[i].id /\ r.name = rules[i].name
  BY <1>2, RuleWith
<1> HIDE DEF r
<1>4. rules' = [rules EXCEPT ![i] = r]
  BY DEF r
<1>5. QED
  BY <1>1, <1>3, <1>4, RuleStep

(* Where no row moved, what is typed is of the row it was typed in. *)
LEMMA NotMoved ==
  ASSUME RuleList(rules), NEW list, RuleList(list), ~Moved(list), TypedStays(rules)
  PROVE  TypedStays(list)
<1> SUFFICES ASSUME typed # NothingTyped
             PROVE  typed.row \in 1 .. Len(list) /\ list[typed.row].id = typed.of
  BY DEF TypedStays
<1>1. Ids(list) = Ids(rules)
  BY DEF Moved
<1>2. DOMAIN list = 1 .. Len(list) /\ DOMAIN rules = 1 .. Len(rules)
  BY RuleOf
<1>3. DOMAIN Ids(list) = 1 .. Len(list) /\ DOMAIN Ids(rules) = 1 .. Len(rules)
  BY <1>2 DEF Ids
<1>4. typed.row \in 1 .. Len(rules) /\ rules[typed.row].id = typed.of
  BY DEF TypedStays
<1>5. typed.row \in 1 .. Len(list)
  BY <1>1, <1>3, <1>4
<1>6. Ids(list)[typed.row] = list[typed.row].id /\ Ids(rules)[typed.row] = rules[typed.row].id
  BY <1>2, <1>4, <1>5 DEF Ids
<1>7. QED
  BY <1>1, <1>4, <1>5, <1>6

LEMMA AddRuleKeeps == ASSUME EventsInv, AddRule PROVE EventsInv'
<1> DEFINE free == {n \in RuleName : \A i \in DOMAIN rules : rules[i].name # n}
           n == CHOOSE m \in free : \A k \in free : m <= k
           r == [id |-> made + 1, name |-> n, condition |-> FALSE,
                 conditions |-> <<>>, actions |-> <<>>]
<1>1. /\ RuleList(rules) /\ made \in 0..MaxMade /\ MaxMade \in Nat /\ MaxRules \in Nat
      /\ astray \in BOOLEAN /\ loose \in BOOLEAN /\ (astray => loose) /\ opened \subseteq Row
  BY EventsAssumption DEF EventsInv
<1>2. /\ dialog = NoDialog /\ Len(rules) < MaxRules /\ made < MaxMade /\ made' = made + 1
      /\ rules' = Append(rules, r)
      /\ UNCHANGED <<treeFields, opened, typed, dialog, astray, loose>>
  BY DEF AddRule, Clickable
<1>3. Len(rules) \in Nat /\ DOMAIN rules = 1 .. Len(rules)
  BY <1>1, RuleOf
<1>4. n \in free
  <2> DEFINE f == [i \in 1 .. Len(rules) |-> rules[i].name]
  <2>1. f \in [1 .. Len(rules) -> 1 .. MaxRules]
    BY <1>1, RuleOf DEF RuleName
  <2> HIDE DEF f
  <2>2. PICK k \in 1 .. MaxRules : \A i \in 1 .. Len(rules) : f[i] # k
    BY ONLY <1>1, <1>2, <1>3, <2>1, FreeNumber
  <2>3. k \in free
    BY <1>3, <2>2 DEF f, RuleName
  <2>4. free \subseteq Nat
    BY DEF RuleName
  <2> HIDE DEF free
  <2>5. \E m \in free : \A j \in free : m <= j
    BY <2>3, <2>4, LeastNumber
  <2>6. QED
    BY <2>5
<1>5. n \in RuleName /\ \A i \in 1 .. Len(rules) : rules[i].name # n
  BY <1>3, <1>4
<1> HIDE DEF n, free
<1>6. r \in Rule /\ r.name = n
  <2>1. made + 1 \in Made
    BY <1>1, <1>2 DEF Made
  <2>2. QED
    BY <1>5, <2>1, EmptySeq DEF Rule
<1> HIDE DEF r
<1>7. /\ rules' \in Seq(Rule) /\ Len(rules') = Len(rules) + 1
      /\ \A i \in 1 .. Len(rules) : rules'[i] = rules[i]
      /\ rules'[Len(rules) + 1] = r
  BY <1>1, <1>2, <1>6, AppendProperties DEF RuleList
<1>8. RuleList(rules') /\ made' \in 0..MaxMade
  BY <1>1, <1>2, <1>3, <1>7 DEF RuleList
<1>9. ASSUME ~loose PROVE NamesDiffer(rules') /\ TypedStays(rules')
  <2>1. NamesDiffer(rules) /\ TypedStays(rules)
    BY <1>9 DEF EventsInv
  <2>2. NamesDiffer(rules')
    BY <1>3, <1>5, <1>6, <1>7, <2>1 DEF NamesDiffer
  <2>3. TypedStays(rules')
    BY <1>3, <1>7, <2>1 DEF TypedStays
  <2>4. QED
    BY <2>2, <2>3
<1>10. QED
  BY <1>1, <1>2, <1>8, <1>9, RulesStep

(* Another order of the rules, or fewer, with a name for each.             *)
LEMMA Rearranges ==
  ASSUME EventsInv, dialog = NoDialog, RuleList(rules'),
         ~loose => NamesDiffer(rules') /\ astray' = astray, astray' \in BOOLEAN,
         loose' = (loose \/ Moved(rules')), UNCHANGED <<treeFields, made, opened, typed, dialog>>
  PROVE  EventsInv'
<1>1. /\ RuleList(rules) /\ made' \in 0..MaxMade /\ opened' \subseteq Row
      /\ loose \in BOOLEAN /\ (astray => loose)
  BY DEF EventsInv
<1>2. loose' \in BOOLEAN
  BY <1>1 DEF Moved
<1>3. ~loose' => ~loose /\ ~Moved(rules')
  OBVIOUS
<1>4. ~loose' => NamesDiffer(rules') /\ TypedStays(rules')
  <2>1. ~loose => TypedStays(rules)
    BY DEF EventsInv
  <2>2. QED
    BY <1>1, <1>3, <2>1, NotMoved
<1>5. astray' => loose'
  BY <1>1, <1>3
<1>6. QED
  BY <1>1, <1>2, <1>3, <1>4, <1>5, RulesStep

LEMMA DeleteRuleKeeps ==
  ASSUME EventsInv, NEW i \in 1 .. Len(rules), DeleteRule(i) PROVE EventsInv'
<1> DEFINE j == Named(rules[i].name)
<1>1. RuleList(rules) /\ astray \in BOOLEAN /\ (~loose => NamesDiffer(rules))
  BY DEF EventsInv
<1>2. /\ dialog = NoDialog /\ rules' = RemoveAt(rules, j) /\ astray' = (astray \/ j # i)
      /\ loose' = (loose \/ Moved(rules'))
      /\ UNCHANGED <<treeFields, made, opened, typed, dialog>>
  BY DEF DeleteRule, Clickable
<1>3. j \in 1 .. Len(rules) /\ (NamesDiffer(rules) => j = i)
  BY <1>1, NamedRow
<1> HIDE DEF j
<1>4. Len(rules) \in Nat /\ rules \in Seq(Rule) /\ Len(rules) <= MaxRules /\ MaxRules \in Nat
  BY <1>1, RuleOf, EventsAssumption DEF RuleList
<1>5. /\ rules' \in Seq(Rule) /\ Len(rules') = Len(rules) - 1
      /\ \A k \in 1 .. Len(rules) - 1 : rules'[k] = IF k < j THEN rules[k] ELSE rules[k + 1]
  BY <1>2, <1>3, <1>4, RemovedSeq
<1>6. RuleList(rules')
  BY <1>4, <1>5 DEF RuleList
<1>7. ASSUME NamesDiffer(rules) PROVE NamesDiffer(rules')
  <2> DEFINE at(k) == IF k < j THEN k ELSE k + 1
  <2>1. \A k \in 1 .. Len(rules') : rules'[k] = rules[at(k)] /\ at(k) \in 1 .. Len(rules)
    BY <1>3, <1>4, <1>5
  <2>2. \A k, l \in 1 .. Len(rules') : k # l => at(k) # at(l)
    BY <1>3, <1>4, <1>5
  <2> HIDE DEF at
  <2>3. QED
    BY <1>7, <2>1, <2>2 DEF NamesDiffer
<1>8. astray' \in BOOLEAN
  BY <1>1, <1>2
<1>9. QED
  BY <1>1, <1>2, <1>3, <1>6, <1>7, <1>8, Rearranges

LEMMA MoveRuleKeeps ==
  ASSUME EventsInv, NEW i \in 1 .. Len(rules), NEW d \in {0, 1}, MoveRule(i, d)
  PROVE  EventsInv'
<1> DEFINE j == Named(rules[i].name)
           k == j - d
<1>1. RuleList(rules) /\ astray \in BOOLEAN /\ (~loose => NamesDiffer(rules))
  BY DEF EventsInv
<1>2. /\ dialog = NoDialog /\ k \in 1 .. Len(rules) - 1 /\ rules' = SwapItems(rules, k)
      /\ astray' = (astray \/ j # i) /\ loose' = (loose \/ Moved(rules'))
      /\ UNCHANGED <<treeFields, made, opened, typed, dialog>>
  BY DEF MoveRule, Clickable
<1>3. NamesDiffer(rules) => j = i
  BY <1>1, NamedRow
<1> HIDE DEF j, k
<1>4. Len(rules) \in Nat /\ rules \in Seq(Rule) /\ Len(rules) <= MaxRules
  BY <1>1, RuleOf DEF RuleList
<1>5. /\ rules' \in Seq(Rule) /\ Len(rules') = Len(rules)
      /\ \A l \in 1 .. Len(rules) : rules'[l] =
            IF l = k THEN rules[k + 1] ELSE IF l = k + 1 THEN rules[k] ELSE rules[l]
  BY <1>2, <1>4, SwappedItems
<1>6. RuleList(rules')
  BY <1>4, <1>5 DEF RuleList
<1>7. ASSUME NamesDiffer(rules) PROVE NamesDiffer(rules')
  <2> SUFFICES ASSUME NEW l \in 1 .. Len(rules'), NEW m \in 1 .. Len(rules'), l # m
               PROVE  rules'[l].name # rules'[m].name
    BY DEF NamesDiffer
  <2> DEFINE at(x) == IF x = k THEN k + 1 ELSE IF x = k + 1 THEN k ELSE x
  <2>1. k \in 1 .. Len(rules) - 1 /\ l \in 1 .. Len(rules) /\ m \in 1 .. Len(rules)
    BY <1>2, <1>5
  <2>2. rules'[l] = rules[at(l)] /\ rules'[m] = rules[at(m)]
    BY ONLY <1>5, <2>1
  <2>3. at(l) \in 1 .. Len(rules) /\ at(m) \in 1 .. Len(rules) /\ at(l) # at(m)
    BY ONLY <1>4, <2>1, l # m
  <2> HIDE DEF at
  <2>4. QED
    BY <1>7, <2>2, <2>3 DEF NamesDiffer
<1>8. astray' \in BOOLEAN
  BY <1>1, <1>2
<1>9. QED
  BY <1>1, <1>2, <1>3, <1>6, <1>7, <1>8, Rearranges

LEMMA OpenRuleKeeps ==
  ASSUME EventsInv, NEW i \in 1 .. Len(rules), OpenRule(i) PROVE EventsInv'
<1> DEFINE r == [rules[i] EXCEPT !.condition = TRUE]
<1>1. RuleList(rules) /\ made' \in 0..MaxMade /\ opened \subseteq Row
  BY DEF EventsInv, OpenRule
<1>2. rules[i] \in Rule /\ i \in Row
  BY <1>1, RuleOf
<1>3. r \in Rule /\ r.id = rules[i].id /\ r.name = rules[i].name
  BY <1>2 DEF Rule
<1>4. rules' = [rules EXCEPT ![i] = r] /\ dialog = NoDialog /\ opened' = opened \cup {i}
  BY DEF OpenRule, Clickable
<1> HIDE DEF r
<1>5. opened' \subseteq Row /\ UNCHANGED <<treeFields, typed, dialog, astray, loose>>
  BY <1>1, <1>2, <1>4 DEF OpenRule, Clickable
<1>6. QED
  BY <1>1, <1>3, <1>4, <1>5, RuleStep

(* What only opens and closes rows. *)
LEMMA OpenedStep ==
  ASSUME EventsInv, opened' \subseteq Row,
         UNCHANGED <<rules, treeFields, made, typed, dialog, astray, loose>>
  PROVE  EventsInv'
BY DEF EventsInv, RuleList, FieldList, DialogInv, ItemListed, NamesDiffer, TypedStays, DialogStays

LEMMA FoldRuleKeeps == ASSUME EventsInv, NEW i, FoldRule(i) PROVE EventsInv'
<1>1. opened' \subseteq Row
  BY DEF EventsInv, FoldRule
<1>2. QED
  BY <1>1, OpenedStep DEF FoldRule

LEMMA SearchRulesKeeps == ASSUME EventsInv, NEW found, SearchRules(found) PROVE EventsInv'
<1>1. RuleList(rules) /\ opened \subseteq Row
  BY DEF EventsInv
<1>2. Hits(found) \subseteq Row
  BY <1>1, RuleOf DEF Hits
<1>3. opened' \subseteq Row
  BY <1>1, <1>2 DEF SearchRules
<1>4. QED
  BY <1>3, OpenedStep DEF SearchRules

LEMMA TypeNameKeeps ==
  ASSUME EventsInv, NEW i \in 1 .. Len(rules), NEW n \in RuleName, TypeName(i, n)
  PROVE  EventsInv'
<1>1. RuleList(rules)
  BY DEF EventsInv
<1>2. i \in Row /\ rules[i].id \in Made
  BY <1>1, RuleOf
<1>3. /\ typed' = [row |-> i, name |-> n, of |-> rules[i].id]
      /\ UNCHANGED <<rules, treeFields, made, opened, dialog, astray, loose>>
  BY DEF TypeName
<1>4. typed' \in TypedRuleName /\ typed'.row = i /\ typed'.of = rules[i].id
  BY <1>2, <1>3 DEF TypedRuleName
<1>5. TypedStays(rules)'
  BY <1>3, <1>4 DEF TypedStays
<1>6. DialogInv' <=> DialogInv
  BY <1>3 DEF DialogInv, ItemListed, FieldList
<1>7. DialogStays' <=> DialogStays
  BY <1>3 DEF DialogStays
<1>8. QED
  BY <1>3, <1>4, <1>5, <1>6, <1>7 DEF EventsInv, RuleList, FieldList, NamesDiffer

LEMMA TypedType ==
  ASSUME EventsInv, typed # NothingTyped
  PROVE  typed \in TypedRuleName /\ typed.row \in Row /\ typed.name \in RuleName /\ typed.of \in Made
BY DEF EventsInv, TypedRuleName

(* The dialog that is open when a name arrives: it goes on, unless it was  *)
(* about the rule of this name.                                            *)
LEMMA DialogGoesOn ==
  ASSUME DialogInv, NEW i \in 1 .. Len(rules), NEW r, Len(rules') = Len(rules),
         \A j \in 1 .. Len(rules) : rules'[j] = IF j = i THEN r ELSE rules[j],
         dialog' = IF dialog.kind = "item" /\ dialog.rule = i
                   THEN [dialog EXCEPT !.live = FALSE] ELSE dialog,
         UNCHANGED treeFields
  PROVE  DialogInv' /\ (DialogStays => DialogStays')
<1>1. /\ dialog \in {NoDialog} \cup ItemDialog \cup FieldDialog \cup EditDialog
      /\ dialog.kind = "item" <=> dialog \in ItemDialog
  BY DialogKinds DEF DialogInv
<1>2. CASE dialog.kind = "item" /\ dialog.rule = i
  <2>1. dialog' = [dialog EXCEPT !.live = FALSE] /\ dialog \in ItemDialog
    BY <1>1, <1>2
  <2>2. dialog' \in ItemDialog /\ ~dialog'.live /\ dialog'.kind = "item"
    BY <2>1 DEF ItemDialog
  <2>3. dialog' \notin FieldDialog \cup EditDialog
    BY <2>2 DEF FieldDialog, EditDialog
  <2>4. QED
    BY <2>2, <2>3 DEF DialogInv, DialogStays
<1>3. CASE ~(dialog.kind = "item" /\ dialog.rule = i)
  <2>1. dialog' = dialog
    BY <1>3
  <2>2. ASSUME dialog \in ItemDialog, dialog.live PROVE ItemListed(rules', dialog)
    <3>1. dialog.rule # i /\ ItemListed(rules, dialog)
      BY <1>1, <1>3, <2>2 DEF DialogInv
    <3>2. rules'[dialog.rule] = rules[dialog.rule]
      BY <3>1 DEF ItemListed
    <3>3. QED
      BY <3>1, <3>2 DEF ItemListed
  <2>3. DialogInv'
    BY <2>1, <2>2 DEF DialogInv, FieldList
  <2>4. DialogStays => DialogStays'
    BY <2>1 DEF DialogStays
  <2>5. QED
    BY <2>3, <2>4
<1>4. QED
  BY <1>2, <1>3

LEMMA NameTypedKeeps == ASSUME EventsInv, NameTyped PROVE EventsInv'
<1>1. /\ RuleList(rules) /\ astray \in BOOLEAN /\ loose \in BOOLEAN /\ (astray => loose)
      /\ DialogInv /\ FieldList(treeFields) /\ made \in 0..MaxMade /\ opened \subseteq Row
      /\ (~loose => NamesDiffer(rules) /\ TypedStays(rules) /\ DialogStays)
  BY DEF EventsInv
<1>2. /\ typed # NothingTyped /\ typed' = NothingTyped
      /\ loose' = (loose \/ \E i, j \in DOMAIN rules' : i # j /\ rules'[i].name = rules'[j].name)
      /\ UNCHANGED <<treeFields, made, opened>>
  BY DEF NameTyped
<1>3. DOMAIN rules = 1 .. Len(rules)
  BY <1>1, RuleOf
<1>4. typed' \in {NothingTyped} \cup TypedRuleName /\ TypedStays(rules)'
  BY <1>2 DEF TypedStays
<1>5. CASE typed.row \in DOMAIN rules
  <2> DEFINE i == typed.row
             r == [rules[i] EXCEPT !.name = typed.name]
  <2>1. i \in 1 .. Len(rules) /\ typed.name \in RuleName
    BY <1>2, <1>3, <1>5, TypedType
  <2>2. /\ rules' = [rules EXCEPT ![i] = r] /\ astray' = (astray \/ rules[i].id # typed.of)
        /\ dialog' = IF dialog.kind = "item" /\ dialog.rule = i
                     THEN [dialog EXCEPT !.live = FALSE] ELSE dialog
    BY <1>5 DEF NameTyped
  <2>3. r \in Rule
    <3>1. rules[i] \in Rule
      BY <1>1, <2>1, RuleOf
    <3>2. QED
      BY <2>1, <3>1 DEF Rule
  <2> HIDE DEF i, r
  <2>4. /\ RuleList(rules') /\ Len(rules') = Len(rules)
        /\ \A j \in 1 .. Len(rules) : rules'[j] = IF j = i THEN r ELSE rules[j]
    <3> DEFINE new == [rules EXCEPT ![i] = r]
    <3>1. /\ RuleList(new) /\ Len(new) = Len(rules)
          /\ \A j \in 1 .. Len(rules) : new[j] = IF j = i THEN r ELSE rules[j]
      BY ONLY <1>1, <2>1, <2>3, ReplacedRule
    <3> HIDE DEF new
    <3>2. rules' = new
      BY <2>2 DEF new
    <3>3. QED
      BY <3>1, <3>2
  <2>5. DialogInv' /\ (DialogStays => DialogStays')
    BY <1>1, <1>2, <2>1, <2>2, <2>4, DialogGoesOn
  <2>6. DOMAIN rules' = 1 .. Len(rules')
    BY <2>4, RuleOf
  <2>7. ASSUME ~loose' PROVE ~loose /\ NamesDiffer(rules)' /\ DialogStays'
    BY <1>1, <1>2, <2>5, <2>6, <2>7 DEF NamesDiffer
  <2>8. ~loose => ~astray'
    BY <1>1, <1>2, <2>2 DEF TypedStays, i
  <2>9. astray' => loose'
    BY <1>2, <2>8
  <2>10. astray' \in BOOLEAN /\ loose' \in BOOLEAN
    BY <1>1, <1>2, <2>2
  <2>11. QED
    BY <1>1, <1>2, <1>4, <2>4, <2>5, <2>7, <2>9, <2>10 DEF EventsInv, RuleList, FieldList
<1>6. CASE typed.row \notin DOMAIN rules
  <2>1. UNCHANGED <<rules, astray, dialog>>
    BY <1>6 DEF NameTyped
  <2>2. loose
    BY <1>1, <1>2, <1>3, <1>6 DEF TypedStays
  <2>3. loose' = TRUE
    BY <1>2, <2>2
  <2>4. DialogInv'
    BY <1>1, <2>1 DEF DialogInv, ItemListed, FieldList
  <2>5. QED
    BY <1>1, <1>2, <1>4, <2>1, <2>3, <2>4 DEF EventsInv, RuleList, FieldList
<1>7. QED
  BY <1>5, <1>6

-----------------------------------------------------------------------------
(* The items of a rule. *)
LEMMA AddItemKeeps ==
  ASSUME EventsInv, NEW i \in 1 .. Len(rules), NEW w \in Side, AddItem(i, w) PROVE EventsInv'
<1> DEFINE item == [id |-> made + 1, function |-> NoFunction, set |-> {}]
           items == Append(rules[i][w], item)
<1>1. RuleList(rules) /\ made \in 0..MaxMade /\ MaxMade \in Nat
  BY EventsAssumption DEF EventsInv
<1>2. rules[i][w] \in Seq(Item)
  BY <1>1, RuleOf
<1>3. /\ dialog = NoDialog /\ made < MaxMade /\ made' = made + 1
      /\ rules' = [rules EXCEPT ![i] = [rules[i] EXCEPT ![w] = items]]
      /\ UNCHANGED <<treeFields, opened, typed, dialog, astray, loose>>
  BY DEF AddItem, Clickable
<1>4. made + 1 \in Made /\ made' \in 0..MaxMade
  BY <1>1, <1>3 DEF Made
<1>5. item \in Item
  BY <1>4 DEF Item
<1> HIDE DEF item
<1>6. items \in Seq(Item)
  BY <1>2, <1>5, AppendProperties
<1> HIDE DEF items
<1>7. QED
  BY <1>3, <1>4, <1>6, ItemsStep

(* An item that changes. *)
LEMMA ItemStep ==
  ASSUME EventsInv, dialog = NoDialog, NEW i \in 1 .. Len(rules), NEW w \in Side,
         NEW k \in 1 .. Len(rules[i][w]), NEW y \in Item,
         rules' = [rules EXCEPT ![i] =
                     [rules[i] EXCEPT ![w] = [rules[i][w] EXCEPT ![k] = y]]],
         UNCHANGED <<treeFields, made, opened, typed, dialog, astray, loose>>
  PROVE  EventsInv'
<1> DEFINE items == [rules[i][w] EXCEPT ![k] = y]
<1>1. RuleList(rules) /\ made' \in 0..MaxMade
  BY DEF EventsInv
<1>2. rules[i][w] \in Seq(Item)
  BY <1>1, RuleOf
<1>3. items \in Seq(Item)
  BY ONLY <1>2, k \in 1 .. Len(rules[i][w]), y \in Item, ExceptSeq
<1> HIDE DEF items
<1>4. rules' = [rules EXCEPT ![i] = [rules[i] EXCEPT ![w] = items]]
  BY DEF items
<1>5. QED
  BY <1>1, <1>3, <1>4, ItemsStep

LEMMA SetInKeeps ==
  ASSUME EventsInv, NEW i \in 1 .. Len(rules), NEW w \in Side, NEW k, NEW a, SetIn(i, w, k, a)
  PROVE  EventsInv'
<1> DEFINE x == rules[i][w][k]
           y == [x EXCEPT !.set = @ \cup {a}]
<1>1. RuleList(rules)
  BY DEF EventsInv
<1>2. rules[i][w] \in Seq(Item)
  BY <1>1, RuleOf
<1>3. k \in 1 .. Len(rules[i][w]) /\ a \in AttributesOf[x.function]
  BY <1>2, LenProperties DEF SetIn, Clickable
<1>4. x \in Item /\ x.set \subseteq AttributesOf[x.function] /\ x.function \in Function \cup {NoFunction}
  BY <1>2, <1>3, ItemOf
<1>5. AttributesOf[x.function] \subseteq Attribute
  BY <1>4, EventsAssumption
<1>6. y \in Item
  BY <1>3, <1>4, <1>5 DEF Item
<1>7. rules' = [rules EXCEPT ![i] = [rules[i] EXCEPT ![w] = [rules[i][w] EXCEPT ![k] = y]]]
  BY DEF SetIn, Clickable
<1> HIDE DEF y
<1>8. dialog = NoDialog /\ UNCHANGED <<treeFields, made, opened, typed, dialog, astray, loose>>
  BY DEF SetIn, Clickable
<1>9. QED
  BY ONLY EventsInv, i \in 1 .. Len(rules), w \in Side, <1>3, <1>6, <1>7, <1>8, ItemStep

LEMMA ChooseFunctionKeeps ==
  ASSUME EventsInv, NEW i \in 1 .. Len(rules), NEW k, NEW f \in Function, ChooseFunction(i, k, f)
  PROVE  EventsInv'
<1> DEFINE w == "actions"
           x == rules[i][w][k]
           y == [x EXCEPT !.function = f, !.set = {}]
<1>1. RuleList(rules)
  BY DEF EventsInv
<1>2. rules[i][w] \in Seq(Item) /\ w \in Side
  BY <1>1, RuleOf DEF Side
<1>3. k \in 1 .. Len(rules[i][w])
  BY <1>2, LenProperties DEF ChooseFunction, Clickable
<1>4. x \in Item
  BY <1>2, <1>3, ItemOf
<1>5. y \in Item
  BY <1>4 DEF Item
<1>6. rules' = [rules EXCEPT ![i] = [rules[i] EXCEPT ![w] = [rules[i][w] EXCEPT ![k] = y]]]
  BY DEF ChooseFunction, Clickable
<1> HIDE DEF y
<1> HIDE DEF w
<1>7. dialog = NoDialog /\ UNCHANGED <<treeFields, made, opened, typed, dialog, astray, loose>>
  BY DEF ChooseFunction, Clickable
<1>8. QED
  BY ONLY EventsInv, i \in 1 .. Len(rules), <1>2, <1>3, <1>5, <1>6, <1>7, ItemStep

LEMMA MoveItemKeeps ==
  ASSUME EventsInv, NEW i \in 1 .. Len(rules), NEW w \in Side, NEW k \in Made, MoveItem(i, w, k)
  PROVE  EventsInv'
<1> DEFINE items == SwapItems(rules[i][w], k)
<1>1. RuleList(rules) /\ made' \in 0..MaxMade /\ MaxMade \in Nat
  BY EventsAssumption DEF EventsInv, MoveItem
<1>2. rules[i][w] \in Seq(Item)
  BY <1>1, RuleOf
<1>3. DOMAIN rules[i][w] = 1 .. Len(rules[i][w]) /\ Len(rules[i][w]) \in Nat
  BY <1>2, LenProperties
<1>4. k \in 1 .. Len(rules[i][w]) - 1
  BY <1>1, <1>3 DEF MoveItem, Made
<1>5. items \in Seq(Item)
  BY <1>2, <1>4, SwappedItems
<1>6. rules' = [rules EXCEPT ![i] = [rules[i] EXCEPT ![w] = items]]
  BY DEF MoveItem
<1> HIDE DEF items
<1>7. QED
  BY <1>1, <1>5, <1>6, ItemsStep DEF MoveItem, Clickable

LEMMA AskDeleteItemKeeps ==
  ASSUME EventsInv, NEW i \in 1 .. Len(rules), NEW w \in Side, NEW k \in DOMAIN rules[i][w],
         AskDeleteItem(i, w, k)
  PROVE  EventsInv'
<1>1. RuleList(rules)
  BY DEF EventsInv
<1>2. rules[i][w] \in Seq(Item) /\ i \in Row
  BY <1>1, RuleOf
<1>3. k \in 1 .. Len(rules[i][w]) /\ k \in Nat /\ rules[i][w][k].id \in Made
  BY <1>2, ItemOf
<1>4. /\ dialog' = [kind |-> "item", rule |-> i, side |-> w, item |-> k,
                    of |-> rules[i][w][k].id, live |-> TRUE]
      /\ UNCHANGED <<rules, treeFields, made, opened, typed, astray, loose>>
  BY DEF AskDeleteItem
<1>5. dialog' \in ItemDialog /\ ItemListed(rules, dialog')
  BY <1>2, <1>3, <1>4 DEF ItemDialog, ItemListed
<1>6. dialog' \notin FieldDialog \cup EditDialog
  BY <1>4 DEF FieldDialog, EditDialog
<1>7. DialogInv' /\ DialogStays'
  BY <1>4, <1>5, <1>6 DEF DialogInv, DialogStays, ItemListed
<1>8. QED
  BY <1>4, <1>7 DEF EventsInv, RuleList, FieldList, NamesDiffer, TypedStays

(* A dialog that closes. *)
LEMMA ClosedStep ==
  ASSUME EventsInv, dialog' = NoDialog, RuleList(rules'), FieldList(treeFields'),
         Len(rules') = Len(rules),
         \A j \in 1 .. Len(rules) : rules'[j].id = rules[j].id /\ rules'[j].name = rules[j].name,
         astray' \in BOOLEAN, astray' => loose, UNCHANGED <<made, opened, typed, loose>>
  PROVE  EventsInv'
<1>1. DialogInv' /\ DialogStays'
  BY NoDialogOpen DEF DialogInv, DialogStays
<1>2. ~loose => NamesDiffer(rules)' /\ TypedStays(rules)'
  BY DEF EventsInv, NamesDiffer, TypedStays
<1>3. RuleList(rules)' /\ FieldList(treeFields)'
  BY DEF RuleList, FieldList
<1>4. QED
  BY <1>1, <1>2, <1>3 DEF EventsInv

LEMMA DeleteItemKeeps == ASSUME EventsInv, DeleteItem PROVE EventsInv'
<1>1. /\ RuleList(rules) /\ FieldList(treeFields) /\ DialogInv
      /\ astray \in BOOLEAN /\ (astray => loose)
  BY DEF EventsInv
<1>2. /\ dialog.kind = "item" /\ dialog' = NoDialog
      /\ UNCHANGED <<treeFields, made, opened, typed, loose>>
  BY DEF DeleteItem
<1>3. dialog \in ItemDialog
  BY <1>1, <1>2, DialogKinds DEF DialogInv
<1>4. FieldList(treeFields')
  BY <1>1, <1>2 DEF FieldList
<1>5. CASE dialog.live
  <2> DEFINE i == dialog.rule
             w == dialog.side
             k == dialog.item
             items == RemoveAt(rules[i][w], k)
             r == [rules[i] EXCEPT ![w] = items]
  <2>1. /\ i \in 1 .. Len(rules) /\ w \in Side /\ k \in 1 .. Len(rules[i][w])
        /\ rules[i][w][k].id = dialog.of
    BY <1>1, <1>3, <1>5 DEF DialogInv, ItemListed, ItemDialog
  <2>2. /\ rules' = [rules EXCEPT ![i] = r]
        /\ astray' = (astray \/ rules[i][w][k].id # dialog.of)
    BY <1>5 DEF DeleteItem
  <2>3. astray' \in BOOLEAN /\ (astray' => loose)
    BY <1>1, <2>1, <2>2
  <2> HIDE DEF i, w, k
  <2>4. rules[i] \in Rule /\ rules[i][w] \in Seq(Item)
    BY <1>1, <2>1, RuleOf
  <2>5. items \in Seq(Item)
    BY <2>1, <2>4, RemovedSeq
  <2> HIDE DEF items
  <2>6. r \in Rule /\ r.id = rules[i].id /\ r.name = rules[i].name
    BY <2>1, <2>4, <2>5, RuleWith
  <2> HIDE DEF r
  <2> DEFINE new == [rules EXCEPT ![i] = r]
  <2>7. /\ RuleList(new) /\ Len(new) = Len(rules)
        /\ \A j \in 1 .. Len(rules) : new[j] = IF j = i THEN r ELSE rules[j]
    BY ONLY <1>1, <2>1, <2>6, ReplacedRule
  <2> HIDE DEF new
  <2>8. rules' = new
    BY <2>2 DEF new
  <2>9. /\ RuleList(rules') /\ Len(rules') = Len(rules)
        /\ \A j \in 1 .. Len(rules) : rules'[j].id = rules[j].id /\ rules'[j].name = rules[j].name
    BY <2>6, <2>7, <2>8
  <2>10. QED
    BY <1>2, <1>4, <2>3, <2>9, ClosedStep
<1>6. CASE ~dialog.live
  <2>1. UNCHANGED <<rules, astray>>
    BY <1>6 DEF DeleteItem
  <2>2. RuleList(rules')
    BY <1>1, <2>1 DEF RuleList
  <2>3. QED
    BY <1>1, <1>2, <1>4, <2>1, <2>2, ClosedStep
<1>7. QED
  BY <1>5, <1>6

-----------------------------------------------------------------------------
(* The fields of a structure. *)

(* A step that leaves the rules alone, with no dialog. *)
LEMMA TreeStep ==
  ASSUME EventsInv, dialog = NoDialog, FieldList(treeFields'), made' \in 0..MaxMade,
         UNCHANGED <<rules, opened, typed, dialog, astray, loose>>
  PROVE  EventsInv'
<1>1. DialogInv' /\ DialogStays'
  BY NoDialogOpen DEF DialogInv, DialogStays
<1>2. QED
  BY <1>1 DEF EventsInv, RuleList, FieldList, NamesDiffer, TypedStays

LEMMA AddTreeElementKeeps == ASSUME EventsInv, AddTreeElement PROVE EventsInv'
<1> DEFINE field == [id |-> made + 1, name |-> Unnamed]
<1>1. FieldList(treeFields) /\ made \in 0..MaxMade /\ MaxMade \in Nat /\ MaxFields \in Nat
  BY EventsAssumption DEF EventsInv
<1>2. /\ dialog = NoDialog /\ Len(treeFields) < MaxFields /\ made < MaxMade /\ made' = made + 1
      /\ treeFields' = Append(treeFields, field)
      /\ UNCHANGED <<rules, opened, typed, dialog, astray, loose>>
  BY DEF AddTreeElement, Clickable
<1>3. made + 1 \in Made /\ made' \in 0..MaxMade
  BY <1>1, <1>2 DEF Made
<1>4. field \in Field
  BY <1>3, EventsAssumption DEF Field
<1> HIDE DEF field
<1>5. treeFields' \in Seq(Field) /\ Len(treeFields') = Len(treeFields) + 1
  BY <1>1, <1>2, <1>4, AppendProperties DEF FieldList
<1>6. FieldList(treeFields')
  BY <1>1, <1>2, <1>5, FieldOf DEF FieldList
<1>7. QED
  BY <1>2, <1>3, <1>6, TreeStep

(* The first field of a path element, and the only one where none clash.   *)
LEMMA FieldFound ==
  ASSUME NEW list, FieldList(list), NEW e
  PROVE  /\ FieldAt(list, e) \in {0} \cup 1 .. Len(list)
         /\ \A k \in 1 .. Len(list) :
               LastElement(list, k) = e =>
                  FieldAt(list, e) # 0 /\ (~Clash(list) => FieldAt(list, e) = k)
<1> DEFINE at == {k \in DOMAIN list : LastElement(list, k) = e}
           j == CHOOSE k \in at : \A l \in at : k <= l
<1>1. Len(list) \in Nat /\ DOMAIN list = 1 .. Len(list)
  BY FieldOf
<1>2. CASE at = {}
  BY <1>1, <1>2 DEF FieldAt
<1>3. CASE at # {}
  <2>1. at \subseteq Nat
    BY <1>1
  <2>2. j \in at
    <3> HIDE DEF at
    <3>1. \E k \in at : \A l \in at : k <= l
      BY <1>3, <2>1, LeastNumber
    <3>2. QED
      BY <3>1
  <2>3. FieldAt(list, e) = j
    BY <1>3 DEF FieldAt
  <2> HIDE DEF j
  <2>4. j \in 1 .. Len(list) /\ LastElement(list, j) = e
    BY <1>1, <2>2
  <2>5. QED
    BY <1>1, <2>3, <2>4 DEF Clash
<1>4. QED
  BY <1>2, <1>3

(* A step that leaves the rules alone, with no dialog, and may find two    *)
(* fields of one path element.                                             *)
LEMMA TreeEdit ==
  ASSUME EventsInv, dialog = NoDialog, FieldList(treeFields'),
         astray' \in BOOLEAN, loose' \in BOOLEAN, loose => loose',
         ~loose' => astray' = astray, UNCHANGED <<rules, made, opened, typed, dialog>>
  PROVE  EventsInv'
<1>1. DialogInv' /\ DialogStays'
  BY NoDialogOpen DEF DialogInv, DialogStays
<1>2. ~loose' => ~loose /\ ~astray'
  BY DEF EventsInv
<1>3. ~loose' => NamesDiffer(rules)' /\ TypedStays(rules)'
  BY <1>2 DEF EventsInv, NamesDiffer, TypedStays
<1>4. RuleList(rules)' /\ FieldList(treeFields)'
  BY DEF EventsInv, RuleList, FieldList
<1>5. QED
  BY <1>1, <1>2, <1>3, <1>4 DEF EventsInv

LEMMA MoveTreeElementKeeps ==
  ASSUME EventsInv, NEW k \in 1 .. Len(treeFields), NEW d \in {0, 1}, MoveTreeElement(k, d)
  PROVE  EventsInv'
<1> DEFINE j == FieldAt(treeFields, LastElement(treeFields, k))
           l == j - d
<1>1. FieldList(treeFields) /\ astray \in BOOLEAN /\ loose \in BOOLEAN
  BY DEF EventsInv
<1>2. /\ dialog = NoDialog /\ l \in 1 .. (Len(treeFields) - 1)
      /\ treeFields' = SwapItems(treeFields, l)
      /\ astray' = (astray \/ j # k) /\ loose' = (loose \/ Clash(treeFields))
      /\ UNCHANGED <<rules, made, opened, typed, dialog>>
  BY DEF MoveTreeElement, Clickable
<1>3. ~Clash(treeFields) => j = k
  BY <1>1, FieldFound
<1> HIDE DEF l, j
<1>4. FieldList(treeFields')
  BY <1>1, <1>2, SwappedItems DEF FieldList
<1>5. loose' \in BOOLEAN /\ astray' \in BOOLEAN
  BY <1>1, <1>2 DEF Clash
<1>6. QED
  BY <1>1, <1>2, <1>3, <1>4, <1>5, TreeEdit

(* A dialog that opens. *)
LEMMA OpensStep ==
  ASSUME EventsInv, DialogInv', DialogStays', loose' \in BOOLEAN, loose => loose',
         UNCHANGED <<rules, treeFields, made, opened, typed, astray>>
  PROVE  EventsInv'
BY DEF EventsInv, RuleList, FieldList, NamesDiffer, TypedStays

LEMMA AskDeleteFieldKeeps ==
  ASSUME EventsInv, NEW k \in 1 .. Len(treeFields), AskDeleteField(k) PROVE EventsInv'
<1>1. FieldList(treeFields)
  BY DEF EventsInv
<1>2. k \in Nat /\ treeFields \in Seq(Field)
  BY <1>1, FieldOf DEF FieldList
<1>3. /\ dialog' = [kind |-> "field", number |-> k, list |-> treeFields]
      /\ UNCHANGED <<rules, treeFields, made, opened, typed, astray, loose>>
  BY DEF AskDeleteField
<1>4. dialog' \in FieldDialog
  BY <1>2, <1>3 DEF FieldDialog
<1>5. dialog' \notin ItemDialog \cup EditDialog
  BY <1>3 DEF ItemDialog, EditDialog
<1>6. dialog'.list = treeFields /\ dialog'.number = k
  BY <1>3
<1>7. DialogInv' /\ DialogStays'
  BY <1>1, <1>3, <1>4, <1>5, <1>6 DEF DialogInv, DialogStays, FieldList
<1>8. loose' \in BOOLEAN /\ loose' = loose
  BY <1>3 DEF EventsInv
<1>9. QED
  BY <1>3, <1>7, <1>8, OpensStep

LEMMA OpenEditDialogKeeps ==
  ASSUME EventsInv, NEW k \in 1 .. Len(treeFields), NEW n \in FieldName, OpenEditDialog(k, n)
  PROVE  EventsInv'
<1> DEFINE j == FieldAt(treeFields, LastElement(treeFields, k))
<1>1. FieldList(treeFields) /\ loose \in BOOLEAN
  BY DEF EventsInv
<1>2. j \in 1 .. Len(treeFields)
  BY <1>1, FieldFound
<1> HIDE DEF j
<1>3. k \in Nat /\ treeFields[k] \in Field /\ treeFields[j] \in Field
  BY <1>1, <1>2, FieldOf
<1>4. /\ dialog' = [kind |-> "edit", number |-> k, drawn |-> treeFields[k],
                    field |-> treeFields[j], name |-> n]
      /\ loose' = (loose \/ Clash(treeFields))
      /\ UNCHANGED <<rules, treeFields, made, opened, typed, astray>>
  BY DEF OpenEditDialog, j
<1>5. dialog' \in EditDialog
  BY <1>3, <1>4 DEF EditDialog
<1>6. dialog' \notin ItemDialog \cup FieldDialog
  BY <1>4 DEF ItemDialog, FieldDialog
<1>7. dialog'.drawn = treeFields[k] /\ dialog'.number = k
  BY <1>4
<1>8. DialogInv' /\ DialogStays'
  BY <1>4, <1>5, <1>6, <1>7 DEF DialogInv, DialogStays
<1>9. loose' \in BOOLEAN
  BY <1>1, <1>4 DEF Clash
<1>10. QED
  BY <1>4, <1>8, <1>9, OpensStep

(* A dialog about a field that closes. *)
LEMMA FieldDialogCloses ==
  ASSUME EventsInv, dialog' = NoDialog, FieldList(treeFields'),
         astray' \in BOOLEAN, loose' \in BOOLEAN, loose => loose', astray' => loose',
         UNCHANGED <<rules, made, opened, typed>>
  PROVE  EventsInv'
<1>1. DialogInv' /\ DialogStays'
  BY NoDialogOpen DEF DialogInv, DialogStays
<1>2. ~loose' => NamesDiffer(rules)' /\ TypedStays(rules)'
  BY DEF EventsInv, NamesDiffer, TypedStays
<1>3. RuleList(rules)' /\ FieldList(treeFields)'
  BY DEF EventsInv, RuleList, FieldList
<1>4. QED
  BY <1>1, <1>2, <1>3 DEF EventsInv

LEMMA DeleteFieldKeeps == ASSUME EventsInv, DeleteField PROVE EventsInv'
<1> DEFINE list == dialog.list
           j == FieldAt(list, LastElement(list, dialog.number))
<1>1. /\ DialogInv /\ astray \in BOOLEAN /\ loose \in BOOLEAN /\ (astray => loose)
      /\ (~loose => DialogStays)
  BY DEF EventsInv
<1>2. /\ dialog.kind = "field" /\ dialog' = NoDialog
      /\ treeFields' = RemoveAt(list, j)
      /\ astray' = (astray \/ list # treeFields \/ j # dialog.number)
      /\ loose' = (loose \/ Clash(list))
      /\ UNCHANGED <<rules, made, opened, typed>>
  BY DEF DeleteField
<1>3. dialog \in FieldDialog
  BY <1>1, <1>2, DialogKinds DEF DialogInv
<1>4. FieldList(list) /\ dialog.number \in 1 .. Len(list)
  BY <1>1, <1>3 DEF DialogInv
<1>5. ~loose => list = treeFields
  BY <1>1, <1>3 DEF DialogStays
<1> HIDE DEF list
<1>6. j \in 1 .. Len(list) /\ (~Clash(list) => j = dialog.number)
  BY <1>4, FieldFound
<1> HIDE DEF j
<1>7. treeFields' \in Seq(Field) /\ Len(treeFields') = Len(list) - 1
  BY <1>2, <1>4, <1>6, RemovedSeq DEF FieldList
<1>8. FieldList(treeFields')
  <2>1. Len(list) \in Nat /\ Len(list) <= MaxFields /\ MaxFields \in Nat
    BY <1>4, FieldOf, EventsAssumption DEF FieldList
  <2>2. QED
    BY <1>7, <2>1 DEF FieldList
<1>9. astray' \in BOOLEAN /\ loose' \in BOOLEAN /\ (astray' => loose')
  BY <1>1, <1>2, <1>5, <1>6 DEF Clash
<1>10. QED
  BY <1>2, <1>8, <1>9, FieldDialogCloses

LEMMA SaveEditedEntityKeeps == ASSUME EventsInv, SaveEditedEntity PROVE EventsInv'
<1> DEFINE e == PathElement[dialog.drawn.name, dialog.number]
           j == FieldAt(treeFields, e)
<1>1. /\ DialogInv /\ FieldList(treeFields) /\ astray \in BOOLEAN /\ loose \in BOOLEAN
      /\ (astray => loose) /\ (~loose => DialogStays)
  BY DEF EventsInv
<1>2. /\ dialog.kind = "edit" /\ dialog' = NoDialog
      /\ loose' = (loose \/ Clash(treeFields))
      /\ UNCHANGED <<rules, made, opened, typed>>
  BY DEF SaveEditedEntity
<1>3. dialog \in EditDialog
  BY <1>1, <1>2, DialogKinds DEF DialogInv
<1>4. dialog.number \in Nat /\ dialog.field \in Field /\ dialog.name \in FieldName
  BY <1>3 DEF EditDialog
<1>5. j \in {0} \cup 1 .. Len(treeFields)
  <2> HIDE DEF e
  <2>1. QED
    BY <1>1, FieldFound
<1>6. loose' \in BOOLEAN /\ (loose => loose')
  BY <1>1, <1>2 DEF Clash
<1>7. CASE j = 0
  <2>1. UNCHANGED <<treeFields, astray>>
    BY <1>7 DEF SaveEditedEntity
  <2>2. FieldList(treeFields')
    BY <1>1, <2>1 DEF FieldList
  <2>3. QED
    BY <1>1, <1>2, <1>6, <2>1, <2>2, FieldDialogCloses
<1>8. CASE j # 0
  <2> DEFINE y == [dialog.field EXCEPT !.name = dialog.name]
  <2>1. /\ treeFields' = [treeFields EXCEPT ![j] = y]
        /\ astray' = (astray \/ treeFields[j].id # dialog.drawn.id)
    BY <1>8 DEF SaveEditedEntity
  <2>2. y \in Field
    BY <1>4 DEF Field
  <2>3. j \in 1 .. Len(treeFields)
    BY <1>5, <1>8
  <2>4. ASSUME ~loose, ~Clash(treeFields) PROVE treeFields[j] = dialog.drawn
    <3>1. dialog.number \in 1 .. Len(treeFields) /\ treeFields[dialog.number] = dialog.drawn
      BY <1>1, <1>3, <2>4 DEF DialogStays
    <3>2. LastElement(treeFields, dialog.number) = e
      BY <3>1 DEF LastElement
    <3> HIDE DEF e
    <3>3. j = dialog.number
      BY <1>1, <2>4, <3>1, <3>2, FieldFound
    <3>4. QED
      BY <3>1, <3>3
  <2> HIDE DEF j, y
  <2>5. FieldList(treeFields')
    BY <1>1, <2>1, <2>2, <2>3, ExceptSeq DEF FieldList
  <2>6. astray' \in BOOLEAN /\ (astray' => loose')
    BY <1>1, <1>2, <2>1, <2>4
  <2>7. QED
    BY <1>2, <1>6, <2>5, <2>6, FieldDialogCloses
<1>9. QED
  BY <1>7, <1>8

LEMMA CancelDialogKeeps == ASSUME EventsInv, CancelDialog PROVE EventsInv'
<1>1. /\ FieldList(treeFields') /\ astray' \in BOOLEAN /\ (astray' => loose')
      /\ loose' \in BOOLEAN /\ (loose => loose')
  BY DEF EventsInv, CancelDialog, FieldList
<1>2. QED
  BY <1>1, FieldDialogCloses DEF CancelDialog

(* An answer takes what a dialog and a text are about, and says so.        *)
LEMMA EventsReloadKeeps == ASSUME EventsInv, Reload PROVE EventsInv'
<1>1. /\ rules' = StoredRules /\ treeFields' = StoredFields
      /\ dialog' = IF dialog.kind = "item" THEN [dialog EXCEPT !.live = FALSE] ELSE dialog
      /\ loose' = (loose \/ dialog # NoDialog \/ typed # NothingTyped)
      /\ UNCHANGED <<made, opened, typed, astray>>
  BY DEF Reload
<1>2. /\ RuleList(rules)' /\ FieldList(treeFields)' /\ NamesDiffer(rules)'
  BY <1>1, StoredRulesFit, StoredFieldsFit DEF RuleList, FieldList, NamesDiffer
<1>3. DialogInv /\ loose \in BOOLEAN /\ (astray => loose)
  BY DEF EventsInv
<1>4. /\ dialog \in {NoDialog} \cup ItemDialog \cup FieldDialog \cup EditDialog
      /\ dialog.kind = "item" <=> dialog \in ItemDialog
  BY <1>3, DialogKinds DEF DialogInv
<1>5. DialogInv'
  <2>1. CASE dialog.kind = "item"
    <3>1. dialog' = [dialog EXCEPT !.live = FALSE] /\ dialog \in ItemDialog
      BY <1>1, <1>4, <2>1
    <3>2. dialog' \in ItemDialog /\ ~dialog'.live /\ dialog'.kind = "item"
      BY <3>1 DEF ItemDialog
    <3>3. dialog' \notin FieldDialog
      BY <3>2 DEF FieldDialog
    <3>4. QED
      BY <3>2, <3>3 DEF DialogInv
  <2>2. CASE dialog.kind # "item"
    <3>1. dialog' = dialog /\ dialog \notin ItemDialog
      BY <1>1, <1>4, <2>2
    <3>2. QED
      BY <1>3, <3>1 DEF DialogInv, FieldList
  <2>3. QED
    BY <2>1, <2>2
<1>6. ASSUME ~loose' PROVE ~loose /\ TypedStays(rules)' /\ DialogStays'
  <2>1. ~loose /\ dialog = NoDialog /\ typed = NothingTyped
    BY <1>1, <1>6
  <2>2. dialog' = NoDialog
    BY <1>1, <1>4, <2>1, NoDialogOpen
  <2>3. QED
    BY <1>1, <2>1, <2>2, NoDialogOpen DEF TypedStays, DialogStays
<1>7. loose' \in BOOLEAN /\ (astray' => loose')
  BY <1>1, <1>3
<1>8. QED
  BY <1>1, <1>2, <1>5, <1>6, <1>7 DEF EventsInv

(* The page as it is loaded. *)
LEMMA LoadPageKeeps == ASSUME EventsInv, LoadPage PROVE EventsInv'
<1>1. /\ rules' = StoredRules /\ treeFields' = StoredFields
      /\ opened' = {} /\ typed' = NothingTyped /\ dialog' = NoDialog
      /\ UNCHANGED <<made, astray, loose>>
  BY DEF LoadPage
<1>2. RuleList(rules)' /\ FieldList(treeFields)' /\ NamesDiffer(rules)'
  BY <1>1, StoredRulesFit, StoredFieldsFit DEF RuleList, FieldList, NamesDiffer
<1>3. DialogInv' /\ DialogStays' /\ TypedStays(rules)'
  BY <1>1, NoDialogOpen DEF DialogInv, DialogStays, TypedStays
<1>4. QED
  BY <1>1, <1>2, <1>3 DEF EventsInv

-----------------------------------------------------------------------------
LEMMA EventsInvNext == EventsInv /\ [EventsNext]_eventsVars => EventsInv'
<1> SUFFICES ASSUME EventsInv, [EventsNext]_eventsVars PROVE EventsInv'
  OBVIOUS
<1>1. DOMAIN rules = 1 .. Len(rules) /\ DOMAIN treeFields = 1 .. Len(treeFields)
  BY RuleOf, FieldOf DEF EventsInv
<1>2. CASE UNCHANGED eventsVars
  BY <1>2, OpenedStep DEF EventsInv, eventsVars
<1>3. ASSUME AddRule \/ (\E i \in DOMAIN rules : DeleteRule(i))
             \/ (\E i \in DOMAIN rules, d \in {0, 1} : MoveRule(i, d))
             \/ (\E i \in DOMAIN rules : OpenRule(i)) \/ (\E i \in DOMAIN rules : FoldRule(i))
             \/ (\E n \in RuleName : SearchRules({n}))
      PROVE  EventsInv'
  BY <1>1, <1>3, AddRuleKeeps, DeleteRuleKeeps, MoveRuleKeeps, OpenRuleKeeps, FoldRuleKeeps,
     SearchRulesKeeps
<1>4. ASSUME (\E i \in DOMAIN rules, n \in RuleName : TypeName(i, n)) \/ NameTyped
      PROVE  EventsInv'
  BY <1>1, <1>4, TypeNameKeeps, NameTypedKeeps
<1>5. ASSUME NEW i \in DOMAIN rules, NEW w \in Side, NEW k \in Made, NEW a,
             \/ SetAttribute(i, k, a) \/ SetOperand(i, k, a) \/ MoveItem(i, w, k)
             \/ \E f \in Function : ChooseFunction(i, k, f)
      PROVE  EventsInv'
  <2>1. {"conditions", "actions"} \subseteq Side
    BY DEF Side
  <2>2. CASE SetAttribute(i, k, a)
    BY <1>1, <2>1, <2>2, SetInKeeps DEF SetAttribute
  <2>3. CASE SetOperand(i, k, a)
    BY <1>1, <2>1, <2>3, SetInKeeps DEF SetOperand
  <2>4. CASE \E f \in Function : ChooseFunction(i, k, f)
    BY <1>1, <2>4, ChooseFunctionKeeps
  <2>5. CASE MoveItem(i, w, k)
    BY <1>1, <2>5, MoveItemKeeps
  <2>6. QED
    BY <1>5, <2>2, <2>3, <2>4, <2>5
<1>6. ASSUME NEW i \in DOMAIN rules, NEW w \in Side, AddItem(i, w) PROVE EventsInv'
  BY <1>1, <1>6, AddItemKeeps
<1>7. ASSUME \/ \E i \in DOMAIN rules, w \in Side : \E k \in DOMAIN rules[i][w] : AskDeleteItem(i, w, k)
             \/ DeleteItem
      PROVE  EventsInv'
  BY <1>1, <1>7, AskDeleteItemKeeps, DeleteItemKeeps
<1>8. ASSUME AddTreeElement \/ (\E k \in DOMAIN treeFields, d \in {0, 1} : MoveTreeElement(k, d))
             \/ (\E k \in DOMAIN treeFields : AskDeleteField(k)) \/ DeleteField
             \/ (\E k \in DOMAIN treeFields, n \in FieldName : OpenEditDialog(k, n))
             \/ SaveEditedEntity \/ CancelDialog \/ Reload \/ LoadPage
      PROVE  EventsInv'
  BY <1>1, <1>8, AddTreeElementKeeps, MoveTreeElementKeeps, AskDeleteFieldKeeps, DeleteFieldKeeps,
     OpenEditDialogKeeps, SaveEditedEntityKeeps, CancelDialogKeeps, EventsReloadKeeps,
     LoadPageKeeps
<1>9. QED
  <2> SUFFICES ASSUME EventsNext PROVE EventsInv'
    BY <1>2
  <2>1. \/ \E i \in DOMAIN rules, w \in Side : AddItem(i, w)
        \/ \E i \in DOMAIN rules, k \in Made, a \in Attribute : SetAttribute(i, k, a)
        \/ \E i \in DOMAIN rules, k \in Made, a \in Attribute : SetOperand(i, k, a)
        \/ \E i \in DOMAIN rules, k \in Made, f \in Function : ChooseFunction(i, k, f)
        \/ \E i \in DOMAIN rules, w \in Side, k \in Made : MoveItem(i, w, k)
        => EventsInv'
    BY <1>5, <1>6 DEF Side
  <2>2. QED
    BY <1>3, <1>4, <1>7, <1>8, <2>1 DEF EventsNext

(* The lists of the rule editor, and what its dialogs are about, keep      *)
(* their shape: EventsInv is inductive.                                    *)
THEOREM EventsInvariant == EventsSpec => []EventsInv
  BY EventsInvInit, EventsInvNext, PTL DEF EventsSpec

(* Every variable of the rule editor has its type. *)
THEOREM EventsTypeCorrect == EventsSpec => []EventsTypeOK
<1>1. EventsInv => EventsTypeOK
  <2> SUFFICES ASSUME EventsInv PROVE EventsTypeOK
    OBVIOUS
  <2>1. dialog.kind \in {"none", "item", "field", "edit"}
    BY DialogKinds DEF EventsInv, DialogInv
  <2>2. QED
    BY <2>1 DEF EventsInv, EventsTypeOK, RuleList, FieldList, TypedRuleName
<1>2. QED
  BY <1>1, EventsInvariant, PTL

(* Every edit of the rule editor - a rule found by its name, a name that   *)
(* arrives half a second later at a row, an item or a field by its number  *)
(* - reaches what the user pointed at, unless he made two rules of one     *)
(* name, two fields had one path element, or what he pointed at was moved  *)
(* or replaced meanwhile.                                                  *)
THEOREM EditsReachCorrect == EventsSpec => []EditsReachTheirTarget
<1>1. EventsInv => EditsReachTheirTarget
  BY DEF EventsInv, EditsReachTheirTarget
<1>2. QED
  BY <1>1, EventsInvariant, PTL
-----------------------------------------------------------------------------
(***************************************************************************)
(* The page that runs a transformation (UiDeployment).                     *)
(***************************************************************************)

(* f goes through the first m of the lists, one put after the other. *)
Flattens(f, lists, m) ==
    f = [i \in 1..m |-> IF i = 1 THEN lists[i] ELSE f[i - 1] \o lists[i]]

LEMMA FlattensExists ==
  ASSUME NEW lists, NEW m \in Nat
  PROVE  \E f : Flattens(f, lists, m)
<1> DEFINE T == {k \in Nat : ~ \E f : Flattens(f, lists, k)}
<1> SUFFICES ASSUME T # {} PROVE FALSE
  OBVIOUS
<1>1. PICK k \in T : \A j \in T : k <= j
  BY LeastNumber
<1>2. k # 0
  <2> DEFINE f == [i \in 1..0 |-> lists]
  <2>1. Flattens(f, lists, 0)
    BY DEF Flattens
  <2>2. QED
    BY <2>1
<1>3. k - 1 \in Nat /\ k - 1 \notin T
  BY <1>1, <1>2
<1>4. PICK g : Flattens(g, lists, k - 1)
  BY <1>3
<1> DEFINE last == IF k = 1 THEN lists[k] ELSE g[k - 1] \o lists[k]
           f == [i \in 1..k |-> IF i = k THEN last ELSE g[i]]
<1>5. \A i \in 1..(k - 1) : f[i] = g[i]
  BY <1>3
<1>6. ASSUME NEW i \in 1..k PROVE f[i] = IF i = 1 THEN lists[i] ELSE f[i - 1] \o lists[i]
  <2>1. CASE i = k
    <3>1. k # 1 => k - 1 \in 1..(k - 1)
      BY <1>2, <1>3
    <3>2. QED
      BY <1>5, <2>1, <3>1
  <2>2. CASE i # k
    <3>1. i \in 1..(k - 1) /\ (i # 1 => i - 1 \in 1..(k - 1))
      BY <1>3, <2>2
    <3>2. g[i] = IF i = 1 THEN lists[i] ELSE g[i - 1] \o lists[i]
      BY <1>4, <3>1 DEF Flattens
    <3>3. QED
      BY <1>5, <3>1, <3>2
  <2>3. QED
    BY <2>1, <2>2
<1>7. f = [i \in 1..k |-> f[i]]
  OBVIOUS
<1> HIDE DEF f, last
<1>8. Flattens(f, lists, k)
  BY <1>6, <1>7 DEF Flattens
<1>9. QED
  BY <1>1, <1>8

(* Lists of elements put one after the other are a list of elements, and,  *)
(* when all but the first are empty, the first one.                        *)
LEMMA FlattenedIs ==
  ASSUME NEW X, NEW lists, NEW n \in Nat, n > 0, Len(lists) = n,
         \A i \in 1..n : lists[i] \in Seq(X)
  PROVE  /\ FlattenSeq(lists) \in Seq(X)
         /\ (\A i \in 2..n : lists[i] = <<>>) => FlattenSeq(lists) = lists[1]
<1> DEFINE f == CHOOSE f : Flattens(f, lists, n)
<1>1. Flattens(f, lists, n)
  BY FlattensExists
<1>2. FlattenSeq(lists) = f[n]
  BY DEF FlattenSeq, Flattens
<1> HIDE DEF f
<1>3. \A i \in 1..n : f[i] = IF i = 1 THEN lists[i] ELSE f[i - 1] \o lists[i]
  BY <1>1 DEF Flattens
<1>4. \A i \in 1..n : f[i] \in Seq(X)
  <2> DEFINE T == {i \in 1..n : f[i] \notin Seq(X)}
  <2> SUFFICES ASSUME T # {} PROVE FALSE
    OBVIOUS
  <2>1. PICK i \in T : \A j \in T : i <= j
    <3>1. T \subseteq Nat
      OBVIOUS
    <3> HIDE DEF T
    <3>2. QED
      BY <3>1, LeastNumber
  <2>2. i # 1 => i - 1 \in 1..n /\ i - 1 \notin T
    BY <2>1
  <2>3. i # 1 => f[i - 1] \o lists[i] \in Seq(X)
    BY <2>1, <2>2, ConcatProperties
  <2>4. QED
    BY <1>3, <2>1, <2>3
<1>5. ASSUME \A i \in 2..n : lists[i] = <<>> PROVE \A i \in 1..n : f[i] = lists[1]
  <2> DEFINE T == {i \in 1..n : f[i] # lists[1]}
  <2> SUFFICES ASSUME T # {} PROVE FALSE
    OBVIOUS
  <2>1. PICK i \in T : \A j \in T : i <= j
    <3>1. T \subseteq Nat
      OBVIOUS
    <3> HIDE DEF T
    <3>2. QED
      BY <3>1, LeastNumber
  <2>2. i # 1 /\ i - 1 \in 1..n /\ i - 1 \notin T /\ i \in 2..n
    BY <1>3, <2>1
  <2>3. lists[1] \o <<>> = lists[1]
    BY ConcatEmptySeq
  <2>4. QED
    BY <1>3, <1>5, <2>1, <2>2, <2>3
<1>6. QED
  BY <1>2, <1>4, <1>5

(* While the rows are those of the selected deployment, no two have one    *)
(* key, and the counter is beyond the keys.                                *)
RowsAreApart(table, d, c) ==
    /\ \A i \in DOMAIN table : table[i].of = d /\ table[i].key <= c + 1
    /\ \A i, j \in DOMAIN table : table[i].key = table[j].key => i = j

DeploymentInv ==
    /\ DeploymentTypeOK
    /\ ~listed => ~mixed
    /\ amiss => mixed
    /\ ~mixed => RowsAreApart(data, selected, counter)

LEMMA DeploymentInvInit == DeploymentInit => DeploymentInv
<1> SUFFICES ASSUME DeploymentInit PROVE DeploymentInv
  OBVIOUS
<1>1. \A s \in Sequences(Value, MaxStored) : s \in Seq(Parameter)
  <2> SUFFICES ASSUME NEW k \in 0..MaxStored, NEW s \in [1..k -> Value] PROVE s \in Seq(Parameter)
    BY DEF Sequences
  <2>1. k \in Nat /\ s \in Seq(Value)
    BY DeploymentAssumption
  <2>2. QED
    BY <2>1 DEF Parameter
<1>2. kept \in [Deployment -> Seq(Parameter)]
  BY <1>1 DEF DeploymentInit
<1>3. Cardinality({}) = 0
  BY FS_EmptySet
<1>4. data = <<>> /\ data \in Seq(DeploymentRow)
  BY DEF DeploymentInit
<1>5. DeploymentTypeOK
  <2>1. edited \in SUBSET Nat /\ Cardinality(edited) <= 1
    BY <1>3 DEF DeploymentInit
  <2>2. {listed, amiss, mixed} \subseteq BOOLEAN
    BY DEF DeploymentInit
  <2>3. selected \in Deployment /\ counter \in Nat
    BY DEF DeploymentInit
  <2>4. QED
    BY <1>2, <1>4, <2>1, <2>2, <2>3 DEF DeploymentTypeOK
<1>6. RowsAreApart(data, selected, counter)
  BY <1>4 DEF RowsAreApart
<1>7. QED
  BY <1>4, <1>5, <1>6 DEF DeploymentInit, DeploymentInv

(* The rows of a deployment, as they are listed. *)
ListedRows(d) == [i \in DOMAIN kept[d] |-> [of |-> d, key |-> i - 1, value |-> kept[d][i]]]

LEMMA ListedRowsType ==
  ASSUME DeploymentTypeOK, NEW d \in Deployment
  PROVE  /\ ListedRows(d) \in Seq(DeploymentRow) /\ Len(ListedRows(d)) = Len(kept[d])
         /\ \A i \in 1..Len(kept[d]) : ListedRows(d)[i].of = d /\ ListedRows(d)[i].key = i - 1
         /\ kept[d] = <<>> => ListedRows(d) = <<>>
<1>1. kept[d] \in Seq(Parameter) /\ Len(kept[d]) \in Nat /\ DOMAIN kept[d] = 1..Len(kept[d])
  BY DEF DeploymentTypeOK
<1>2. \A i \in 1..Len(kept[d]) :
         [of |-> d, key |-> i - 1, value |-> kept[d][i]] \in DeploymentRow
  BY <1>1 DEF DeploymentRow
<1>3. QED
  BY <1>1, <1>2 DEF ListedRows

LEMMA DeploymentsListedKeeps ==
  ASSUME DeploymentInv, NEW order \in SetToSeqs(Deployment), DeploymentsListed(order)
  PROVE  DeploymentInv'
<1> DEFINE lists == [i \in DOMAIN order |-> ListedRows(order[i])]
           first == order[1]
<1>1. /\ DeploymentTypeOK /\ ~listed /\ ~amiss /\ Count \in Nat
  BY DeploymentAssumption, FS_CardinalityType DEF DeploymentInv, DeploymentsListed, Count
<1>2. /\ order \in [1..Count -> Deployment] /\ Count > 0
      /\ \A i, j \in 1..Count : i # j => order[i] # order[j]
  <2>1. Deployment # {}
    BY <1>1 DEF DeploymentTypeOK
  <2>2. Count # 0
    BY <2>1, DeploymentAssumption, FS_EmptySet DEF Count
  <2>3. QED
    BY <1>1, <2>2 DEF SetToSeqs, Count
<1>3. /\ lists = [i \in 1..Count |-> ListedRows(order[i])] /\ Len(lists) = Count
      /\ \A i \in 1..Count : lists[i] \in Seq(DeploymentRow)
  BY <1>1, <1>2, ListedRowsType
<1>4. first \in Deployment /\ 1 \in 1..Count /\ lists[1] = ListedRows(first)
  BY <1>1, <1>2, <1>3
<1>5. /\ data' = FlattenSeq(lists) /\ selected' = first /\ counter' = Count /\ listed' = TRUE
      /\ UNCHANGED <<kept, edited, amiss>>
      /\ mixed' = \/ ~ {d \in Deployment : kept[d] # <<>>} \subseteq {first}
                  \/ \E d \in {d \in Deployment : kept[d] # <<>>} : Len(kept[d]) > Count + 2
  BY DEF DeploymentsListed, ListedRows
<1> HIDE DEF lists, first
<1>6. /\ FlattenSeq(lists) \in Seq(DeploymentRow)
      /\ (\A i \in 2..Count : lists[i] = <<>>) => FlattenSeq(lists) = lists[1]
  <2>1. Count \in Nat /\ Count > 0
    BY <1>1, <1>2
  <2>2. QED
    BY ONLY <1>3, <2>1, FlattenedIs
<1>7. DeploymentTypeOK'
  BY <1>1, <1>4, <1>5, <1>6 DEF DeploymentTypeOK
<1>8. ASSUME ~mixed' PROVE RowsAreApart(data', first, Count)
  <2>1. \A d \in Deployment : d # first => kept[d] = <<>>
    BY <1>5, <1>8
  <2>2. Len(kept[first]) <= Count + 2
    <3>1. Len(kept[first]) \in Nat
      BY <1>1, <1>4 DEF DeploymentTypeOK
    <3>2. CASE kept[first] = <<>>
      BY <1>1, <3>2
    <3>3. CASE kept[first] # <<>>
      BY <1>1, <1>4, <1>5, <1>8, <3>1, <3>3
    <3>4. QED
      BY <3>2, <3>3
  <2>3. ASSUME NEW i \in 2..Count PROVE lists[i] = <<>>
    <3>1. i \in 1..Count /\ i # 1 /\ order[i] \in Deployment
      BY <1>1, <1>2
    <3>2. order[i] # first
      BY <1>2, <1>4, <3>1 DEF first
    <3>3. QED
      BY <1>1, <1>3, <2>1, <3>1, <3>2, ListedRowsType
  <2>4. data' = ListedRows(first)
    BY <1>4, <1>5, <1>6, <2>3
  <2>5. /\ Len(kept[first]) \in Nat /\ DOMAIN data' = 1..Len(kept[first])
        /\ \A i \in 1..Len(kept[first]) : data'[i].of = first /\ data'[i].key = i - 1
    BY <1>1, <1>4, <2>4, ListedRowsType DEF DeploymentTypeOK
  <2>6. \A i \in 1..Len(kept[first]) : i - 1 <= Count + 1
    BY <1>1, <2>2, <2>5
  <2>7. \A i, j \in 1..Len(kept[first]) : i - 1 = j - 1 => i = j
    BY <2>5
  <2>8. QED
    BY <2>5, <2>6, <2>7 DEF RowsAreApart
<1>9. QED
  BY <1>1, <1>5, <1>7, <1>8 DEF DeploymentInv

LEMMA SelectDeploymentKeeps ==
  ASSUME DeploymentInv, NEW d \in Deployment, SelectDeployment(d) PROVE DeploymentInv'
<1>1. data = <<>> => RowsAreApart(data, d, counter)
  BY DEF RowsAreApart
<1>2. QED
  BY <1>1 DEF DeploymentInv, SelectDeployment, DeploymentTypeOK

LEMMA RowTypes ==
  ASSUME DeploymentTypeOK
  PROVE  /\ data \in Seq(DeploymentRow) /\ Len(data) \in Nat /\ DOMAIN data = 1..Len(data)
         /\ \A i \in DOMAIN data : /\ data[i] \in DeploymentRow
                                 /\ data[i].of \in Deployment /\ data[i].key \in Nat
                                 /\ data[i].value \in Parameter
<1>1. data \in Seq(DeploymentRow)
  BY DEF DeploymentTypeOK
<1>2. /\ Len(data) \in Nat /\ DOMAIN data = 1..Len(data)
      /\ \A i \in DOMAIN data : data[i] \in DeploymentRow
  BY <1>1
<1>3. \A row \in DeploymentRow : row.of \in Deployment /\ row.key \in Nat /\ row.value \in Parameter
  BY DEF DeploymentRow
<1>4. QED
  BY <1>1, <1>2, <1>3

LEMMA AddNewParameterKeeps == ASSUME DeploymentInv, AddNewParameter PROVE DeploymentInv'
<1> DEFINE row == [of |-> selected, key |-> counter + 2, value |-> NewValue]
<1>1. /\ DeploymentTypeOK /\ counter \in Nat /\ selected \in Deployment /\ data \in Seq(DeploymentRow)
      /\ Len(data) \in Nat
  BY DEF DeploymentInv, DeploymentTypeOK
<1>2. row \in DeploymentRow /\ row.of = selected /\ row.key = counter + 2
  BY <1>1 DEF DeploymentRow, Parameter
<1>3. /\ data' = Append(data, row) /\ counter' = counter + 2
      /\ UNCHANGED <<kept, listed, selected, edited, amiss, mixed>>
  BY DEF AddNewParameter
<1> HIDE DEF row
<1>4. DeploymentTypeOK'
  BY <1>1, <1>2, <1>3 DEF DeploymentTypeOK
<1>5. ASSUME ~mixed PROVE RowsAreApart(data', selected, counter + 2)
  <2>1. RowsAreApart(data, selected, counter)
    BY <1>5 DEF DeploymentInv
  <2>2. DOMAIN data' = 1..(Len(data) + 1) /\ data'[Len(data) + 1] = row
        /\ \A i \in 1..Len(data) : data'[i] = data[i] /\ data[i].key \in Nat
    BY <1>1, <1>2, <1>3, RowTypes
  <2>3. \A i \in 1..Len(data) : data'[i].of = selected /\ data'[i].key \in Nat /\ data'[i].key < counter + 2
    BY <1>1, <2>1, <2>2 DEF RowsAreApart
  <2>4. \A i \in 1..(Len(data) + 1) : i \in 1..Len(data) \/ i = Len(data) + 1
    BY <1>1
  <2>5. \A i \in DOMAIN data' : data'[i].of = selected /\ data'[i].key <= counter + 2 + 1
    BY <1>1, <1>2, <2>2, <2>3, <2>4
  <2>6. ASSUME NEW i \in DOMAIN data', NEW j \in DOMAIN data', data'[i].key = data'[j].key PROVE i = j
    <3>1. CASE i \in 1..Len(data) /\ j \in 1..Len(data)
      BY <1>1, <2>1, <2>2, <2>6, <3>1 DEF RowsAreApart
    <3>2. CASE i = Len(data) + 1 /\ j \in 1..Len(data)
      BY <1>1, <1>2, <2>2, <2>3, <2>6, <3>2
    <3>3. CASE j = Len(data) + 1 /\ i \in 1..Len(data)
      BY <1>1, <1>2, <2>2, <2>3, <2>6, <3>3
    <3>4. QED
      BY <2>2, <2>4, <3>1, <3>2, <3>3
  <2>7. QED
    BY <2>5, <2>6 DEF RowsAreApart
<1>6. QED
  BY <1>3, <1>4, <1>5 DEF DeploymentInv

LEMMA EditParameterKeeps ==
  ASSUME DeploymentInv, NEW i \in DOMAIN data, EditParameter(i) PROVE DeploymentInv'
<1>1. data[i].key \in Nat
  BY RowTypes DEF DeploymentInv
<1>2. Cardinality({data[i].key}) = 1
  BY FS_Singleton
<1>3. QED
  BY <1>1, <1>2 DEF DeploymentInv, EditParameter, DeploymentTypeOK

LEMMA CancelKeeps == ASSUME DeploymentInv, Cancel PROVE DeploymentInv'
<1>1. Cardinality({}) = 0
  BY FS_EmptySet
<1>2. QED
  BY <1>1 DEF DeploymentInv, Cancel, DeploymentTypeOK

LEMMA ApplyKeeps ==
  ASSUME DeploymentInv, NEW i \in DOMAIN data, NEW value \in Value, Apply(i, value)
  PROVE  DeploymentInv'
<1> DEFINE IsFirst(j) == /\ data[j].key = data[i].key
                         /\ \A k \in 1..(j - 1) : data[k].key # data[i].key
           first == CHOOSE j \in DOMAIN data : IsFirst(j)
<1>1. DeploymentTypeOK /\ data \in Seq(DeploymentRow) /\ Len(data) \in Nat /\ i \in 1..Len(data)
      /\ Cardinality({}) = 0
  BY FS_EmptySet DEF DeploymentInv, DeploymentTypeOK
<1>2. /\ data' = [data EXCEPT ![first].value = value] /\ edited' = {}
      /\ amiss' = (amiss \/ first # i)
      /\ UNCHANGED <<kept, listed, selected, counter, mixed>>
  BY DEF Apply
<1>3. first \in DOMAIN data /\ data[first].key = data[i].key
  <2> DEFINE T == {j \in DOMAIN data : data[j].key = data[i].key}
  <2>1. T \subseteq Nat /\ i \in T
    BY <1>1
  <2>2. PICK j \in T : \A k \in T : j <= k
    <3> HIDE DEF T
    <3>1. QED
      BY <2>1, LeastNumber
  <2>3. IsFirst(j)
    <3> SUFFICES ASSUME NEW k \in 1..(j - 1) PROVE data[k].key # data[i].key
      BY <2>2
    <3>1. k \in DOMAIN data /\ ~(j <= k)
      BY <1>1, <2>2
    <3>2. QED
      BY <2>2, <3>1
  <2> HIDE DEF IsFirst
  <2>4. IsFirst(first)
    BY <2>2, <2>3
  <2>5. first \in DOMAIN data
    BY <2>2, <2>3
  <2>6. QED
    BY <2>4, <2>5 DEF IsFirst
<1> HIDE DEF first
<1>4. /\ data' \in Seq(DeploymentRow) /\ Len(data') = Len(data) /\ DOMAIN data' = DOMAIN data
      /\ \A j \in DOMAIN data : data'[j].of = data[j].of /\ data'[j].key = data[j].key
  <2>0. \A row \in DeploymentRow : [row EXCEPT !.value = value] \in DeploymentRow
    BY DEF DeploymentRow, Parameter
  <2>1. \A j \in DOMAIN data : data[j] \in DeploymentRow /\ [data[j] EXCEPT !.value = value] \in DeploymentRow
    BY <1>1, <2>0, RowTypes
  <2>2. data' = [j \in DOMAIN data |-> IF j = first THEN [data[j] EXCEPT !.value = value] ELSE data[j]]
    BY <1>2, <1>3
  <2>3. QED
    BY <1>1, <2>1, <2>2 DEF DeploymentRow
<1>5. DeploymentTypeOK'
  BY <1>1, <1>2, <1>4 DEF DeploymentTypeOK
<1>6. ASSUME ~mixed PROVE first = i /\ RowsAreApart(data', selected, counter)
  <2>1. RowsAreApart(data, selected, counter)
    BY <1>6 DEF DeploymentInv
  <2>2. QED
    BY <1>1, <1>3, <1>4, <2>1 DEF RowsAreApart
<1>7. data # <<>>
  BY <1>1
<1>8. QED
  BY <1>2, <1>5, <1>6, <1>7 DEF DeploymentInv

LEMMA DeleteParameterKeeps ==
  ASSUME DeploymentInv, NEW i \in DOMAIN data, DeleteParameter(i) PROVE DeploymentInv'
<1> DEFINE others == {j \in DOMAIN data : data[j].key # data[i].key}
           order == InOrder(others)
<1>1. DeploymentTypeOK /\ data \in Seq(DeploymentRow) /\ Len(data) \in Nat /\ data # <<>>
  BY DEF DeploymentInv, DeploymentTypeOK
<1>2. /\ data' = Kept(data, others) /\ amiss' = (amiss \/ others # DOMAIN data \ {i})
      /\ UNCHANGED <<kept, listed, selected, edited, counter, mixed>>
  BY DEF DeleteParameter
<1>3. others \subseteq DOMAIN data
  OBVIOUS
<1> HIDE DEF others
<1>4. /\ data' \in Seq(DeploymentRow) /\ DOMAIN data' = DOMAIN order
      /\ \A n \in DOMAIN data' : order[n] \in others /\ data'[n] = data[order[n]]
      /\ \A m, n \in DOMAIN data' : m # n => order[m] # order[n]
  BY <1>1, <1>2, <1>3, KeptIs
<1> HIDE DEF order
<1>5. DeploymentTypeOK'
  BY <1>1, <1>2, <1>4 DEF DeploymentTypeOK
<1>6. ASSUME ~mixed PROVE others = DOMAIN data \ {i} /\ RowsAreApart(data', selected, counter)
  <2>1. RowsAreApart(data, selected, counter)
    BY <1>6 DEF DeploymentInv
  <2>2. others = DOMAIN data \ {i}
    BY <2>1 DEF RowsAreApart, others
  <2>3. QED
    BY <1>3, <1>4, <2>1, <2>2 DEF RowsAreApart
<1>7. QED
  BY <1>1, <1>2, <1>5, <1>6 DEF DeploymentInv

LEMMA SaveParametersKeeps == ASSUME DeploymentInv, SaveParameters PROVE DeploymentInv'
<1>1. data \in Seq(DeploymentRow) /\ Len(data) \in Nat /\ selected \in Deployment
  BY DEF DeploymentInv, DeploymentTypeOK
<1>2. [i \in DOMAIN data |-> data[i].value] \in Seq(Parameter)
  BY <1>1, RowTypes DEF DeploymentInv
<1>3. kept' \in [Deployment -> Seq(Parameter)]
  BY <1>1, <1>2 DEF SaveParameters, DeploymentInv, DeploymentTypeOK
<1>4. ~mixed => ~Foreign
  BY <1>1 DEF DeploymentInv, RowsAreApart, Foreign
<1>5. QED
  BY <1>3, <1>4 DEF DeploymentInv, SaveParameters, DeploymentTypeOK, Foreign

LEMMA RunTransformationKeeps == ASSUME DeploymentInv, RunTransformation PROVE DeploymentInv'
<1>1. ~mixed => ~Foreign
  BY DEF DeploymentInv, RowsAreApart, Foreign
<1>2. QED
  BY <1>1 DEF DeploymentInv, RunTransformation, DeploymentTypeOK, Foreign

LEMMA DeploymentInvNext == DeploymentInv /\ [DeploymentNext]_deploymentVars => DeploymentInv'
<1> SUFFICES ASSUME DeploymentInv, [DeploymentNext]_deploymentVars PROVE DeploymentInv'
  OBVIOUS
<1>1. CASE UNCHANGED deploymentVars
  BY <1>1 DEF DeploymentInv, deploymentVars, DeploymentTypeOK
<1>2. CASE DeploymentNext
  BY <1>2, DeploymentsListedKeeps, SelectDeploymentKeeps, AddNewParameterKeeps, EditParameterKeeps,
     CancelKeeps, ApplyKeeps, DeleteParameterKeeps, SaveParametersKeeps, RunTransformationKeeps
     DEF DeploymentNext
<1>3. QED
  BY <1>1, <1>2

THEOREM DeploymentInvariant == DeploymentSpec => []DeploymentInv
  BY DeploymentInvInit, DeploymentInvNext, PTL DEF DeploymentSpec

(* The deployments, the table and the counter keep their types, and one    *)
(* row at most is edited.                                                  *)
THEOREM DeploymentTypeCorrect == DeploymentSpec => []DeploymentTypeOK
<1>1. DeploymentInv => DeploymentTypeOK
  BY DEF DeploymentInv
<1>2. QED
  BY <1>1, DeploymentInvariant, PTL

(* Whatever is added, edited, deleted, saved and run, the parameters that  *)
(* the user means are those that change, unless rows of several            *)
(* deployments or more rows than the keys allow came together.             *)
THEOREM ParametersStayCorrect == DeploymentSpec => []ParametersStayInPlace
<1>1. DeploymentInv => ParametersStayInPlace
  BY DEF DeploymentInv, ParametersStayInPlace
<1>2. QED
  BY <1>1, DeploymentInvariant, PTL

-----------------------------------------------------------------------------
(***************************************************************************)
(* The grid of a data set's columns (UiStructure).                         *)
(***************************************************************************)

LEMMA PrefixIs ==
  ASSUME NEW s \in Seq(Nat), NEW t \in Seq(Nat)
  PROVE  IsPrefix(s, t) <=> Len(s) <= Len(t) /\ \A i \in 1..Len(s) : s[i] = t[i]
<1>1. Len(s) \in Nat /\ Len(t) \in Nat
  OBVIOUS
<1>2. ASSUME Len(s) <= Len(t)
      PROVE  SubSeq(s, 1, Len(s)) = SubSeq(t, 1, Len(s)) <=> \A i \in 1..Len(s) : s[i] = t[i]
  <2>1. /\ SubSeq(s, 1, Len(s)) = [i \in 1..Len(s) |-> s[i]]
        /\ SubSeq(t, 1, Len(s)) = [i \in 1..Len(s) |-> t[i]]
    BY <1>1, <1>2
  <2>2. QED
    BY <2>1
<1>3. QED
  BY <1>2 DEF IsPrefix

(* Names: what begins with a name that has one more number at its end, and *)
(* what such a name begins with.                                           *)
LEMMA Longer ==
  ASSUME NEW s \in TypedName, NEW k \in Nat
  PROVE  /\ Append(s, k) \in TypedName /\ Append(s, k)[1] = s[1] /\ Len(Append(s, k)) = Len(s) + 1
         /\ Len(s) \in Nat \ {0} /\ s[1] \in Nat
         /\ \A i \in 1..Len(s) : Append(s, k)[i] = s[i]
         /\ Append(s, k)[Len(s) + 1] = k
<1>1. s \in Seq(Nat) /\ s # <<>>
  BY DEF TypedName
<1>2. QED
  BY <1>1 DEF TypedName

LEMMA FromOneName ==
  ASSUME NEW s \in TypedName, NEW t \in TypedName, NEW k \in Nat
  PROVE  /\ IsPrefix(s, s)
         /\ IsPrefix(s, t) => s[1] = t[1]
         /\ IsPrefix(Append(s, k), t) => IsPrefix(s, t) /\ s # t
         /\ \A m \in Nat : IsPrefix(Append(s, k), Append(s, m)) => k = m
         /\ IsPrefix(t, Append(s, k)) => IsPrefix(t, s) \/ t = Append(s, k)
         /\ t = Append(s, k) => IsPrefix(s, t)
<1> DEFINE sk == Append(s, k)
<1>1. /\ s \in Seq(Nat) /\ t \in Seq(Nat) /\ sk \in Seq(Nat)
      /\ Len(s) \in Nat \ {0} /\ Len(t) \in Nat \ {0} /\ Len(sk) = Len(s) + 1
      /\ (\A i \in 1..Len(s) : sk[i] = s[i]) /\ sk[Len(s) + 1] = k
      /\ sk \in TypedName
  BY Longer DEF TypedName
<1>2. IsPrefix(s, s)
  BY <1>1, PrefixIs
<1>3. IsPrefix(s, t) => s[1] = t[1]
  BY <1>1, PrefixIs
<1>4. ASSUME NEW m \in Nat, IsPrefix(sk, Append(s, m)) PROVE k = m
  <2>1. Append(s, m) \in Seq(Nat) /\ Append(s, m)[Len(s) + 1] = m
    BY <1>1, Longer DEF TypedName
  <2> DEFINE sm == Append(s, m)
  <2> HIDE DEF sk, sm
  <2>2. IsPrefix(sk, sm) /\ sm \in Seq(Nat) /\ sm[Len(s) + 1] = m
    BY <1>4, <2>1 DEF sk, sm
  <2>3. \A i \in 1..Len(sk) : sk[i] = sm[i]
    BY <1>1, <2>2, PrefixIs
  <2>4. Len(s) + 1 \in 1..Len(sk)
    BY <1>1
  <2>5. QED
    BY <1>1, <2>2, <2>3, <2>4
<1> HIDE DEF sk
<1>5. ASSUME IsPrefix(sk, t) PROVE IsPrefix(s, t) /\ s # t
  <2>1. Len(sk) <= Len(t) /\ \A i \in 1..Len(sk) : sk[i] = t[i]
    BY <1>1, <1>5, PrefixIs
  <2>2. Len(s) <= Len(t) /\ Len(s) # Len(t)
    BY ONLY <1>1, <2>1
  <2>3. \A i \in 1..Len(s) : i \in 1..Len(sk) /\ sk[i] = s[i]
    BY ONLY <1>1
  <2>4. \A i \in 1..Len(s) : s[i] = t[i]
    BY ONLY <2>1, <2>3
  <2>5. QED
    BY ONLY <1>1, <2>2, <2>4, PrefixIs
<1>6. ASSUME IsPrefix(t, sk) PROVE IsPrefix(t, s) \/ t = sk
  <2>1. Len(t) <= Len(sk) /\ \A i \in 1..Len(t) : t[i] = sk[i]
    BY <1>1, <1>6, PrefixIs
  <2>2. CASE Len(t) <= Len(s)
    <3>1. \A i \in 1..Len(t) : t[i] = s[i]
      BY <1>1, <2>1, <2>2
    <3>2. QED
      BY <1>1, <2>2, <3>1, PrefixIs
  <2>3. CASE Len(t) = Len(sk)
    BY <1>1, <2>1, <2>3, SeqEqual
  <2>4. QED
    BY <1>1, <2>1, <2>2, <2>3
<1>7. ASSUME t = sk PROVE IsPrefix(s, t)
  <2>1. Len(s) <= Len(t) /\ \A i \in 1..Len(s) : s[i] = t[i]
    BY ONLY <1>1, <1>7
  <2>2. QED
    BY ONLY <1>1, <2>1, PrefixIs
<1>8. QED
  BY <1>2, <1>3, <1>4, <1>5, <1>6, <1>7 DEF sk

(* The places of a list of columns and the names there. *)
PlacesOf(list) ==
    {<<i>> : i \in DOMAIN list} \cup UNION {{<<i, j>> : j \in DOMAIN list[i].columns} : i \in DOMAIN list}
NameAt(list, p) == IF Len(p) = 1 THEN list[p[1]].name ELSE list[p[1]].columns[p[2]].name
Unambiguous(list) ==
    \A p, q \in PlacesOf(list) : p # q /\ IsPrefix(NameAt(list, p), NameAt(list, q)) =>
        Len(q) = 2 /\ p = <<q[1]>> /\ NameAt(list, q) = Append(NameAt(list, p), q[2])
(* The grid has given n names: newColumn0 is the word 2. *)
NamedUpTo(list, n) == \A p \in PlacesOf(list) : NameAt(list, p)[1] <= n + 1

LEMMA ColumnTypes ==
  ASSUME NEW c \in Column
  PROVE  /\ c.name \in TypedName /\ c.kind \in Kind /\ c.columns \in Seq(Inner)
         /\ Len(c.columns) \in Nat /\ DOMAIN c.columns = 1..Len(c.columns)
         /\ \A j \in DOMAIN c.columns : c.columns[j] \in Inner /\ c.columns[j].name \in TypedName
                                        /\ c.columns[j].kind \in Kind
<1>1. c.name \in TypedName /\ c.kind \in Kind /\ c.columns \in Seq(Inner)
  BY DEF Column
<1>2. \A e \in Inner : e.name \in TypedName /\ e.kind \in Kind
  BY DEF Inner
<1>3. QED
  BY <1>1, <1>2

LEMMA PlacesAre ==
  ASSUME NEW list \in Seq(Column)
  PROVE  /\ \A i \in DOMAIN list : /\ <<i>> \in PlacesOf(list) /\ NameAt(list, <<i>>) = list[i].name
                                   /\ list[i] \in Column
         /\ \A i \in DOMAIN list : \A j \in DOMAIN list[i].columns :
                /\ <<i, j>> \in PlacesOf(list) /\ NameAt(list, <<i, j>>) = list[i].columns[j].name
         /\ \A p \in PlacesOf(list) :
               \/ \E i \in DOMAIN list : p = <<i>> /\ Len(p) = 1 /\ p[1] = i
               \/ \E i \in DOMAIN list : \E j \in DOMAIN list[i].columns :
                     p = <<i, j>> /\ Len(p) = 2 /\ p[1] = i /\ p[2] = j
         /\ \A p \in PlacesOf(list) : NameAt(list, p) \in TypedName
<1>1. \A i \in DOMAIN list : list[i] \in Column
  OBVIOUS
<1>2. \A i \in DOMAIN list : <<i>> \in PlacesOf(list) /\ NameAt(list, <<i>>) = list[i].name
  BY DEF PlacesOf, NameAt
<1>3. \A i \in DOMAIN list : \A j \in DOMAIN list[i].columns :
          <<i, j>> \in PlacesOf(list) /\ NameAt(list, <<i, j>>) = list[i].columns[j].name
  BY DEF PlacesOf, NameAt
<1>4. \A p \in PlacesOf(list) :
        \/ \E i \in DOMAIN list : p = <<i>> /\ Len(p) = 1 /\ p[1] = i
        \/ \E i \in DOMAIN list : \E j \in DOMAIN list[i].columns :
              p = <<i, j>> /\ Len(p) = 2 /\ p[1] = i /\ p[2] = j
  BY DEF PlacesOf
<1>5. ASSUME NEW p \in PlacesOf(list) PROVE NameAt(list, p) \in TypedName
  <2>1. CASE \E i \in DOMAIN list : p = <<i>> /\ Len(p) = 1 /\ p[1] = i
    BY <1>1, <1>2, <2>1, ColumnTypes
  <2>2. CASE \E i \in DOMAIN list : \E j \in DOMAIN list[i].columns :
                p = <<i, j>> /\ Len(p) = 2 /\ p[1] = i /\ p[2] = j
    BY <1>1, <1>3, <2>2, ColumnTypes
  <2>3. QED
    BY <1>4, <2>1, <2>2
<1>6. QED
  BY <1>1, <1>2, <1>3, <1>4, <1>5

LEMMA OwnNames ==
  ASSUME NEW list \in Seq(Column), Unambiguous(list), NEW p \in PlacesOf(list), NEW q \in PlacesOf(list),
         NameAt(list, p) = NameAt(list, q)
  PROVE  p = q
<1>1. NameAt(list, p) \in TypedName /\ Len(NameAt(list, p)) \in Nat
  BY PlacesAre DEF TypedName
<1>2. IsPrefix(NameAt(list, p), NameAt(list, q))
  BY <1>1, FromOneName
<1>3. p # q => /\ NameAt(list, q) = Append(NameAt(list, p), q[2])
               /\ q[2] \in Nat
  BY <1>2, PlacesAre, ColumnTypes DEF Unambiguous
<1>4. QED
  BY <1>1, <1>3, Longer

(* Columns that are left from others, in any number, have their names. *)
LEMMA FewerColumns ==
  ASSUME NEW list \in Seq(Column), NEW less \in Seq(Column), NEW from,
         \A n \in DOMAIN less : /\ from[n] \in DOMAIN list /\ less[n].name = list[from[n]].name
                                /\ DOMAIN less[n].columns \subseteq DOMAIN list[from[n]].columns
                                /\ \A j \in DOMAIN less[n].columns :
                                      less[n].columns[j].name = list[from[n]].columns[j].name,
         \A m, n \in DOMAIN less : m # n => from[m] # from[n]
  PROVE  /\ Unambiguous(list) => Unambiguous(less)
         /\ \A n : NamedUpTo(list, n) => NamedUpTo(less, n)
<1> DEFINE place(p) == IF Len(p) = 1 THEN <<from[p[1]]>> ELSE <<from[p[1]], p[2]>>
<1>1. ASSUME NEW p \in PlacesOf(less)
      PROVE  /\ place(p) \in PlacesOf(list) /\ NameAt(list, place(p)) = NameAt(less, p)
             /\ Len(place(p)) = Len(p) /\ place(p)[1] = from[p[1]] /\ p[1] \in DOMAIN less
             /\ Len(p) = 2 => place(p)[2] = p[2]
             /\ Len(p) = 1 => p = <<p[1]>>
             /\ Len(p) = 2 => p = <<p[1], p[2]>>
             /\ Len(p) \in {1, 2}
  <2>1. CASE \E i \in DOMAIN less : p = <<i>> /\ Len(p) = 1 /\ p[1] = i
    <3>1. PICK i \in DOMAIN less : p = <<i>> /\ Len(p) = 1 /\ p[1] = i
      BY <2>1
    <3>2. /\ NameAt(less, <<i>>) = less[i].name /\ from[i] \in DOMAIN list
          /\ less[i].name = list[from[i]].name
      BY PlacesAre
    <3>3. <<from[i]>> \in PlacesOf(list) /\ NameAt(list, <<from[i]>>) = list[from[i]].name
      BY <3>2, PlacesAre
    <3>4. place(p) = <<from[i]>>
      BY <3>1
    <3> HIDE DEF place
    <3>5. Len(place(p)) = 1 /\ place(p)[1] = from[i]
      BY <3>4
    <3>6. place(p) \in PlacesOf(list) /\ NameAt(list, place(p)) = NameAt(less, p)
      BY <3>1, <3>2, <3>3, <3>4
    <3>7. p = <<p[1]>>
      BY <3>1
    <3>8. QED
      BY <3>1, <3>5, <3>6, <3>7
  <2>2. CASE \E i \in DOMAIN less : \E j \in DOMAIN less[i].columns :
                p = <<i, j>> /\ Len(p) = 2 /\ p[1] = i /\ p[2] = j
    <3>1. PICK i \in DOMAIN less : \E j \in DOMAIN less[i].columns :
                p = <<i, j>> /\ Len(p) = 2 /\ p[1] = i /\ p[2] = j
      BY <2>2
    <3>2. PICK j \in DOMAIN less[i].columns : p = <<i, j>> /\ Len(p) = 2 /\ p[1] = i /\ p[2] = j
      BY <3>1
    <3>3. /\ NameAt(less, <<i, j>>) = less[i].columns[j].name
          /\ <<from[i], j>> \in PlacesOf(list)
          /\ NameAt(list, <<from[i], j>>) = list[from[i]].columns[j].name
          /\ less[i].columns[j].name = list[from[i]].columns[j].name
      BY PlacesAre
    <3>4. place(p) = <<from[i], j>>
      BY <3>2
    <3> HIDE DEF place
    <3>5. Len(place(p)) = 2 /\ place(p)[1] = from[i] /\ place(p)[2] = j
      BY <3>4
    <3>6. p[1] = i /\ p[2] = j /\ Len(p) = 2 /\ p = <<i, j>>
      BY <3>2
    <3>7. place(p) \in PlacesOf(list) /\ NameAt(list, place(p)) = NameAt(less, p)
      BY <3>2, <3>3, <3>4
    <3>8. p = <<p[1], p[2]>>
      BY <3>6
    <3>9. QED
      BY <3>5, <3>6, <3>7, <3>8
  <2>3. QED
    BY <2>1, <2>2, PlacesAre
<1> HIDE DEF place
<1>2. ASSUME NEW p \in PlacesOf(less), NEW q \in PlacesOf(less), p # q PROVE place(p) # place(q)
  <2> SUFFICES ASSUME place(p) = place(q) PROVE p = q
    BY <1>2
  <2>1. Len(p) = Len(q) /\ p[1] = q[1] /\ (Len(p) = 2 => p[2] = q[2])
    BY <1>1
  <2>2. CASE Len(p) = 1
    <3>1. p = <<p[1]>> /\ q = <<q[1]>>
      BY <1>1, <2>1, <2>2
    <3>2. QED
      BY <2>1, <3>1
  <2>3. CASE Len(p) = 2
    <3>1. p = <<p[1], p[2]>> /\ q = <<q[1], q[2]>>
      BY <1>1, <2>1, <2>3
    <3>2. QED
      BY <2>1, <2>3, <3>1
  <2>4. QED
    BY <1>1, <2>2, <2>3
<1>3. ASSUME Unambiguous(list) PROVE Unambiguous(less)
  <2> SUFFICES ASSUME NEW p \in PlacesOf(less), NEW q \in PlacesOf(less), p # q,
                      IsPrefix(NameAt(less, p), NameAt(less, q))
               PROVE  Len(q) = 2 /\ p = <<q[1]>> /\ NameAt(less, q) = Append(NameAt(less, p), q[2])
    BY DEF Unambiguous
  <2>1. place(p) # place(q) /\ IsPrefix(NameAt(list, place(p)), NameAt(list, place(q)))
    BY <1>1, <1>2
  <2>2. /\ Len(place(q)) = 2 /\ place(p) = <<place(q)[1]>>
        /\ NameAt(list, place(q)) = Append(NameAt(list, place(p)), place(q)[2])
    BY <1>1, <1>3, <2>1 DEF Unambiguous
  <2>3. Len(place(p)) = 1 /\ place(p)[1] = place(q)[1]
    BY <2>2
  <2>4. Len(p) = 1 /\ Len(q) = 2 /\ from[p[1]] = from[q[1]] /\ p[1] \in DOMAIN less /\ q[1] \in DOMAIN less
        /\ place(q)[2] = q[2] /\ p = <<p[1]>>
    BY <1>1, <2>2, <2>3
  <2>5. p[1] = q[1]
    BY <2>4
  <2>6. QED
    BY <1>1, <2>2, <2>4, <2>5
<1>4. ASSUME NEW n, NamedUpTo(list, n) PROVE NamedUpTo(less, n)
  BY <1>1, <1>4 DEF NamedUpTo
<1>5. QED
  BY <1>3, <1>4

(* A name the grid gives, at the new end of the columns. *)
LEMMA OneColumnMore ==
  ASSUME NEW list \in Seq(Column), NEW c \in Column, c.columns = <<>>,
         NEW n \in Nat, c.name = <<n + 2>>, Unambiguous(list), NamedUpTo(list, n)
  PROVE  Unambiguous(Append(list, c)) /\ NamedUpTo(Append(list, c), n + 1)
<1> DEFINE more == Append(list, c)
           new == <<Len(list) + 1>>
<1>1. /\ Len(list) \in Nat /\ more \in Seq(Column) /\ DOMAIN more = 1..(Len(list) + 1)
      /\ DOMAIN list = 1..Len(list)
      /\ more[Len(list) + 1] = c /\ \A i \in DOMAIN list : more[i] = list[i]
  OBVIOUS
<1> HIDE DEF more
<1>2. NameAt(more, new) = <<n + 2>> /\ new[1] = Len(list) + 1
  BY <1>1 DEF NameAt
<1>3. ASSUME NEW p \in PlacesOf(more), p # new
      PROVE  p \in PlacesOf(list) /\ NameAt(more, p) = NameAt(list, p)
  <2>1. CASE \E i \in DOMAIN more : p = <<i>> /\ Len(p) = 1 /\ p[1] = i
    <3>1. PICK i \in DOMAIN more : p = <<i>>
      BY <2>1
    <3>2. i \in DOMAIN list
      BY <1>1, <1>3, <3>1
    <3>3. QED
      BY <1>1, <3>1, <3>2, PlacesAre
  <2>2. CASE \E i \in DOMAIN more : \E j \in DOMAIN more[i].columns :
                p = <<i, j>> /\ Len(p) = 2 /\ p[1] = i /\ p[2] = j
    <3>1. PICK i \in DOMAIN more : \E j \in DOMAIN more[i].columns : p = <<i, j>>
      BY <2>2
    <3>2. PICK j \in DOMAIN more[i].columns : p = <<i, j>>
      BY <3>1
    <3>3. i # Len(list) + 1
      BY <1>1
    <3>4. i \in DOMAIN list /\ j \in DOMAIN list[i].columns
      BY <1>1, <3>3
    <3>5. <<i, j>> \in PlacesOf(list) /\ NameAt(list, <<i, j>>) = list[i].columns[j].name
      BY <3>4, PlacesAre
    <3>6. NameAt(more, <<i, j>>) = more[i].columns[j].name
      BY <1>1, PlacesAre
    <3>7. QED
      BY <1>1, <3>2, <3>4, <3>5, <3>6
  <2>3. QED
    BY <1>1, <2>1, <2>2, PlacesAre
<1>4. ASSUME NEW p \in PlacesOf(list)
      PROVE  NameAt(list, p) \in TypedName /\ NameAt(list, p)[1] \in Nat /\ NameAt(list, p)[1] <= n + 1
  <2>1. NameAt(list, p) \in TypedName /\ NameAt(list, p)[1] <= n + 1
    BY PlacesAre DEF NamedUpTo
  <2>2. QED
    BY <2>1, Longer
<1>5. <<n + 2>> \in TypedName /\ <<n + 2>>[1] = n + 2
  BY DEF TypedName
<1>6. \A p \in PlacesOf(list) : ~ IsPrefix(NameAt(list, p), <<n + 2>>) /\ ~ IsPrefix(<<n + 2>>, NameAt(list, p))
  <2> TAKE p \in PlacesOf(list)
  <2>1. NameAt(list, p)[1] # n + 2
    BY <1>4
  <2>2. PICK s : s = <<n + 2>>
    OBVIOUS
  <2>3. ~ IsPrefix(NameAt(list, p), s) /\ ~ IsPrefix(s, NameAt(list, p))
    BY <1>4, <1>5, <2>1, <2>2, FromOneName
  <2>4. QED
    BY <2>2, <2>3
<1>7. Unambiguous(more)
  <2> SUFFICES ASSUME NEW p \in PlacesOf(more), NEW q \in PlacesOf(more), p # q,
                      IsPrefix(NameAt(more, p), NameAt(more, q))
               PROVE  Len(q) = 2 /\ p = <<q[1]>> /\ NameAt(more, q) = Append(NameAt(more, p), q[2])
    BY DEF Unambiguous
  <2>1. p # new /\ q # new
    BY <1>2, <1>3, <1>6
  <2>2. QED
    BY <1>3, <2>1 DEF Unambiguous
<1>8. NamedUpTo(more, n + 1)
  BY <1>2, <1>3, <1>4, <1>5 DEF NamedUpTo
<1>9. QED
  BY <1>7, <1>8 DEF more

(* A name the grid makes from that of a struct, at the new end of its      *)
(* columns.                                                                *)
LEMMA OneInnerMore ==
  ASSUME NEW list \in Seq(Column), NEW i \in DOMAIN list, NEW more \in Seq(Column),
         DOMAIN more = DOMAIN list, NEW e,
         \A m \in DOMAIN list : more[m].name = list[m].name,
         \A m \in DOMAIN list : m # i => more[m].columns = list[m].columns,
         more[i].columns = Append(list[i].columns, e),
         e.name = Append(list[i].name, Len(list[i].columns) + 1),
         Unambiguous(list)
  PROVE  Unambiguous(more) /\ \A n : NamedUpTo(list, n) => NamedUpTo(more, n)
<1> DEFINE l == Len(list[i].columns)
           own == list[i].name
           name == Append(own, l + 1)
           new == <<i, l + 1>>
<1>1. list[i] \in Column /\ own \in TypedName /\ l \in Nat /\ list[i].columns \in Seq(Inner)
  BY ColumnTypes
<1>2. /\ DOMAIN list[i].columns = 1..l /\ DOMAIN more[i].columns = 1..(l + 1)
      /\ more[i].columns[l + 1] = e /\ \A j \in 1..l : more[i].columns[j] = list[i].columns[j]
  BY <1>1
<1>3. /\ name \in TypedName /\ name[1] = own[1] /\ NameAt(more, new) = name
      /\ NameAt(list, <<i>>) = own /\ <<i>> \in PlacesOf(list)
  <2>1. name \in TypedName /\ name[1] = own[1]
    <3>1. own \in TypedName /\ l + 1 \in Nat
      BY <1>1
    <3> HIDE DEF own, l
    <3>2. QED
      BY <3>1, Longer
  <2>2. NameAt(list, <<i>>) = own /\ <<i>> \in PlacesOf(list)
    BY PlacesAre
  <2>3. Len(new) = 2 /\ new[1] = i /\ new[2] = l + 1
    OBVIOUS
  <2> HIDE DEF new
  <2>4. NameAt(more, new) = name
    <3>1. NameAt(more, new) = more[i].columns[l + 1].name
      BY ONLY <2>3 DEF NameAt
    <3>2. more[i].columns[l + 1].name = name
      BY <1>2
    <3>3. QED
      BY ONLY <3>1, <3>2
  <2>5. QED
    BY <2>1, <2>2, <2>4
<1> HIDE DEF name, l, own
<1>4. ASSUME NEW p \in PlacesOf(more), p # new
      PROVE  p \in PlacesOf(list) /\ NameAt(more, p) = NameAt(list, p)
  <2>1. CASE \E m \in DOMAIN more : p = <<m>> /\ Len(p) = 1 /\ p[1] = m
    BY <2>1, PlacesAre
  <2>2. CASE \E m \in DOMAIN more : \E j \in DOMAIN more[m].columns :
                p = <<m, j>> /\ Len(p) = 2 /\ p[1] = m /\ p[2] = j
    <3>1. PICK m \in DOMAIN more : \E j \in DOMAIN more[m].columns : p = <<m, j>>
      BY <2>2
    <3>2. PICK j \in DOMAIN more[m].columns : p = <<m, j>>
      BY <3>1
    <3>3. m = i => j # l + 1
      BY <1>4, <3>2
    <3>4. j \in DOMAIN list[m].columns /\ more[m].columns[j] = list[m].columns[j]
      <4>1. CASE m = i
        <5>1. j \in 1..l
          BY <1>1, <1>2, <3>3, <4>1
        <5>2. QED
          BY <1>2, <4>1, <5>1
      <4>2. CASE m # i
        BY <4>2
      <4>3. QED
        BY <4>1, <4>2
    <3>5. <<m, j>> \in PlacesOf(list) /\ NameAt(list, <<m, j>>) = list[m].columns[j].name
      BY <3>4, PlacesAre
    <3>6. NameAt(more, <<m, j>>) = more[m].columns[j].name
      BY PlacesAre
    <3>7. QED
      BY <3>2, <3>4, <3>5, <3>6
  <2>3. QED
    BY <2>1, <2>2, PlacesAre
<1>5. ASSUME NEW p \in PlacesOf(list), IsPrefix(own, NameAt(list, p)), NameAt(list, p) # own
      PROVE  \E j \in 1..l : NameAt(list, p) = Append(own, j)
  <2>1. p # <<i>>
    BY <1>3, <1>5
  <2>2. Len(p) = 2 /\ <<i>> = <<p[1]>> /\ NameAt(list, p) = Append(own, p[2])
    BY <1>3, <1>5, <2>1 DEF Unambiguous
  <2>3. i = p[1]
    BY <2>2
  <2>4. p[2] \in DOMAIN list[p[1]].columns
    <3>1. \/ \E m \in DOMAIN list : p = <<m>> /\ Len(p) = 1 /\ p[1] = m
          \/ \E m \in DOMAIN list : \E j \in DOMAIN list[m].columns :
                p = <<m, j>> /\ Len(p) = 2 /\ p[1] = m /\ p[2] = j
      BY PlacesAre
    <3>2. QED
      BY <2>2, <3>1
  <2>5. p[2] \in 1..l
    BY <1>2, <2>3, <2>4
  <2>6. QED
    BY <2>2, <2>5
<1>6. ASSUME NEW p \in PlacesOf(list) PROVE ~ IsPrefix(name, NameAt(list, p))
  <2> SUFFICES ASSUME IsPrefix(name, NameAt(list, p)) PROVE FALSE
    OBVIOUS
  <2>1. NameAt(list, p) \in TypedName /\ l + 1 \in Nat
    BY <1>1, PlacesAre
  <2>2. IsPrefix(own, NameAt(list, p)) /\ own # NameAt(list, p)
    BY <1>1, <2>1, FromOneName DEF name
  <2>3. PICK j \in 1..l : NameAt(list, p) = Append(own, j)
    BY <1>5, <2>2
  <2>4. IsPrefix(Append(own, l + 1), Append(own, j))
    BY <2>3 DEF name
  <2>5. l + 1 = j
    BY <1>1, <2>1, <2>4, FromOneName
  <2>6. QED
    BY <1>1, <2>5
<1>7. ASSUME NEW p \in PlacesOf(list), IsPrefix(NameAt(list, p), name) PROVE p = <<i>>
  <2> DEFINE other == NameAt(list, p)
  <2>1. other \in TypedName /\ l + 1 \in Nat
    BY <1>1, PlacesAre
  <2>2. IsPrefix(other, own) \/ other = name
    BY <1>1, <1>7, <2>1, FromOneName DEF name
  <2>3. other # name
    BY <1>3, <1>6, FromOneName
  <2>4. p # <<i>> => Len(<<i>>) = 2
    BY <1>3, <2>2, <2>3 DEF Unambiguous
  <2>5. QED
    BY <2>4
<1>8. Unambiguous(more)
  <2> SUFFICES ASSUME NEW p \in PlacesOf(more), NEW q \in PlacesOf(more), p # q,
                      IsPrefix(NameAt(more, p), NameAt(more, q))
               PROVE  Len(q) = 2 /\ p = <<q[1]>> /\ NameAt(more, q) = Append(NameAt(more, p), q[2])
    BY DEF Unambiguous
  <2>1. p # new
    BY <1>3, <1>4, <1>6
  <2>2. CASE q = new
    <3>1. p = <<i>> /\ NameAt(more, p) = own
      BY <1>3, <1>4, <1>7, <2>1, <2>2
    <3>2. q[1] = i /\ q[2] = l + 1 /\ Len(q) = 2
      BY <2>2
    <3>3. QED
      BY <1>3, <2>2, <3>1, <3>2 DEF name
  <2>3. CASE q # new
    BY <1>4, <2>1, <2>3 DEF Unambiguous
  <2>4. QED
    BY <2>2, <2>3
<1>9. ASSUME NEW n, NamedUpTo(list, n) PROVE NamedUpTo(more, n)
  BY <1>3, <1>4, <1>9 DEF NamedUpTo
<1>10. QED
  BY <1>8, <1>9

(* Another name at one place, that none of the other names begins with and *)
(* that does not begin with one of them.                                   *)
LEMMA OneNameChanged ==
  ASSUME NEW list \in Seq(Column), NEW other \in Seq(Column), PlacesOf(other) = PlacesOf(list),
         NEW p \in PlacesOf(list), NEW n \in TypedName,
         \A q \in PlacesOf(list) : NameAt(other, q) = IF q = p THEN n ELSE NameAt(list, q),
         \A q \in PlacesOf(list) \ {p} : ~ IsPrefix(n, NameAt(list, q)) /\ ~ IsPrefix(NameAt(list, q), n),
         Unambiguous(list)
  PROVE  Unambiguous(other) /\ \A m : n[1] <= m + 1 /\ NamedUpTo(list, m) => NamedUpTo(other, m)
BY DEF Unambiguous, NamedUpTo

SoundColumn(c) == Len(c.columns) <= MaxColumns /\ (c.columns # <<>> => c.kind # "flat")
Sound(list) ==
    /\ list \in Seq(Column) /\ Len(list) <= MaxColumns
    /\ \A i \in DOMAIN list : SoundColumn(list[i])

StructureInv ==
    /\ StructureTypeOK
    /\ Sound(columns)
    /\ ~twins => ~stray /\ Unambiguous(columns) /\ NamedUpTo(columns, newColumnCount)

(* The grid in these terms. *)
LEMMA GridIs ==
  /\ Places = PlacesOf(columns)
  /\ \A p : At(p).name = NameAt(columns, p)
  /\ IsUnambiguous <=> Unambiguous(columns)
  /\ \A p : Alike(p) = {q \in PlacesOf(columns) : NameAt(columns, q) = NameAt(columns, p)}
<1>1. Places = PlacesOf(columns)
  BY DEF Places, PlacesOf
<1>2. \A p : At(p).name = NameAt(columns, p)
  BY DEF At, NameAt
<1>3. IsUnambiguous <=> Unambiguous(columns)
  BY <1>1, <1>2 DEF IsUnambiguous, Unambiguous
<1>4. \A p : Alike(p) = {q \in PlacesOf(columns) : NameAt(columns, q) = NameAt(columns, p)}
  BY <1>1, <1>2 DEF Alike
<1>5. QED
  BY <1>1, <1>2, <1>3, <1>4

LEMMA StructureParts ==
  ASSUME StructureInv
  PROVE  /\ MaxColumns \in Nat /\ MaxNamed \in Nat /\ newColumnCount \in Nat /\ newColumnCount <= MaxNamed
         /\ Sound(columns) /\ columns \in Seq(Column) /\ Len(columns) \in Nat /\ Len(columns) <= MaxColumns
         /\ DOMAIN columns = 1..Len(columns)
         /\ \A i \in DOMAIN columns : /\ columns[i] \in Column /\ SoundColumn(columns[i])
                                      /\ columns[i].columns \in Seq(Inner)
                                      /\ Len(columns[i].columns) \in Nat
                                      /\ Len(columns[i].columns) <= MaxColumns
                                      /\ DOMAIN columns[i].columns = 1..Len(columns[i].columns)
         /\ stray \in BOOLEAN /\ twins \in BOOLEAN
         /\ ColumnName \subseteq TypedName
<1>1. MaxColumns \in Nat /\ MaxNamed \in Nat /\ ColumnName \subseteq TypedName
  BY StructureAssumption
<1>2. columns \in Seq(Column) /\ newColumnCount \in 0..MaxNamed /\ {stray, twins} \subseteq BOOLEAN
  BY DEF StructureInv, StructureTypeOK
<1>3. Sound(columns) /\ Len(columns) <= MaxColumns /\ \A i \in DOMAIN columns : SoundColumn(columns[i])
  BY DEF StructureInv, Sound
<1>4. \A i \in DOMAIN columns : /\ columns[i] \in Column /\ columns[i].columns \in Seq(Inner)
                                /\ Len(columns[i].columns) \in Nat
                                /\ DOMAIN columns[i].columns = 1..Len(columns[i].columns)
  BY <1>2, ColumnTypes
<1>5. QED
  BY <1>1, <1>2, <1>3, <1>4 DEF SoundColumn

(* A place and what is there. *)
LEMMA PlaceIs ==
  ASSUME StructureInv, NEW p \in Places
  PROVE  /\ At(p).name \in TypedName /\ At(p).name = NameAt(columns, p)
         /\ p[1] \in DOMAIN columns /\ p[1] \in 1..MaxColumns
         /\ \/ p = <<p[1]>> /\ Len(p) = 1 /\ At(p) = columns[p[1]]
            \/ /\ p = <<p[1], p[2]>> /\ Len(p) = 2 /\ p[2] \in DOMAIN columns[p[1]].columns
               /\ p[2] \in 1..MaxColumns /\ At(p) = columns[p[1]].columns[p[2]]
<1>1. p \in PlacesOf(columns) /\ At(p).name = NameAt(columns, p)
  BY GridIs
<1>2. \/ \E i \in DOMAIN columns : p = <<i>> /\ Len(p) = 1 /\ p[1] = i
      \/ \E i \in DOMAIN columns : \E j \in DOMAIN columns[i].columns :
            p = <<i, j>> /\ Len(p) = 2 /\ p[1] = i /\ p[2] = j
  BY <1>1, StructureParts, PlacesAre
<1>3. At(p).name \in TypedName
  BY <1>1, StructureParts, PlacesAre
<1>4. CASE \E i \in DOMAIN columns : p = <<i>> /\ Len(p) = 1 /\ p[1] = i
  <2>1. p[1] \in DOMAIN columns /\ p = <<p[1]>> /\ Len(p) = 1
    BY <1>4
  <2>2. p[1] \in 1..MaxColumns
    BY <2>1, StructureParts
  <2>3. QED
    BY <1>1, <1>3, <2>1, <2>2 DEF At
<1>5. CASE \E i \in DOMAIN columns : \E j \in DOMAIN columns[i].columns :
              p = <<i, j>> /\ Len(p) = 2 /\ p[1] = i /\ p[2] = j
  <2>1. p[1] \in DOMAIN columns /\ p[2] \in DOMAIN columns[p[1]].columns /\ p = <<p[1], p[2]>> /\ Len(p) = 2
    BY <1>5
  <2>2. p[1] \in 1..MaxColumns /\ p[2] \in 1..MaxColumns
    BY <2>1, StructureParts
  <2>3. QED
    BY <1>1, <1>3, <2>1, <2>2 DEF At
<1>6. QED
  BY <1>2, <1>4, <1>5

LEMMA Product ==
  ASSUME NEW m \in Nat, NEW a \in Nat, a <= m
  PROVE  a * (m + 1) \in Nat /\ a * (m + 1) <= m * (m + 1)
OBVIOUS

(* The last column of a name: there is one, and it is the column itself    *)
(* unless the user has made the name ambiguous.                            *)
LEMMA FoundIs ==
  ASSUME StructureInv, NEW p \in Places
  PROVE  /\ FoundByName(p) \in Places /\ At(FoundByName(p)).name = At(p).name
         /\ ~twins => Alike(p) = {p} /\ FoundByName(p) = p
<1> DEFINE k == MaxColumns * (MaxColumns + 1) + MaxColumns
<1>1. \A q \in Places : Rank(q) \in Nat /\ Rank(q) <= k
  <2> TAKE q \in Places
  <2>1. /\ MaxColumns \in Nat /\ q[1] \in 1..MaxColumns
        /\ (Len(q) = 1 \/ (Len(q) = 2 /\ q[2] \in 1..MaxColumns))
    BY StructureParts, PlaceIs
  <2>2. PICK a, b : a = q[1] * (MaxColumns + 1) /\ b = MaxColumns * (MaxColumns + 1)
    OBVIOUS
  <2>3. a \in Nat /\ b \in Nat /\ a <= b
    BY <2>1, <2>2, Product
  <2>4. Rank(q) = a + (IF Len(q) = 2 THEN q[2] ELSE 0) /\ k = b + MaxColumns
    BY <2>2 DEF Rank
  <2>5. QED
    BY <2>1, <2>3, <2>4
<1>2. k \in Nat
  BY StructureParts
<1>3. Alike(p) \subseteq Places /\ p \in Alike(p) /\ \A q \in Alike(p) : At(q).name = At(p).name
  BY DEF Alike
<1> HIDE DEF k
<1>4. \E q \in Alike(p) : \A r \in Alike(p) : Rank(r) <= Rank(q)
  <2> DEFINE T == {k - Rank(q) : q \in Alike(p)}
  <2>1. T \subseteq Nat /\ T # {}
    BY <1>1, <1>2, <1>3
  <2>2. PICK m \in T : \A n \in T : m <= n
    BY <2>1, LeastNumber
  <2>3. PICK q \in Alike(p) : m = k - Rank(q)
    BY <2>2
  <2>4. \A r \in Alike(p) : k - Rank(q) <= k - Rank(r)
    BY <2>2, <2>3
  <2>5. QED
    BY <1>1, <1>2, <1>3, <2>4
<1>5. FoundByName(p) \in Alike(p)
  BY <1>4 DEF FoundByName
<1>6. ASSUME ~twins PROVE Alike(p) = {p}
  <2>1. columns \in Seq(Column) /\ Unambiguous(columns)
    BY <1>6, StructureParts DEF StructureInv
  <2>2. \A q \in Alike(p) : q = p
    BY <1>3, <2>1, GridIs, OwnNames
  <2>3. QED
    BY <1>3, <2>2
<1>7. QED
  BY <1>3, <1>5, <1>6

(* One column of the list is another one. *)
LEMMA OneColumnChanged ==
  ASSUME NEW list, Sound(list), NEW i \in DOMAIN list, NEW c \in Column, SoundColumn(c),
         NEW other, other = [list EXCEPT ![i] = c]
  PROVE  /\ Sound(other) /\ DOMAIN other = DOMAIN list /\ other[i] = c
         /\ \A m \in DOMAIN list : m # i => other[m] = list[m]
<1>1. list \in Seq(Column) /\ Len(list) \in Nat /\ DOMAIN list = 1..Len(list)
  BY DEF Sound
<1>2. other \in Seq(Column) /\ Len(other) = Len(list) /\ DOMAIN other = DOMAIN list
      /\ other[i] = c /\ \A m \in DOMAIN list : m # i => other[m] = list[m]
  BY <1>1
<1>3. QED
  BY <1>2 DEF Sound

LEMMA SoundType == Sound(columns) => /\ columns \in Seq(Column)
                                     /\ \A i \in DOMAIN columns : columns[i].columns # <<>> => columns[i].kind # "flat"
BY DEF Sound, SoundColumn

LEMMA StructureInvInit == StructureInit => StructureInv
<1> SUFFICES ASSUME StructureInit PROVE StructureInv
  OBVIOUS
<1>1. columns = StartColumns /\ columns \in Seq(Column) /\ MaxNamed \in Nat /\ MaxColumns \in Nat
  BY StructureAssumption DEF StructureInit
<1>2. Sound(columns)
  BY <1>1, StructureAssumption DEF Sound, SoundColumn
<1>3. StructureTypeOK
  <2>1. editingKey = <<>> /\ newColumnCount \in 0..MaxNamed
    BY <1>1 DEF StructureInit
  <2>2. stray \in BOOLEAN /\ twins \in BOOLEAN
    BY DEF StructureInit
  <2>3. QED
    BY <1>2, <2>1, <2>2, SoundType DEF StructureTypeOK
<1>4. ASSUME ~twins PROVE ~stray /\ Unambiguous(columns) /\ NamedUpTo(columns, newColumnCount)
  <2>1. ~stray /\ IsUnambiguous /\ newColumnCount = 0 /\ \A n \in ColumnNames : ~(n[1] > 1)
    BY <1>4 DEF StructureInit
  <2>2. Unambiguous(columns)
    BY <2>1, GridIs
  <2>3. ASSUME NEW p \in PlacesOf(columns) PROVE NameAt(columns, p)[1] <= 1
    <3>1. NameAt(columns, p) \in ColumnNames
      BY GridIs DEF ColumnNames
    <3>2. NameAt(columns, p) \in TypedName
      BY <1>1, PlacesAre
    <3>3. NameAt(columns, p)[1] \in Nat
      BY <3>2, Longer
    <3>4. QED
      BY <2>1, <3>1, <3>3
  <2>4. QED
    BY <2>1, <2>2, <2>3 DEF NamedUpTo
<1>5. QED
  BY <1>2, <1>3, <1>4 DEF StructureInv

LEMMA AddColumnKeeps ==
  ASSUME StructureInv, NEW kind \in Kind, AddColumn(kind) PROVE StructureInv'
<1> DEFINE c == [name |-> <<newColumnCount + 2>>, kind |-> kind, columns |-> <<>>]
<1>1. /\ Len(columns) < MaxColumns /\ newColumnCount < MaxNamed /\ newColumnCount' = newColumnCount + 1
      /\ columns' = Append(columns, c) /\ editingKey' = editingKey /\ stray' = stray /\ twins' = twins
  BY DEF AddColumn
<1>2. newColumnCount \in Nat /\ MaxNamed \in Nat /\ MaxColumns \in Nat /\ Sound(columns)
      /\ columns \in Seq(Column) /\ Len(columns) \in Nat /\ stray \in BOOLEAN /\ twins \in BOOLEAN
  BY StructureParts
<1>3. c \in Column /\ SoundColumn(c) /\ c.columns = <<>> /\ c.name = <<newColumnCount + 2>>
  <2>1. <<newColumnCount + 2>> \in TypedName /\ <<>> \in Seq(Inner) /\ Len(<<>>) = 0
    BY <1>2 DEF TypedName
  <2>2. QED
    BY <1>2, <2>1 DEF Column, SoundColumn
<1> HIDE DEF c
<1>4. Sound(columns')
  <2>1. /\ columns' \in Seq(Column) /\ Len(columns') = Len(columns) + 1
        /\ \A i \in DOMAIN columns' : columns'[i] = c \/ (i \in DOMAIN columns /\ columns'[i] = columns[i])
    BY <1>1, <1>2, <1>3
  <2>2. QED
    BY <1>1, <1>2, <1>3, <2>1 DEF Sound
<1>5. StructureTypeOK'
  <2>1. newColumnCount' \in 0..MaxNamed
    BY <1>1, <1>2
  <2>2. editingKey' \in {<<>>} \cup ((1..MaxColumns) \X (1..MaxColumns)) \cup {<<i>> : i \in 1..MaxColumns}
    BY <1>1 DEF StructureInv, StructureTypeOK
  <2>3. {stray', twins'} \subseteq BOOLEAN
    BY <1>1, <1>2
  <2>4. QED
    BY <1>4, <2>1, <2>2, <2>3 DEF StructureTypeOK, Sound, SoundColumn
<1>6. ASSUME ~twins' PROVE ~stray' /\ Unambiguous(columns') /\ NamedUpTo(columns', newColumnCount')
  BY <1>1, <1>2, <1>3, <1>6, OneColumnMore DEF StructureInv
<1>7. QED
  BY <1>4, <1>5, <1>6 DEF StructureInv

LEMMA AddInnerKeeps ==
  ASSUME StructureInv, NEW p \in Places, NEW kind \in Kind, AddInner(p, kind) PROVE StructureInv'
<1> DEFINE q == FoundByName(p)
           i == q[1]
           e == [name |-> Append(At(p).name, Len(At(p).columns) + 1), kind |-> kind]
           c == [columns[i] EXCEPT !.columns = Append(columns[i].columns, e)]
           into == Len(q) = 1 /\ At(q).kind \in {"struct", "arrayOfStructs"}
<1>1. /\ Len(p) = 1
      /\ into => Len(At(q).columns) < MaxColumns
      /\ columns' = IF into THEN [columns EXCEPT ![i] = c] ELSE columns
      /\ stray' = (stray \/ q # p) /\ editingKey' = editingKey
      /\ newColumnCount' = newColumnCount /\ twins' = twins
  BY DEF AddInner
<1>2. /\ Sound(columns) /\ columns \in Seq(Column) /\ stray \in BOOLEAN /\ twins \in BOOLEAN
      /\ MaxColumns \in Nat
  BY StructureParts
<1>3. q \in Places /\ (~twins => q = p)
  BY FoundIs
<1>4. /\ p[1] \in DOMAIN columns /\ p = <<p[1]>> /\ At(p) = columns[p[1]] /\ At(p).name \in TypedName
      /\ i \in DOMAIN columns /\ (Len(q) = 1 => At(q) = columns[i])
  <2>1. p[1] \in DOMAIN columns /\ p = <<p[1]>> /\ At(p) = columns[p[1]] /\ At(p).name \in TypedName
    <3>1. Len(p) = 1
      BY <1>1
    <3> HIDE DEF q
    <3>2. QED
      BY <3>1, PlaceIs
  <2> HIDE DEF q
  <2>2. i \in DOMAIN columns /\ (Len(q) = 1 => At(q) = columns[i])
    BY <1>3, PlaceIs
  <2>3. QED
    BY <2>1, <2>2
<1>5. /\ columns[i] \in Column /\ columns[i].columns \in Seq(Inner) /\ Len(columns[i].columns) \in Nat
      /\ Len(columns[p[1]].columns) \in Nat
  BY <1>4, StructureParts
<1>6. e \in Inner /\ e.name = Append(At(p).name, Len(At(p).columns) + 1)
  <2>1. Append(At(p).name, Len(At(p).columns) + 1) \in TypedName
    BY <1>4, <1>5, Longer
  <2>2. QED
    BY <2>1 DEF Inner
<1> HIDE DEF e
<1>7. Append(columns[i].columns, e) \in Seq(Inner) /\ Append(columns[i].columns, e) # <<>>
      /\ Len(Append(columns[i].columns, e)) = Len(columns[i].columns) + 1
  <2>1. ASSUME NEW list \in Seq(Inner)
        PROVE  /\ Append(list, e) \in Seq(Inner) /\ Append(list, e) # <<>>
               /\ Len(Append(list, e)) = Len(list) + 1
    BY ONLY <1>6, <2>1
  <2>2. QED
    BY ONLY <1>5, <2>1
<1>8. /\ c \in Column /\ c.name = columns[i].name /\ c.kind = columns[i].kind
      /\ c.columns = Append(columns[i].columns, e)
  BY <1>5, <1>7 DEF Column
<1> HIDE DEF c, q
<1>9. ASSUME into
      PROVE  /\ Sound(columns') /\ DOMAIN columns' = DOMAIN columns /\ columns'[i] = c
             /\ \A m \in DOMAIN columns : m # i => columns'[m] = columns[m]
  <2>1. SoundColumn(c)
    <3>1. c.kind # "flat" /\ Len(c.columns) <= MaxColumns
      BY <1>1, <1>2, <1>4, <1>5, <1>7, <1>8, <1>9
    <3>2. QED
      BY <3>1 DEF SoundColumn
  <2>2. columns' = [columns EXCEPT ![i] = c]
    BY <1>1, <1>9
  <2> HIDE DEF i
  <2>3. QED
    BY <1>2, <1>4, <1>8, <2>1, <2>2, OneColumnChanged DEF i
<1>10. Sound(columns')
  BY <1>1, <1>2, <1>9
<1>11. StructureTypeOK'
  BY <1>1, <1>2, <1>10 DEF StructureInv, StructureTypeOK, Sound, SoundColumn
<1>12. ASSUME ~twins' PROVE ~stray' /\ Unambiguous(columns') /\ NamedUpTo(columns', newColumnCount')
  <2>1. ~twins /\ q = p /\ i = p[1]
    BY <1>1, <1>3, <1>12
  <2>2. ~stray' /\ Unambiguous(columns) /\ NamedUpTo(columns, newColumnCount)
    BY <1>1, <2>1 DEF StructureInv
  <2>3. CASE into
    <3>1. /\ \A m \in DOMAIN columns : columns'[m].name = columns[m].name
          /\ \A m \in DOMAIN columns : m # i => columns'[m].columns = columns[m].columns
          /\ columns'[i].columns = Append(columns[i].columns, e)
          /\ e.name = Append(columns[i].name, Len(columns[i].columns) + 1)
          /\ DOMAIN columns' = DOMAIN columns /\ columns' \in Seq(Column)
      BY <1>4, <1>6, <1>8, <1>9, <1>10, <2>1, <2>3 DEF Sound
    <3> HIDE DEF i
    <3>2. Unambiguous(columns') /\ \A n : NamedUpTo(columns, n) => NamedUpTo(columns', n)
      <4>1. PICK after : after = columns'
        OBVIOUS
      <4>2. /\ after \in Seq(Column) /\ DOMAIN after = DOMAIN columns
            /\ \A m \in DOMAIN columns : after[m].name = columns[m].name
            /\ \A m \in DOMAIN columns : m # i => after[m].columns = columns[m].columns
            /\ after[i].columns = Append(columns[i].columns, e)
        BY <3>1, <4>1
      <4>3. i \in DOMAIN columns /\ columns \in Seq(Column)
        BY <1>2, <1>4
      <4>4. Unambiguous(after) /\ \A n : NamedUpTo(columns, n) => NamedUpTo(after, n)
        BY ONLY <2>2, <3>1, <4>2, <4>3, OneInnerMore
      <4>5. QED
        BY <4>1, <4>4
    <3>3. QED
      BY <1>1, <2>2, <3>2
  <2>4. CASE ~into
    BY <1>1, <2>2, <2>4
  <2>5. QED
    BY <2>3, <2>4
<1>13. QED
  BY <1>10, <1>11, <1>12 DEF StructureInv

LEMMA EditRowKeeps == ASSUME StructureInv, NEW p \in Places, EditRow(p) PROVE StructureInv'
<1>1. p \in ((1..MaxColumns) \X (1..MaxColumns)) \cup {<<i>> : i \in 1..MaxColumns}
  BY PlaceIs
<1>2. QED
  BY <1>1 DEF EditRow, StructureInv, StructureTypeOK

LEMMA RenameKeeps ==
  ASSUME StructureInv, NEW p \in Places, NEW n \in ColumnName, Rename(p, n) PROVE StructureInv'
<1> DEFINE old == At(p).name
           now(name) == IF name = old THEN n ELSE name
           inner(s) == [j \in DOMAIN s |-> [s[j] EXCEPT !.name = now(s[j].name)]]
           col(c) == [[c EXCEPT !.name = now(c.name)] EXCEPT !.columns = inner(c.columns)]
<1>1. /\ columns' = [i \in DOMAIN columns |->
                       [[columns[i] EXCEPT !.name = IF columns[i].name = old THEN n ELSE columns[i].name]
                          EXCEPT !.columns = [j \in DOMAIN columns[i].columns |->
                              [columns[i].columns[j] EXCEPT !.name =
                                  IF columns[i].columns[j].name = old THEN n ELSE columns[i].columns[j].name]]]]
      /\ stray' = (stray \/ Alike(p) # {p})
      /\ twins' = (twins \/ n[1] > 1
                         \/ \E q \in Places \ {p} : IsPrefix(n, At(q).name) \/ IsPrefix(At(q).name, n))
      /\ editingKey' = editingKey /\ newColumnCount' = newColumnCount
  BY DEF Rename, Column
<1>2. columns' = [i \in DOMAIN columns |-> col(columns[i])]
  BY <1>1
<1> HIDE DEF now
<1>3. /\ columns \in Seq(Column) /\ Len(columns) \in Nat /\ Sound(columns) /\ n \in TypedName
      /\ stray \in BOOLEAN /\ twins \in BOOLEAN /\ \A i \in DOMAIN columns : columns[i] \in Column
  BY StructureParts
<1>4. \A name \in TypedName : now(name) \in TypedName
  BY <1>3 DEF now
<1>5. ASSUME NEW s \in Seq(Inner)
      PROVE  /\ inner(s) \in Seq(Inner) /\ Len(inner(s)) = Len(s) /\ DOMAIN inner(s) = DOMAIN s
             /\ \A j \in DOMAIN s : inner(s)[j].name = now(s[j].name)
  <2>1. \A r \in Inner : \A m \in TypedName : /\ r.name \in TypedName
                                            /\ [r EXCEPT !.name = m] \in Inner
                                            /\ [r EXCEPT !.name = m].name = m
    BY DEF Inner
  <2>2. \A j \in DOMAIN s : inner(s)[j] \in Inner /\ inner(s)[j].name = now(s[j].name)
    <3> SUFFICES ASSUME NEW j \in DOMAIN s PROVE inner(s)[j] \in Inner /\ inner(s)[j].name = now(s[j].name)
      OBVIOUS
    <3>1. s[j] \in Inner /\ now(s[j].name) \in TypedName
      <4>1. s[j] \in Inner
        OBVIOUS
      <4>2. s[j].name \in TypedName
        BY <4>1 DEF Inner
      <4>3. QED
        BY <1>4, <4>1, <4>2
    <3>2. inner(s)[j] = [s[j] EXCEPT !.name = now(s[j].name)]
      OBVIOUS
    <3> HIDE DEF inner
    <3>3. QED
      BY <2>1, <3>1, <3>2
  <2>3. inner(s) = [j \in 1..Len(s) |-> inner(s)[j]] /\ Len(s) \in Nat /\ DOMAIN s = 1..Len(s)
    OBVIOUS
  <2> HIDE DEF inner
  <2>4. QED
    BY <2>2, <2>3
<1> HIDE DEF inner
<1>6. ASSUME NEW c \in Column
      PROVE  /\ col(c) \in Column /\ col(c).name = now(c.name) /\ col(c).kind = c.kind
             /\ Len(col(c).columns) = Len(c.columns) /\ DOMAIN col(c).columns = DOMAIN c.columns
             /\ (col(c).columns # <<>> => c.columns # <<>>)
             /\ \A j \in DOMAIN c.columns : col(c).columns[j].name = now(c.columns[j].name)
  <2>1. now(c.name) \in TypedName /\ c.columns \in Seq(Inner)
    BY <1>4, ColumnTypes
  <2> DEFINE d == [c EXCEPT !.name = now(c.name)]
  <2>2. d \in Column /\ d.name = now(c.name) /\ d.kind = c.kind
    BY <2>1 DEF Column
  <2>3. col(c) = [d EXCEPT !.columns = inner(c.columns)]
    OBVIOUS
  <2> HIDE DEF d, col
  <2>4. /\ inner(c.columns) \in Seq(Inner) /\ Len(inner(c.columns)) = Len(c.columns)
        /\ DOMAIN inner(c.columns) = DOMAIN c.columns
        /\ \A j \in DOMAIN c.columns : inner(c.columns)[j].name = now(c.columns[j].name)
    BY <1>5, <2>1
  <2>5. /\ col(c) \in Column /\ col(c).name = now(c.name) /\ col(c).kind = c.kind
        /\ col(c).columns = inner(c.columns)
    BY <2>2, <2>3, <2>4 DEF Column
  <2>6. inner(c.columns) # <<>> => c.columns # <<>>
    BY <2>1, <2>4
  <2>7. QED
    BY <2>4, <2>5, <2>6
<1> HIDE DEF col
<1>7. /\ columns' \in Seq(Column) /\ Len(columns') = Len(columns) /\ DOMAIN columns' = DOMAIN columns
      /\ \A i \in DOMAIN columns : columns'[i] = col(columns[i])
  BY <1>2, <1>3, <1>6
<1>8. Sound(columns')
  <2>1. \A i \in DOMAIN columns : SoundColumn(columns[i]) => SoundColumn(col(columns[i]))
    BY <1>3, <1>6 DEF SoundColumn
  <2>2. QED
    BY <1>3, <1>7, <2>1 DEF Sound
<1>9. StructureTypeOK'
  <2>1. {stray', twins'} \subseteq BOOLEAN
    BY <1>1, <1>3
  <2>2. /\ newColumnCount' \in 0..MaxNamed
        /\ editingKey' \in {<<>>} \cup ((1..MaxColumns) \X (1..MaxColumns)) \cup {<<i>> : i \in 1..MaxColumns}
    BY <1>1 DEF StructureInv, StructureTypeOK
  <2>3. QED
    BY <1>8, <2>1, <2>2 DEF StructureTypeOK, Sound, SoundColumn
<1>10. PlacesOf(columns') = PlacesOf(columns)
  BY <1>3, <1>6, <1>7 DEF PlacesOf
<1>11. \A q \in PlacesOf(columns) : NameAt(columns', q) = now(NameAt(columns, q))
  <2> SUFFICES ASSUME NEW q \in PlacesOf(columns) PROVE NameAt(columns', q) = now(NameAt(columns, q))
    OBVIOUS
  <2>1. CASE \E i \in DOMAIN columns : q = <<i>> /\ Len(q) = 1 /\ q[1] = i
    BY <1>3, <1>6, <1>7, <2>1 DEF NameAt
  <2>2. CASE \E i \in DOMAIN columns : \E j \in DOMAIN columns[i].columns :
                q = <<i, j>> /\ Len(q) = 2 /\ q[1] = i /\ q[2] = j
    BY <1>3, <1>6, <1>7, <2>2 DEF NameAt
  <2>3. QED
    BY <1>3, <2>1, <2>2, PlacesAre
<1>12. ASSUME ~twins' PROVE ~stray' /\ Unambiguous(columns') /\ NamedUpTo(columns', newColumnCount')
  <2>1. /\ ~twins /\ ~(n[1] > 1)
        /\ \A q \in Places \ {p} : ~ IsPrefix(n, At(q).name) /\ ~ IsPrefix(At(q).name, n)
    BY <1>1, <1>12
  <2>2. ~stray /\ Unambiguous(columns) /\ NamedUpTo(columns, newColumnCount) /\ Alike(p) = {p}
    BY <2>1, FoundIs DEF StructureInv
  <2>3. p \in PlacesOf(columns) /\ old = NameAt(columns, p)
    BY GridIs
  <2>4. \A q \in PlacesOf(columns) : NameAt(columns', q) = IF q = p THEN n ELSE NameAt(columns, q)
    <3>1. \A q \in PlacesOf(columns) : NameAt(columns, q) = old => q = p
      BY <2>2, <2>3, GridIs
    <3>2. QED
      BY <1>11, <2>3, <3>1 DEF now
  <2>5. \A q \in PlacesOf(columns) \ {p} : ~ IsPrefix(n, NameAt(columns, q)) /\ ~ IsPrefix(NameAt(columns, q), n)
    BY <2>1, GridIs
  <2>6. n[1] <= newColumnCount + 1
    <3>1. n[1] \in Nat /\ newColumnCount \in Nat
      BY <1>3, Longer, StructureParts
    <3>2. QED
      BY <2>1, <3>1
  <2>7. Unambiguous(columns') /\ NamedUpTo(columns', newColumnCount)
    BY <1>3, <1>7, <1>10, <2>2, <2>3, <2>4, <2>5, <2>6, OneNameChanged
  <2>8. QED
    BY <1>1, <2>2, <2>7
<1>13. QED
  BY <1>8, <1>9, <1>12 DEF StructureInv

LEMMA DescribeKeeps == ASSUME StructureInv, NEW p \in Places, Describe(p) PROVE StructureInv'
<1>1. /\ UNCHANGED <<columns, editingKey, newColumnCount, twins>>
      /\ stray' = (stray \/ Alike(p) # {p}) /\ stray \in BOOLEAN
  BY StructureParts DEF Describe
<1>2. ~twins => ~stray' = TRUE
  BY <1>1, FoundIs DEF StructureInv
<1>3. stray' \in BOOLEAN
  BY <1>1
<1>4. QED
  BY <1>1, <1>2, <1>3 DEF StructureInv, StructureTypeOK

LEMMA ChooseTypeKeeps ==
  ASSUME StructureInv, NEW p \in Places, NEW kind \in Kind, ChooseType(p, kind) PROVE StructureInv'
<1> DEFINE q == FoundByName(p)
           i == q[1]
           j == q[2]
           e == [columns[i].columns[j] EXCEPT !.kind = kind]
           c == IF Len(q) = 1 THEN [[columns[i] EXCEPT !.kind = kind] EXCEPT !.columns = <<>>]
                ELSE [columns[i] EXCEPT !.columns = [columns[i].columns EXCEPT ![j] = e]]
<1>1. /\ columns' = [columns EXCEPT ![i] = c]
      /\ stray' = (stray \/ q # p) /\ editingKey' = editingKey
      /\ newColumnCount' = newColumnCount /\ twins' = twins
  BY DEF ChooseType
<1>2. /\ Sound(columns) /\ columns \in Seq(Column) /\ stray \in BOOLEAN /\ twins \in BOOLEAN
      /\ MaxColumns \in Nat
  BY StructureParts
<1>3. q \in Places /\ (~twins => q = p)
  BY FoundIs
<1> HIDE DEF q
<1>4. /\ i \in DOMAIN columns
      /\ \/ Len(q) = 1
         \/ Len(q) = 2 /\ j \in DOMAIN columns[i].columns
  BY <1>3, PlaceIs
<1>5. /\ columns[i] \in Column /\ columns[i].columns \in Seq(Inner) /\ Len(columns[i].columns) \in Nat
      /\ SoundColumn(columns[i])
  BY <1>4, StructureParts
<1>6. /\ c \in Column /\ SoundColumn(c) /\ c.name = columns[i].name
      /\ DOMAIN c.columns \subseteq DOMAIN columns[i].columns
      /\ \A m \in DOMAIN c.columns : c.columns[m].name = columns[i].columns[m].name
  <2>1. CASE Len(q) = 1
    <3>1. c = [[columns[i] EXCEPT !.kind = kind] EXCEPT !.columns = <<>>]
      BY <2>1
    <3>2. <<>> \in Seq(Inner) /\ Len(<<>>) = 0 /\ DOMAIN <<>> = {}
      OBVIOUS
    <3> HIDE DEF c
    <3>3. c \in Column /\ c.name = columns[i].name /\ c.columns = <<>>
      BY <1>5, <3>1, <3>2 DEF Column
    <3>4. QED
      BY <1>2, <3>2, <3>3 DEF SoundColumn
  <2>2. CASE Len(q) = 2
    <3> DEFINE s == [columns[i].columns EXCEPT ![j] = e]
    <3>1. c = [columns[i] EXCEPT !.columns = s]
      BY <2>2
    <3>2. j \in DOMAIN columns[i].columns /\ columns[i].columns[j] \in Inner
      BY <1>4, <1>5, <2>2
    <3>3. e \in Inner /\ e.name = columns[i].columns[j].name
      BY <3>2 DEF Inner
    <3> HIDE DEF e, c
    <3>4. /\ s \in Seq(Inner) /\ Len(s) = Len(columns[i].columns) /\ DOMAIN s = DOMAIN columns[i].columns
          /\ \A m \in DOMAIN s : s[m].name = columns[i].columns[m].name
      BY <1>5, <3>2, <3>3
    <3> HIDE DEF s
    <3>5. c \in Column /\ c.name = columns[i].name /\ c.columns = s /\ c.kind = columns[i].kind
      BY <1>5, <3>1, <3>4 DEF Column
    <3>6. columns[i].columns # <<>>
      BY <3>2
    <3>7. SoundColumn(c)
      BY <1>5, <3>4, <3>5, <3>6 DEF SoundColumn
    <3>8. QED
      BY <3>4, <3>5, <3>7
  <2>3. QED
    BY <1>4, <2>1, <2>2
<1> HIDE DEF c
<1>7. /\ Sound(columns') /\ DOMAIN columns' = DOMAIN columns /\ columns'[i] = c
      /\ \A m \in DOMAIN columns : m # i => columns'[m] = columns[m]
  <2> HIDE DEF i
  <2>1. QED
    BY <1>1, <1>2, <1>4, <1>6, OneColumnChanged
<1>8. StructureTypeOK'
  BY <1>1, <1>2, <1>7 DEF StructureInv, StructureTypeOK, Sound, SoundColumn
<1>9. ASSUME ~twins' PROVE ~stray' /\ Unambiguous(columns') /\ NamedUpTo(columns', newColumnCount')
  <2>1. ~stray' /\ Unambiguous(columns) /\ NamedUpTo(columns, newColumnCount)
    BY <1>1, <1>3, <1>9 DEF StructureInv
  <2> DEFINE from == [m \in DOMAIN columns |-> m]
  <2>2. \A m \in DOMAIN columns' :
           /\ from[m] \in DOMAIN columns /\ columns'[m].name = columns[from[m]].name
           /\ DOMAIN columns'[m].columns \subseteq DOMAIN columns[from[m]].columns
           /\ \A k \in DOMAIN columns'[m].columns :
                 columns'[m].columns[k].name = columns[from[m]].columns[k].name
    BY <1>6, <1>7
  <2>3. \A m, n \in DOMAIN columns' : m # n => from[m] # from[n]
    BY <1>7
  <2>4. columns' \in Seq(Column)
    BY <1>7 DEF Sound
  <2> HIDE DEF from
  <2>5. Unambiguous(columns') /\ \A n : NamedUpTo(columns, n) => NamedUpTo(columns', n)
    BY <1>2, <2>1, <2>2, <2>3, <2>4, FewerColumns
  <2>6. QED
    BY <1>1, <2>1, <2>5
<1>10. QED
  BY <1>7, <1>8, <1>9 DEF StructureInv

(* Everything of a list is kept. *)
LEMMA KeptAll ==
  ASSUME NEW X, NEW list \in Seq(X), NEW places, places = DOMAIN list
  PROVE  Kept(list, places) = list
<1>1. Len(list) \in Nat /\ places = 1..Len(list) /\ Cardinality(places) = Len(list)
  BY NumbersCounted
<1>2. ASSUME NEW x \in places PROVE Cardinality({y \in places : y <= x}) = x
  <2>1. {y \in places : y <= x} = 1..x /\ x \in Nat
    BY <1>1
  <2>2. QED
    BY <2>1, NumbersCounted
<1>3. ASSUME NEW n \in 1..Len(list) PROVE InOrder(places)[n] = n
  <2>1. InOrder(places)[n] = CHOOSE x \in places : Cardinality({y \in places : y <= x}) = n
    BY <1>1 DEF InOrder
  <2>2. QED
    BY <1>1, <1>2, <2>1
<1>4. DOMAIN InOrder(places) = 1..Len(list)
  BY <1>1 DEF InOrder
<1>5. Kept(list, places) = [n \in 1..Len(list) |-> list[n]]
  BY <1>3, <1>4 DEF Kept
<1>6. QED
  BY <1>5

(* From unambiguous names, at most the column itself is removed. *)
LEMMA RemovedIs ==
  ASSUME StructureInv, NEW p \in Places
  PROVE  ~twins => /\ RemovedFor(At(p).name) \subseteq {p}
                   /\ \A q \in RemovedFor(At(p).name) : Len(q) = 1
<1> DEFINE name == At(p).name
<1>1. Alike(p) = {q \in Places : At(q).name = At(p).name}
  BY DEF Alike
<1>2. CASE Dots(name) = {}
  <2>1. RemovedFor(name) = {q \in Places : Len(q) = 1 /\ At(q).name = name}
    BY <1>2 DEF RemovedFor
  <2>2. QED
    BY <1>1, <2>1, FoundIs
<1>3. CASE Dots(name) # {}
  <2> SUFFICES ASSUME ~twins, NEW q \in RemovedFor(name) PROVE FALSE
    OBVIOUS
  <2> DEFINE d == FirstDot(name)
             outside == Outside(name)
  <2>1. q \in Places /\ Len(q) = 2 /\ columns[q[1]].name = outside
    BY <1>3 DEF RemovedFor
  <2>2. name \in TypedName /\ name = NameAt(columns, p) /\ name \in Seq(Nat) /\ Len(name) \in Nat
    BY PlaceIs DEF TypedName
  <2> HIDE DEF name
  <2>3. d \in DOMAIN name /\ d > 1 /\ name[d] = 0
    <3>1. Dots(name) \subseteq Nat
      BY <2>2 DEF Dots
    <3>2. \E k \in Dots(name) : \A m \in Dots(name) : k <= m
      BY <1>3, <3>1, LeastNumber
    <3>3. d \in Dots(name)
      BY <3>2 DEF FirstDot
    <3> HIDE DEF d
    <3>4. QED
      BY <3>3 DEF Dots
  <2>4. d \in 2..Len(name) /\ outside = SubSeq(name, 1, d - 1)
    BY <2>2, <2>3 DEF Outside
  <2> HIDE DEF d, outside
  <2>5. /\ outside \in Seq(Nat) /\ Len(outside) = d - 1
        /\ \A i \in 1..(d - 1) : outside[i] = name[i]
    BY <2>2, <2>4
  <2>6. IsPrefix(outside, name) /\ outside # name
    <3>1. Len(outside) <= Len(name) /\ Len(outside) # Len(name)
      BY <2>2, <2>4, <2>5
    <3>2. \A i \in 1..Len(outside) : outside[i] = name[i]
      BY <2>5
    <3>3. QED
      BY <2>2, <2>5, <3>1, <3>2, PrefixIs
  <2>7. /\ q[1] \in DOMAIN columns /\ <<q[1]>> \in PlacesOf(columns)
        /\ NameAt(columns, <<q[1]>>) = outside
    BY <2>1, PlaceIs, StructureParts, PlacesAre
  <2>8. <<q[1]>> # p
    BY <2>2, <2>6, <2>7
  <2>9. p \in PlacesOf(columns) /\ Unambiguous(columns)
    BY GridIs DEF StructureInv
  <2>10. Len(p) = 2 /\ name = Append(outside, p[2])
    BY <2>2, <2>6, <2>7, <2>8, <2>9 DEF Unambiguous
  <2>11. p[2] \in 1..MaxColumns /\ MaxColumns \in Nat
    BY <2>10, PlaceIs, StructureParts
  <2>12. name[d] = p[2]
    BY <2>4, <2>5, <2>10, <2>11
  <2>13. QED
    BY <2>3, <2>11, <2>12
<1>4. QED
  BY <1>2, <1>3

(* What is left of a column keeps its name and, where nothing in it is     *)
(* removed, is the column.                                                 *)
LEMMA LeftIs ==
  ASSUME NEW c \in Column, SoundColumn(c), MaxColumns \in Nat, NEW places, places \subseteq DOMAIN c.columns,
         NEW d, d = [c EXCEPT !.columns = Kept(c.columns, places)]
  PROVE  /\ d \in Column /\ SoundColumn(d) /\ d.name = c.name
         /\ places = DOMAIN c.columns => d = c
<1>1. c.columns \in Seq(Inner) /\ Len(c.columns) \in Nat
  BY ColumnTypes
<1>2. PICK s : s = Kept(c.columns, places)
  OBVIOUS
<1>3. s \in Seq(Inner) /\ Len(s) \in Nat /\ Len(s) <= Len(c.columns)
  BY <1>1, <1>2, KeptIs
<1>4. d \in Column /\ d.name = c.name /\ d.kind = c.kind /\ d.columns = s
  BY <1>2, <1>3 DEF Column
<1>5. c.columns = <<>> => s = <<>>
  BY <1>1, <1>3
<1>6. SoundColumn(d)
  BY <1>1, <1>3, <1>4, <1>5 DEF SoundColumn
<1>7. ASSUME places = DOMAIN c.columns PROVE d = c
  <2>1. s = c.columns
    BY <1>1, <1>2, <1>7, KeptAll
  <2>2. QED
    BY <1>2, <2>1 DEF Column
<1>8. QED
  BY <1>4, <1>6, <1>7

LEMMA DeleteColumnKeeps == ASSUME StructureInv, NEW p \in Places, DeleteColumn(p) PROVE StructureInv'
<1> DEFINE gone == RemovedFor(At(p).name)
           inside(i) == {j \in DOMAIN columns[i].columns : <<i, j>> \notin gone}
           left(i) == [columns[i] EXCEPT !.columns = Kept(columns[i].columns, inside(i))]
           all == [i \in DOMAIN columns |-> left(i)]
           places == {i \in DOMAIN columns : <<i>> \notin gone}
           order == InOrder(places)
<1>1. /\ columns' = Kept(all, places)
      /\ stray' = (stray \/ ~ gone \subseteq {p})
      /\ editingKey' = IF editingKey = p THEN p ELSE <<>>
      /\ newColumnCount' = newColumnCount /\ twins' = twins
  BY DEF DeleteColumn
<1>2. /\ Sound(columns) /\ columns \in Seq(Column) /\ stray \in BOOLEAN /\ twins \in BOOLEAN
      /\ MaxColumns \in Nat /\ Len(columns) \in Nat /\ Len(columns) <= MaxColumns
      /\ \A i \in DOMAIN columns : columns[i] \in Column /\ SoundColumn(columns[i])
  BY StructureParts
<1>3. ~twins => gone \subseteq {p} /\ \A q \in gone : Len(q) = 1
  BY RemovedIs
<1> HIDE DEF gone
<1>4. \A i \in DOMAIN columns : /\ left(i) \in Column /\ SoundColumn(left(i)) /\ left(i).name = columns[i].name
                                /\ ~twins => left(i) = columns[i]
  <2> SUFFICES ASSUME NEW i \in DOMAIN columns
               PROVE  /\ left(i) \in Column /\ SoundColumn(left(i)) /\ left(i).name = columns[i].name
                      /\ ~twins => left(i) = columns[i]
    OBVIOUS
  <2>1. inside(i) \subseteq DOMAIN columns[i].columns
    OBVIOUS
  <2>2. ~twins => inside(i) = DOMAIN columns[i].columns
    BY <1>3
  <2>3. columns[i] \in Column /\ SoundColumn(columns[i])
    BY <1>2
  <2> HIDE DEF inside
  <2>4. PICK d : d = [columns[i] EXCEPT !.columns = Kept(columns[i].columns, inside(i))]
    OBVIOUS
  <2>5. /\ d \in Column /\ SoundColumn(d) /\ d.name = columns[i].name
        /\ inside(i) = DOMAIN columns[i].columns => d = columns[i]
    BY ONLY <1>2, <2>1, <2>3, <2>4, LeftIs
  <2>6. left(i) = d
    BY <2>4
  <2> HIDE DEF left
  <2>7. QED
    BY <2>2, <2>5, <2>6
<1> HIDE DEF left
<1>5. all \in Seq(Column) /\ Len(all) = Len(columns) /\ DOMAIN all = DOMAIN columns
      /\ \A i \in DOMAIN columns : all[i] = left(i)
  BY <1>2, <1>4
<1>6. places \subseteq DOMAIN columns
  OBVIOUS
<1> HIDE DEF places, all
<1>7. /\ columns' \in Seq(Column) /\ Len(columns') <= Len(columns) /\ Len(columns') \in Nat
      /\ \A n \in DOMAIN columns' : order[n] \in places /\ columns'[n] = all[order[n]]
      /\ \A m, n \in DOMAIN columns' : m # n => order[m] # order[n]
  BY <1>1, <1>2, <1>5, <1>6, KeptIs
<1> HIDE DEF order
<1>8. \A n \in DOMAIN columns' : order[n] \in DOMAIN columns /\ columns'[n] = left(order[n])
  BY <1>5, <1>6, <1>7
<1>9. Sound(columns')
  BY <1>2, <1>4, <1>7, <1>8 DEF Sound
<1>10. StructureTypeOK'
  <2>1. {stray', twins'} \subseteq BOOLEAN
    BY <1>1, <1>2
  <2>2. /\ newColumnCount' \in 0..MaxNamed
        /\ editingKey' \in {<<>>} \cup ((1..MaxColumns) \X (1..MaxColumns)) \cup {<<i>> : i \in 1..MaxColumns}
    BY <1>1 DEF StructureInv, StructureTypeOK
  <2>3. QED
    BY <1>9, <2>1, <2>2 DEF StructureTypeOK, Sound, SoundColumn
<1>11. ASSUME ~twins' PROVE ~stray' /\ Unambiguous(columns') /\ NamedUpTo(columns', newColumnCount')
  <2>1. ~twins /\ ~stray' /\ Unambiguous(columns) /\ NamedUpTo(columns, newColumnCount)
    BY <1>1, <1>3, <1>11 DEF StructureInv
  <2>2. \A n \in DOMAIN columns' : order[n] \in DOMAIN columns /\ columns'[n] = columns[order[n]]
    BY <1>4, <1>8, <2>1
  <2>3. /\ \A n \in DOMAIN columns' :
              /\ order[n] \in DOMAIN columns /\ columns'[n].name = columns[order[n]].name
              /\ DOMAIN columns'[n].columns \subseteq DOMAIN columns[order[n]].columns
              /\ \A j \in DOMAIN columns'[n].columns :
                    columns'[n].columns[j].name = columns[order[n]].columns[j].name
        /\ \A m, n \in DOMAIN columns' : m # n => order[m] # order[n]
    BY <1>7, <2>2
  <2>4. Unambiguous(columns') /\ \A n : NamedUpTo(columns, n) => NamedUpTo(columns', n)
    <3>1. columns \in Seq(Column) /\ columns' \in Seq(Column)
      BY <1>2, <1>7
    <3>2. QED
      BY <2>1, <2>3, <3>1, FewerColumns
  <2>5. QED
    BY <1>1, <2>1, <2>4
<1>12. QED
  BY <1>9, <1>10, <1>11 DEF StructureInv

LEMMA EndEditKeeps == ASSUME StructureInv, EndEdit PROVE StructureInv'
BY DEF EndEdit, StructureInv, StructureTypeOK

LEMMA ReopenKeeps == ASSUME StructureInv, Reopen PROVE StructureInv'
<1>1. /\ editingKey' = <<>> /\ newColumnCount' = 0 /\ UNCHANGED <<columns, stray>>
      /\ twins' = (twins \/ \E n \in ColumnNames : n[1] > 1)
  BY DEF Reopen
<1>2. stray \in BOOLEAN /\ twins \in BOOLEAN /\ MaxNamed \in Nat /\ Sound(columns) /\ columns \in Seq(Column)
  BY StructureParts
<1>3. StructureTypeOK'
  BY <1>1, <1>2 DEF StructureInv, StructureTypeOK
<1>4. ASSUME ~twins', NEW p \in PlacesOf(columns) PROVE NameAt(columns, p)[1] <= 1
  <2>1. NameAt(columns, p) \in ColumnNames
    BY GridIs DEF ColumnNames
  <2>2. NameAt(columns, p)[1] \in Nat
    BY <1>2, PlacesAre, Longer
  <2>3. ~(\E n \in ColumnNames : n[1] > 1)
    BY <1>1, <1>4
  <2>4. ~(NameAt(columns, p)[1] > 1)
    BY <2>1, <2>3
  <2>5. QED
    BY <2>2, <2>4
<1>5. ~twins' => NamedUpTo(columns, 0)
  BY <1>4 DEF NamedUpTo
<1>6. QED
  BY <1>1, <1>2, <1>3, <1>5 DEF StructureInv

LEMMA StructureInvNext == StructureInv /\ [StructureNext]_structureVars => StructureInv'
<1> SUFFICES ASSUME StructureInv, [StructureNext]_structureVars PROVE StructureInv'
  OBVIOUS
<1>1. CASE UNCHANGED structureVars
  BY <1>1 DEF StructureInv, structureVars, StructureTypeOK
<1>2. {"flat", "struct"} \subseteq Kind
  BY DEF Kind
<1>3. CASE StructureNext
  BY <1>2, <1>3, AddColumnKeeps, AddInnerKeeps, EditRowKeeps, RenameKeeps, DescribeKeeps,
     ChooseTypeKeeps, DeleteColumnKeeps, EndEditKeeps, ReopenKeeps DEF StructureNext
<1>4. QED
  BY <1>1, <1>3

THEOREM StructureInvariant == StructureSpec => []StructureInv
  BY StructureInvInit, StructureInvNext, PTL DEF StructureSpec

(* The columns, the row that is edited and the counter keep their types;   *)
(* only a struct has columns of its own.                                   *)
THEOREM StructureTypeCorrect == StructureSpec => []StructureTypeOK
<1>1. StructureInv => StructureTypeOK
  BY DEF StructureInv
<1>2. QED
  BY <1>1, StructureInvariant, PTL

(* However many columns there are and whatever is added, renamed, given    *)
(* another type or deleted, an edit reaches the column of its row and no   *)
(* other one, unless the user has made a name ambiguous.                   *)
THEOREM OthersStayUntouched == StructureSpec => []OthersAreUntouched
<1>1. StructureInv => OthersAreUntouched
  BY StructureParts DEF StructureInv, OthersAreUntouched
<1>2. QED
  BY <1>1, StructureInvariant, PTL

-----------------------------------------------------------------------------
(***************************************************************************)
(* References between the parts of an object (UiReferences).               *)
(***************************************************************************)

Begin == [i |-> 1, j |-> 1, turned |-> {}]

(* f goes through the first m rounds over the two lists. *)
Rounds(f, new, old, m) ==
    f = [n \in 0..m |-> IF n = 0 THEN Begin ELSE Round(new, old, f[n - 1])]

LEMMA RoundsExist ==
  ASSUME NEW new, NEW old, NEW m \in Nat
  PROVE  \E f : Rounds(f, new, old, m)
<1> DEFINE T == {k \in Nat : ~ \E f : Rounds(f, new, old, k)}
<1> SUFFICES ASSUME T # {} PROVE FALSE
  OBVIOUS
<1>1. PICK k \in T : \A j \in T : k <= j
  BY LeastNumber
<1>2. k # 0
  <2> DEFINE f == [n \in 0..0 |-> Begin]
  <2>1. Rounds(f, new, old, 0)
    BY DEF Rounds
  <2>2. QED
    BY <2>1
<1>3. k - 1 \in Nat /\ k - 1 \notin T
  BY <1>1, <1>2
<1>4. PICK g : Rounds(g, new, old, k - 1)
  BY <1>3
<1> DEFINE f == [n \in 0..k |-> IF n = k THEN Round(new, old, g[k - 1]) ELSE g[n]]
<1>5. \A n \in 0..(k - 1) : f[n] = g[n]
  BY <1>3
<1>6. ASSUME NEW n \in 0..k PROVE f[n] = IF n = 0 THEN Begin ELSE Round(new, old, f[n - 1])
  <2>1. CASE n = k
    <3>1. k - 1 \in 0..(k - 1)
      BY <1>3
    <3>2. QED
      BY <1>2, <1>5, <2>1, <3>1
  <2>2. CASE n # k
    <3>1. n \in 0..(k - 1) /\ (n # 0 => n - 1 \in 0..(k - 1))
      BY <1>3, <2>2
    <3>2. g[n] = IF n = 0 THEN Begin ELSE Round(new, old, g[n - 1])
      BY <1>4, <3>1 DEF Rounds
    <3>3. QED
      BY <1>5, <3>1, <3>2
  <2>3. QED
    BY <2>1, <2>2
<1>7. f = [n \in 0..k |-> f[n]]
  OBVIOUS
<1> HIDE DEF f
<1>8. Rounds(f, new, old, k)
  BY <1>6, <1>7 DEF Rounds
<1>9. QED
  BY <1>1, <1>8

(* DiffArrays is what the last of the rounds has found. *)
LEMMA LastRound ==
  ASSUME NEW new \in Seq(Object), NEW old \in Seq(Object)
  PROVE  \E m \in Nat : \E f :
            /\ m = Len(new) + Len(old) /\ DiffArrays(new, old) = f[m].turned
            /\ f[0] = Begin /\ \A n \in 1..m : f[n] = Round(new, old, f[n - 1])
<1> DEFINE m == Len(new) + Len(old)
           f == CHOOSE f : Rounds(f, new, old, m)
<1>1. m \in Nat
  OBVIOUS
<1>2. Rounds(f, new, old, m)
  BY <1>1, RoundsExist
<1>3. DiffArrays(new, old) = f[m].turned
  BY DEF DiffArrays, Rounds, Begin
<1> HIDE DEF f
<1>4. f[0] = Begin /\ \A n \in 1..m : f[n] = Round(new, old, f[n - 1])
  <2> HIDE DEF m
  <2>1. \A n \in 0..m : f[n] = IF n = 0 THEN Begin ELSE Round(new, old, f[n - 1])
    BY <1>2 DEF Rounds
  <2>2. QED
    BY <1>1, <2>1
<1>5. QED
  BY <1>1, <1>3, <1>4

(* A list of which some are left: the others, and they only, are turned    *)
(* to nothing.                                                             *)
LEMMA DiffOfFewer ==
  ASSUME NEW new \in Seq(Object), NEW old \in Seq(Object),
         \A i \in DOMAIN new : Contains(old, new[i])
  PROVE  /\ \A c \in DiffArrays(new, old) : c[2] = Nil
         /\ \A k \in DOMAIN old : ~ Contains(new, old[k]) => <<old[k], Nil>> \in DiffArrays(new, old)
<1>0. PICK m \in Nat : \E f :
         /\ m = Len(new) + Len(old) /\ DiffArrays(new, old) = f[m].turned
         /\ f[0] = Begin /\ \A n \in 1..m : f[n] = Round(new, old, f[n - 1])
  BY LastRound
<1>1. PICK f :
         /\ m = Len(new) + Len(old) /\ DiffArrays(new, old) = f[m].turned
         /\ f[0] = Begin /\ \A n \in 1..m : f[n] = Round(new, old, f[n - 1])
  BY <1>0
<1>2. Len(new) \in Nat /\ Len(old) \in Nat /\ DOMAIN new = 1..Len(new) /\ DOMAIN old = 1..Len(old)
  OBVIOUS
<1> DEFINE Good(at, n) ==
              /\ at.i \in Nat /\ at.i > 0 /\ at.j \in Nat /\ at.j > 0
              /\ at.j = Len(old) + 1 \/ (at.j <= Len(old) /\ at.j = n + 1)
              /\ \A c \in at.turned : c[2] = Nil
              /\ \A k \in DOMAIN old : k < at.j /\ ~ Contains(new, old[k]) => <<old[k], Nil>> \in at.turned
<1>3. Good(Begin, 0)
  BY <1>2 DEF Begin
<1>4. ASSUME NEW at, NEW n \in Nat, Good(at, n) PROVE Good(Round(new, old, at), n + 1)
  <2> DEFINE onward(i, j, found) == [i |-> at.i + i, j |-> at.j + j, turned |-> at.turned \cup found]
  <2>1. CASE at.j > Len(old)
    <3>1. Round(new, old, at) = at
      BY <2>1 DEF Round
    <3>2. QED
      BY <1>2, <1>4, <2>1, <3>1
  <2>2. CASE ~(at.j > Len(old))
    <3>1. at.j \in DOMAIN old /\ at.j = n + 1
      BY <1>2, <1>4, <2>2
    <3>2. \/ Round(new, old, at) = onward(0, 1, {<<old[at.j], Nil>>})
          \/ Contains(new, old[at.j]) /\ Round(new, old, at) = onward(1, 1, {})
      <4>1. CASE at.i > Len(new)
        BY <2>2, <4>1 DEF Round
      <4>2. CASE ~(at.i > Len(new))
        <5>1. Contains(old, new[at.i])
          BY <1>2, <1>4, <4>2
        <5>2. QED
          BY <2>2, <4>2, <5>1 DEF Round
      <4>3. QED
        BY <4>1, <4>2
    <3>3. CASE Round(new, old, at) = onward(0, 1, {<<old[at.j], Nil>>})
      <4>1. PICK next : next = Round(new, old, at)
        OBVIOUS
      <4>2. /\ next.i = at.i /\ next.j = at.j + 1
            /\ next.turned = at.turned \cup {<<old[at.j], Nil>>}
        BY <1>4, <3>3, <4>1
      <4>3. \A c \in next.turned : c[2] = Nil
        BY <1>4, <4>2
      <4>4. \A k \in DOMAIN old : k < next.j /\ ~ Contains(new, old[k]) => <<old[k], Nil>> \in next.turned
        BY <1>2, <1>4, <3>1, <4>2
      <4>5. next.j = Len(old) + 1 \/ (next.j <= Len(old) /\ next.j = (n + 1) + 1)
        BY <1>2, <3>1, <4>2
      <4>6. QED
        BY <1>4, <4>1, <4>2, <4>3, <4>4, <4>5
    <3>4. CASE Contains(new, old[at.j]) /\ Round(new, old, at) = onward(1, 1, {})
      <4>1. PICK next : next = Round(new, old, at)
        OBVIOUS
      <4>2. next.i = at.i + 1 /\ next.j = at.j + 1 /\ next.turned = at.turned
        BY <1>4, <3>4, <4>1
      <4>3. \A k \in DOMAIN old : k < next.j /\ ~ Contains(new, old[k]) => <<old[k], Nil>> \in next.turned
        BY <1>2, <1>4, <3>1, <3>4, <4>2
      <4>4. next.j = Len(old) + 1 \/ (next.j <= Len(old) /\ next.j = (n + 1) + 1)
        BY <1>2, <3>1, <4>2
      <4>5. QED
        BY <1>4, <4>1, <4>2, <4>3, <4>4
    <3>5. QED
      BY <3>2, <3>3, <3>4
  <2>3. QED
    BY <2>1, <2>2
<1> HIDE DEF Good
<1>5. \A n \in 0..m : Good(f[n], n)
  <2> DEFINE T == {n \in 0..m : ~ Good(f[n], n)}
  <2> SUFFICES ASSUME T # {} PROVE FALSE
    OBVIOUS
  <2>1. PICK n \in T : \A k \in T : n <= k
    <3>1. T \subseteq Nat
      BY <1>1
    <3> HIDE DEF T
    <3>2. QED
      BY <3>1, LeastNumber
  <2>2. n # 0
    BY <1>1, <1>3, <2>1
  <2>3. n - 1 \in Nat /\ n - 1 \in 0..m /\ n - 1 \notin T /\ n \in 1..m
    BY <1>1, <2>1, <2>2
  <2>4. Good(f[n - 1], n - 1)
    BY <2>3
  <2>5. Good(Round(new, old, f[n - 1]), (n - 1) + 1)
    BY <1>4, <2>3, <2>4
  <2>6. (n - 1) + 1 = n /\ f[n] = Round(new, old, f[n - 1])
    BY <1>1, <2>1, <2>3
  <2>7. QED
    BY <2>1, <2>5, <2>6
<1>6. Good(f[m], m)
  BY <1>1, <1>5
<1>7. f[m].j = Len(old) + 1
  BY <1>1, <1>2, <1>6 DEF Good
<1>8. QED
  BY <1>1, <1>2, <1>6, <1>7 DEF Good

(* A list of which one is replaced: it is turned to its successor.         *)
LEMMA DiffOfOneReplaced ==
  ASSUME NEW new \in Seq(Object), NEW old \in Seq(Object), DOMAIN new = DOMAIN old,
         NEW p \in DOMAIN old, ~ Contains(old, new[p]), ~ Contains(new, old[p]),
         \A i \in DOMAIN old : i # p => new[i] = old[i]
  PROVE  DiffArrays(new, old) = {<<old[p], new[p]>>}
<1>0. PICK m \in Nat : \E f :
         /\ m = Len(new) + Len(old) /\ DiffArrays(new, old) = f[m].turned
         /\ f[0] = Begin /\ \A n \in 1..m : f[n] = Round(new, old, f[n - 1])
  BY LastRound
<1>1. PICK f :
         /\ m = Len(new) + Len(old) /\ DiffArrays(new, old) = f[m].turned
         /\ f[0] = Begin /\ \A n \in 1..m : f[n] = Round(new, old, f[n - 1])
  BY <1>0
<1>2. Len(new) \in Nat /\ Len(old) \in Nat /\ DOMAIN new = 1..Len(new) /\ DOMAIN old = 1..Len(old)
      /\ Len(new) = Len(old)
  OBVIOUS
<1> DEFINE Good(at, n) ==
              /\ at.j \in Nat /\ at.j > 0 /\ at.i = at.j
              /\ at.j = Len(old) + 1 \/ (at.j <= Len(old) /\ at.j = n + 1)
              /\ at.turned = IF p < at.j THEN {<<old[p], new[p]>>} ELSE {}
<1>3. Good(Begin, 0)
  BY <1>2 DEF Begin
<1>4. ASSUME NEW at, NEW n \in Nat, Good(at, n) PROVE Good(Round(new, old, at), n + 1)
  <2> DEFINE onward(i, j, found) == [i |-> at.i + i, j |-> at.j + j, turned |-> at.turned \cup found]
  <2>1. CASE at.j > Len(old)
    <3>1. Round(new, old, at) = at
      BY <2>1 DEF Round
    <3>2. QED
      BY <1>2, <1>4, <2>1, <3>1
  <2>2. CASE ~(at.j > Len(old))
    <3>1. at.j \in DOMAIN old /\ at.j = n + 1 /\ ~(at.i > Len(new)) /\ at.i = at.j /\ p \in Nat
      BY <1>2, <1>4, <2>2
    <3>2. CASE at.j = p
      <4>1. Round(new, old, at) = onward(1, 1, {<<old[p], new[p]>>})
        BY <2>2, <3>1, <3>2 DEF Round
      <4>2. PICK next : next = Round(new, old, at)
        OBVIOUS
      <4>3. next.i = at.i + 1 /\ next.j = at.j + 1 /\ next.turned = at.turned \cup {<<old[p], new[p]>>}
        BY <3>1, <4>1, <4>2
      <4>4. next.turned = {<<old[p], new[p]>>} /\ p < next.j
        BY <1>4, <3>1, <3>2, <4>3
      <4>5. next.j = Len(old) + 1 \/ (next.j <= Len(old) /\ next.j = (n + 1) + 1)
        BY <1>2, <3>1, <4>3
      <4>6. QED
        BY <3>1, <4>2, <4>3, <4>4, <4>5
    <3>3. CASE at.j # p
      <4>1. Contains(old, new[at.i]) /\ Contains(new, old[at.j])
        BY <1>2, <3>1, <3>3 DEF Contains
      <4>2. Round(new, old, at) = onward(1, 1, {})
        BY <2>2, <3>1, <4>1 DEF Round
      <4>3. PICK next : next = Round(new, old, at)
        OBVIOUS
      <4>4. next.i = at.i + 1 /\ next.j = at.j + 1 /\ next.turned = at.turned
        BY <3>1, <4>2, <4>3
      <4>5. p < next.j <=> p < at.j
        BY <3>1, <3>3, <4>4
      <4>6. next.j = Len(old) + 1 \/ (next.j <= Len(old) /\ next.j = (n + 1) + 1)
        BY <1>2, <3>1, <4>4
      <4>7. QED
        BY <1>4, <3>1, <4>3, <4>4, <4>5, <4>6
    <3>4. QED
      BY <3>2, <3>3
  <2>3. QED
    BY <2>1, <2>2
<1> HIDE DEF Good
<1>5. \A n \in 0..m : Good(f[n], n)
  <2> DEFINE T == {n \in 0..m : ~ Good(f[n], n)}
  <2> SUFFICES ASSUME T # {} PROVE FALSE
    OBVIOUS
  <2>1. PICK n \in T : \A k \in T : n <= k
    <3>1. T \subseteq Nat
      BY <1>1
    <3> HIDE DEF T
    <3>2. QED
      BY <3>1, LeastNumber
  <2>2. n # 0
    BY <1>1, <1>3, <2>1
  <2>3. n - 1 \in Nat /\ n - 1 \in 0..m /\ n - 1 \notin T /\ n \in 1..m
    BY <1>1, <2>1, <2>2
  <2>4. Good(f[n - 1], n - 1)
    BY <2>3
  <2>5. Good(Round(new, old, f[n - 1]), (n - 1) + 1)
    BY <1>4, <2>3, <2>4
  <2>6. (n - 1) + 1 = n /\ f[n] = Round(new, old, f[n - 1])
    BY <1>1, <2>1, <2>3
  <2>7. QED
    BY <2>1, <2>5, <2>6
<1>6. Good(f[m], m)
  BY <1>1, <1>5
<1>7. f[m].j = Len(old) + 1
  BY <1>1, <1>2, <1>6 DEF Good
<1>8. QED
  BY <1>1, <1>2, <1>6, <1>7 DEF Good

-----------------------------------------------------------------------------
(* Each part has one object in the list. *)
Apart(list) == \A i, j \in DOMAIN list : list[i].part = list[j].part => i = j
PartsOf(list) == {list[i].part : i \in DOMAIN list}

(* References lead into the list, to the parts they have to lead to. *)
Lead(list, ends, to) ==
    \A l \in Reference : /\ PartWith(ends[l]) = to[l]
                         /\ ends[l] # Nil => Contains(list, ends[l])

(* What a save has sent is whole, and it is what the page shows, as long   *)
(* as nothing was changed.                                                 *)
SentIsWhole ==
    UnderWayToServer =>
        /\ saving \in Saving /\ IsInjective(saving.of.parts)
        /\ \A l \in Reference : saving.of.links[l] # Nil => Contains(saving.of.parts, saving.of.links[l])
        /\ ~saving.overtaken => saving.of = Attributes

ReferencesInv ==
    /\ ReferencesTypeOK
    /\ Apart(parts) /\ Lead(parts, refs, aim)
    /\ SentIsWhole
    /\ saving.stage = "saved" => server = Attributes

LEMMA ObjectIs ==
  ASSUME NEW o \in Object
  PROVE  o.part \in Part /\ o.copy \in {0, 1} /\ o.id \in BOOLEAN /\ o # Nil /\ o.part # Nil
<1>1. o.part \in Part /\ o.copy \in {0, 1} /\ o.id \in BOOLEAN
  BY DEF Object
<1>2. QED
  BY <1>1, ReferencesAssumption

LEMMA NewObjectIs ==
  ASSUME NEW p \in Part
  PROVE  /\ NewObject(p) \in Object /\ NewObject(p).part = p /\ NewObject(p) # Nil
         /\ PartWith(NewObject(p)) = p
<1>1. NewObject(p) \in Object /\ NewObject(p).part = p
  BY DEF NewObject, Object
<1>2. QED
  BY <1>1, ObjectIs DEF PartWith

LEMMA ListIs ==
  ASSUME NEW list \in Seq(Object)
  PROVE  /\ Len(list) \in Nat /\ DOMAIN list = 1..Len(list)
         /\ \A i \in DOMAIN list : list[i] \in Object /\ list[i].part \in Part
         /\ \A o : Contains(list, o) <=> \E i \in DOMAIN list : list[i] = o
         /\ PartsOf(list) \subseteq Part /\ Nil \notin PartsOf(list)
<1>1. Len(list) \in Nat /\ DOMAIN list = 1..Len(list) /\ \A i \in DOMAIN list : list[i] \in Object
  OBVIOUS
<1>2. \A i \in DOMAIN list : list[i].part \in Part
  BY <1>1, ObjectIs
<1>3. QED
  BY <1>1, <1>2, ReferencesAssumption DEF Contains, PartsOf

LEMMA ReferencesParts ==
  ASSUME ReferencesInv
  PROVE  /\ parts \in Seq(Object) /\ refs \in [Reference -> Object \cup {Nil}]
         /\ aim \in [Reference -> Part \cup {Nil}] /\ server \in InServer
         /\ Apart(parts) /\ Lead(parts, refs, aim)
         /\ \A l \in Reference : /\ refs[l] \in Object \cup {Nil} /\ aim[l] \in Part \cup {Nil}
                                 /\ PartWith(refs[l]) = aim[l]
                                 /\ refs[l] # Nil => Contains(parts, refs[l]) /\ aim[l] = refs[l].part
                                 /\ refs[l] = Nil => aim[l] = Nil
BY DEF ReferencesInv, ReferencesTypeOK, Lead, PartWith

(* The page was changed. *)
LEMMA PageChanged ==
  ASSUME ReferencesInv, Overtake, UNCHANGED server,
         parts' \in Seq(Object), refs' \in [Reference -> Object \cup {Nil}],
         aim' \in [Reference -> Part \cup {Nil}],
         Apart(parts'), Lead(parts', refs', aim')
  PROVE  ReferencesInv'
<1>1. CASE UnderWayToServer
  <2>1. /\ saving \in Saving /\ IsInjective(saving.of.parts)
        /\ \A l \in Reference : saving.of.links[l] # Nil => Contains(saving.of.parts, saving.of.links[l])
    BY <1>1 DEF ReferencesInv, SentIsWhole
  <2>2. saving' = [saving EXCEPT !.overtaken = TRUE]
    BY <1>1 DEF Overtake
  <2>3. /\ saving' \in Saving /\ saving'.of = saving.of /\ saving'.overtaken = TRUE
        /\ saving'.stage \in {"first", "second"}
    BY <2>1, <2>2 DEF Saving
  <2>4. SentIsWhole' /\ saving'.stage # "saved"
    BY <2>1, <2>3 DEF SentIsWhole
  <2>5. ReferencesTypeOK'
    BY <2>3 DEF ReferencesTypeOK, ReferencesInv
  <2>6. QED
    BY <2>4, <2>5 DEF ReferencesInv
<1>2. CASE ~UnderWayToServer
  <2>1. saving' = [stage |-> "idle"] /\ saving'.stage = "idle"
    BY <1>2 DEF Overtake
  <2>2. ReferencesTypeOK'
    BY <2>1 DEF ReferencesTypeOK, ReferencesInv
  <2>3. SentIsWhole'
    BY <2>1 DEF SentIsWhole, UnderWayToServer
  <2>4. QED
    BY <2>1, <2>2, <2>3 DEF ReferencesInv
<1>3. QED
  BY <1>1, <1>2

(* updateEntity with a list that has each part once, when each reference   *)
(* into the old list that is not in the new one is found to lead to the    *)
(* successor of its part, or to nothing when there is none.                *)
LEMMA ChangeKeeps ==
  ASSUME ReferencesInv, NEW new \in Seq(Object), Apart(new), Change(new),
         \A k \in DOMAIN parts : ~ Contains(new, parts[k]) =>
            /\ \E c \in DiffArrays(new, parts) : c[1] = parts[k]
            /\ \A c \in DiffArrays(new, parts) : c[1] = parts[k] =>
                  \/ c[2] \in Object /\ Contains(new, c[2]) /\ c[2].part = parts[k].part
                  \/ c[2] = Nil /\ parts[k].part \notin PartsOf(new),
         \A k \in DOMAIN parts : Contains(new, parts[k]) => parts[k].part \in PartsOf(new)
  PROVE  ReferencesInv'
<1>1. /\ parts' = new /\ refs' = Restored(refs, new, parts)
      /\ aim' = [l \in Reference |-> IF aim[l] \in PartsOf(new) THEN aim[l] ELSE Nil]
      /\ Overtake /\ UNCHANGED server
  BY DEF Change, PartsOf
<1>2. /\ parts \in Seq(Object)
      /\ \A l \in Reference : /\ refs[l] \in Object \cup {Nil} /\ aim[l] \in Part \cup {Nil}
                              /\ refs[l] # Nil => Contains(parts, refs[l]) /\ aim[l] = refs[l].part
                              /\ refs[l] = Nil => aim[l] = Nil
  BY ReferencesParts
<1>3. ASSUME NEW l \in Reference
      PROVE  /\ refs'[l] \in Object \cup {Nil} /\ aim'[l] \in Part \cup {Nil}
             /\ PartWith(refs'[l]) = aim'[l]
             /\ refs'[l] # Nil => Contains(new, refs'[l])
  <2> DEFINE turned == {c \in DiffArrays(new, parts) : c[1] = refs[l]}
  <2>1. /\ refs'[l] = IF refs[l] = Nil \/ Contains(new, refs[l]) THEN refs[l]
                      ELSE (CHOOSE c \in turned : TRUE)[2]
        /\ aim'[l] = IF aim[l] \in PartsOf(new) THEN aim[l] ELSE Nil
    BY <1>1 DEF Restored
  <2>2. CASE refs[l] = Nil
    <3>1. refs'[l] = Nil /\ aim'[l] = Nil
      BY <1>2, <2>1, <2>2
    <3>2. QED
      BY <3>1 DEF PartWith
  <2>3. CASE refs[l] # Nil
    <3>1. PICK k \in DOMAIN parts : refs[l] = parts[k]
      BY <1>2, <2>3, ListIs
    <3>2. aim[l] = parts[k].part /\ aim[l] \in Part \cup {Nil} /\ refs[l] \in Object \cup {Nil}
      BY <1>2, <2>3, <3>1
    <3>3. CASE Contains(new, refs[l])
      <4>1. refs'[l] = refs[l] /\ aim'[l] = aim[l]
        BY <2>1, <3>1, <3>2, <3>3
      <4>2. QED
        BY <2>3, <3>1, <3>2, <3>3, <4>1 DEF PartWith
    <3>4. CASE ~ Contains(new, refs[l])
      <4>1. PICK c \in turned : refs'[l] = c[2]
        <5>1. turned # {}
          BY <3>1, <3>4
        <5>2. refs'[l] = (CHOOSE c \in turned : TRUE)[2]
          BY <2>1, <2>3, <3>4
        <5> HIDE DEF turned
        <5>3. QED
          BY <5>1, <5>2
      <4>2. \/ c[2] \in Object /\ Contains(new, c[2]) /\ c[2].part = parts[k].part
            \/ c[2] = Nil /\ parts[k].part \notin PartsOf(new)
        BY <3>1, <3>4, <4>1
      <4>3. CASE c[2] \in Object /\ Contains(new, c[2]) /\ c[2].part = parts[k].part
        <5>1. c[2].part \in PartsOf(new)
          BY <4>3, ListIs DEF PartsOf
        <5>2. aim'[l] = c[2].part
          BY <2>1, <3>2, <4>3, <5>1
        <5>3. c[2] # Nil /\ c[2].part \in Part
          BY <4>3, ObjectIs
        <5>4. QED
          BY <4>1, <4>3, <5>2, <5>3 DEF PartWith
      <4>4. CASE c[2] = Nil /\ parts[k].part \notin PartsOf(new)
        BY <2>1, <3>2, <4>1, <4>4 DEF PartWith
      <4>5. QED
        BY <4>2, <4>3, <4>4
    <3>5. QED
      BY <3>3, <3>4
  <2>4. QED
    BY <2>2, <2>3
<1>4. refs' \in [Reference -> Object \cup {Nil}]
  <2>1. refs' = [l \in Reference |-> refs'[l]]
    BY <1>1 DEF Restored
  <2>2. QED
    BY <1>3, <2>1
<1>5. aim' \in [Reference -> Part \cup {Nil}]
  <2>1. aim' = [l \in Reference |-> aim'[l]]
    BY <1>1
  <2>2. QED
    BY <1>3, <2>1
<1>6. Lead(parts', refs', aim')
  BY <1>1, <1>3 DEF Lead
<1>7. QED
  BY <1>1, <1>4, <1>5, <1>6, PageChanged

LEMMA ReferencesInvInit == ReferencesInit => ReferencesInv
<1> SUFFICES ASSUME ReferencesInit PROVE ReferencesInv
  OBVIOUS
<1>1. /\ parts = [i \in DOMAIN StartParts |-> NewObject(StartParts[i])]
      /\ refs = NoLinks /\ aim = NoLinks
      /\ server = [parts |-> StartParts, links |-> NoLinks] /\ saving = [stage |-> "idle"]
  BY DEF ReferencesInit
<1>2. /\ StartParts \in Seq(Part) /\ Len(StartParts) \in Nat /\ DOMAIN StartParts = 1..Len(StartParts)
      /\ \A i \in DOMAIN StartParts : StartParts[i] \in Part
      /\ \A i, j \in DOMAIN StartParts : StartParts[i] = StartParts[j] => i = j
  BY ReferencesAssumption DEF IsInjective
<1>3. \A i \in DOMAIN StartParts : /\ NewObject(StartParts[i]) \in Object
                                   /\ NewObject(StartParts[i]).part = StartParts[i]
  BY <1>2, NewObjectIs
<1>4. parts \in Seq(Object) /\ Apart(parts)
  BY <1>1, <1>2, <1>3 DEF Apart
<1>5. /\ refs \in [Reference -> Object \cup {Nil}] /\ aim \in [Reference -> Part \cup {Nil}]
      /\ NoLinks \in [Reference -> Part \cup {Nil}]
  BY <1>1 DEF NoLinks
<1>6. server \in InServer
  BY <1>1, <1>2, <1>5 DEF InServer
<1>7. Lead(parts, refs, aim)
  BY <1>1 DEF Lead, NoLinks, PartWith
<1>8. saving.stage = "idle" /\ ~UnderWayToServer
  BY <1>1 DEF UnderWayToServer
<1>9. ReferencesTypeOK
  BY <1>4, <1>5, <1>6, <1>8 DEF ReferencesTypeOK
<1>10. QED
  BY <1>4, <1>7, <1>8, <1>9 DEF ReferencesInv, SentIsWhole

LEMMA AddPartKeeps == ASSUME ReferencesInv, NEW p \in Part, AddPart(p) PROVE ReferencesInv'
<1> DEFINE o == [part |-> p, copy |-> 0, id |-> FALSE]
           new == Append(parts, o)
<1>1. /\ \A j \in DOMAIN parts : parts[j].part # p
      /\ Change(new)
  BY DEF AddPart
<1>2. parts \in Seq(Object) /\ Apart(parts) /\ Len(parts) \in Nat /\ DOMAIN parts = 1..Len(parts)
  BY ReferencesParts
<1>3. o \in Object /\ o.part = p
  BY DEF Object
<1> HIDE DEF o
<1>4. /\ new \in Seq(Object) /\ DOMAIN new = 1..(Len(parts) + 1) /\ new[Len(parts) + 1] = o
      /\ \A i \in DOMAIN parts : i \in DOMAIN new /\ new[i] = parts[i]
  BY <1>2, <1>3
<1> HIDE DEF new
<1>5. Apart(new)
  BY <1>1, <1>2, <1>3, <1>4 DEF Apart
<1>6. \A k \in DOMAIN parts : Contains(new, parts[k]) /\ parts[k].part \in PartsOf(new)
  BY <1>4, ListIs DEF PartsOf
<1>7. QED
  BY <1>1, <1>4, <1>5, <1>6, ChangeKeeps

LEMMA EditPartKeeps == ASSUME ReferencesInv, NEW i \in DOMAIN parts, EditPart(i) PROVE ReferencesInv'
<1> DEFINE o == [parts[i] EXCEPT !.copy = 1 - parts[i].copy]
           new == [parts EXCEPT ![i] = o]
<1>1. Change(new)
  BY DEF EditPart
<1>2. parts \in Seq(Object) /\ Apart(parts) /\ Len(parts) \in Nat /\ DOMAIN parts = 1..Len(parts)
      /\ parts[i] \in Object
  BY ReferencesParts
<1>3. o \in Object /\ o.part = parts[i].part /\ o # parts[i]
  <2>1. \A x \in Object : LET y == [x EXCEPT !.copy = 1 - x.copy]
                          IN  y \in Object /\ y.part = x.part /\ y.copy = 1 - x.copy /\ x.copy \in {0, 1}
    BY DEF Object
  <2>2. o \in Object /\ o.part = parts[i].part /\ o.copy = 1 - parts[i].copy /\ parts[i].copy \in {0, 1}
    BY <1>2, <2>1
  <2>3. 1 - parts[i].copy # parts[i].copy
    BY <2>2
  <2>4. QED
    BY <2>2, <2>3
<1> HIDE DEF o
<1>4. /\ new \in Seq(Object) /\ DOMAIN new = DOMAIN parts /\ new[i] = o
      /\ \A j \in DOMAIN parts : j # i => new[j] = parts[j]
  BY <1>2, <1>3
<1> HIDE DEF new
<1>5. \A j \in DOMAIN parts : new[j].part = parts[j].part
  BY <1>3, <1>4
<1>6. Apart(new) /\ PartsOf(new) = PartsOf(parts)
  BY <1>2, <1>4, <1>5 DEF Apart, PartsOf
<1>7. ~ Contains(parts, new[i]) /\ ~ Contains(new, parts[i])
  <2>1. ASSUME NEW j \in DOMAIN parts, parts[j] = new[i] PROVE FALSE
    <3>1. parts[j].part = parts[i].part
      BY <1>5, <2>1
    <3>2. j = i
      BY <1>2, <3>1 DEF Apart
    <3>3. QED
      BY <1>3, <1>4, <2>1, <3>2
  <2>2. ASSUME NEW j \in DOMAIN new, new[j] = parts[i] PROVE FALSE
    <3>1. j \in DOMAIN parts /\ parts[j].part = parts[i].part
      BY <1>4, <1>5, <2>2
    <3>2. j = i
      BY <1>2, <3>1 DEF Apart
    <3>3. QED
      BY <1>3, <1>4, <2>2, <3>2
  <2>3. QED
    BY <1>2, <1>4, <2>1, <2>2, ListIs
<1>8. DiffArrays(new, parts) = {<<parts[i], new[i]>>}
  BY <1>2, <1>4, <1>7, DiffOfOneReplaced
<1>9. \A k \in DOMAIN parts : ~ Contains(new, parts[k]) => k = i
  BY <1>4, ListIs
<1>10. Contains(new, new[i]) /\ new[i] \in Object /\ new[i].part = parts[i].part
  BY <1>3, <1>4, ListIs
<1>11. \A k \in DOMAIN parts : ~ Contains(new, parts[k]) =>
         /\ \E c \in DiffArrays(new, parts) : c[1] = parts[k]
         /\ \A c \in DiffArrays(new, parts) : c[1] = parts[k] =>
               c[2] \in Object /\ Contains(new, c[2]) /\ c[2].part = parts[k].part
  BY <1>8, <1>9, <1>10
<1>12. \A k \in DOMAIN parts : parts[k].part \in PartsOf(new)
  BY <1>6 DEF PartsOf
<1>13. QED
  BY <1>1, <1>4, <1>6, <1>11, <1>12, ChangeKeeps

LEMMA MovePartKeeps == ASSUME ReferencesInv, NEW i \in DOMAIN parts, MovePart(i) PROVE ReferencesInv'
<1> DEFINE new == [parts EXCEPT ![i] = parts[i + 1], ![i + 1] = parts[i]]
<1>1. Change(new) /\ i + 1 \in DOMAIN parts
  BY DEF MovePart
<1>2. parts \in Seq(Object) /\ Apart(parts) /\ Len(parts) \in Nat /\ DOMAIN parts = 1..Len(parts)
      /\ i \in Nat /\ i # i + 1
  BY ReferencesParts
<1>3. /\ new \in Seq(Object) /\ DOMAIN new = DOMAIN parts
      /\ new[i] = parts[i + 1] /\ new[i + 1] = parts[i]
      /\ \A j \in DOMAIN parts : j # i /\ j # i + 1 => new[j] = parts[j]
  BY <1>1, <1>2
<1> HIDE DEF new
<1>4. Apart(new)
  BY <1>1, <1>2, <1>3 DEF Apart
<1>5. \A k \in DOMAIN parts : \E j \in DOMAIN new : new[j] = parts[k]
  BY <1>1, <1>2, <1>3
<1>6. \A k \in DOMAIN parts : Contains(new, parts[k]) /\ parts[k].part \in PartsOf(new)
  BY <1>3, <1>5, ListIs DEF PartsOf
<1>7. QED
  BY <1>1, <1>3, <1>4, <1>6, ChangeKeeps

LEMMA DeletePartsKeeps ==
  ASSUME ReferencesInv, NEW gone \in SUBSET Part, DeleteParts(gone) PROVE ReferencesInv'
<1> DEFINE places == {i \in DOMAIN parts : parts[i].part \notin gone}
           new == Kept(parts, places)
           order == InOrder(places)
<1>1. Change(new)
  BY DEF DeleteParts
<1>2. parts \in Seq(Object) /\ Apart(parts) /\ places \subseteq DOMAIN parts
  BY ReferencesParts
<1>3. \A i \in places : parts[i].part \notin gone
  OBVIOUS
<1>4. \A k \in DOMAIN parts : k \in places \/ parts[k].part \in gone
  OBVIOUS
<1> HIDE DEF places
<1>5. /\ new \in Seq(Object)
      /\ \A n \in DOMAIN new : order[n] \in places /\ new[n] = parts[order[n]]
      /\ \A m, n \in DOMAIN new : m # n => order[m] # order[n]
      /\ \A i \in places : \E n \in DOMAIN new : order[n] = i
  BY <1>2, KeptIs
<1> HIDE DEF new, order
<1>6. Apart(new)
  BY <1>2, <1>5 DEF Apart
<1>7. \A n \in DOMAIN new : Contains(parts, new[n])
  BY <1>2, <1>5, ListIs
<1>8. \A k \in places : Contains(new, parts[k]) /\ parts[k].part \in PartsOf(new)
  <2> TAKE k \in places
  <2>1. PICK n \in DOMAIN new : order[n] = k
    BY <1>5
  <2>2. new[n] = parts[k]
    BY <1>5, <2>1
  <2>3. QED
    BY <1>5, <2>2, ListIs DEF PartsOf
<1>9. \A k \in DOMAIN parts : k \notin places =>
         parts[k].part \notin PartsOf(new) /\ ~ Contains(new, parts[k])
  <2> SUFFICES ASSUME NEW k \in DOMAIN parts, k \notin places, NEW n \in DOMAIN new
               PROVE  new[n].part # parts[k].part
    BY <1>5, ListIs DEF PartsOf
  <2>1. parts[k].part \in gone /\ new[n].part \notin gone
    BY <1>3, <1>4, <1>5
  <2>2. QED
    BY <2>1
<1>10. /\ \A c \in DiffArrays(new, parts) : c[2] = Nil
       /\ \A k \in DOMAIN parts : ~ Contains(new, parts[k]) => <<parts[k], Nil>> \in DiffArrays(new, parts)
  BY <1>2, <1>5, <1>7, DiffOfFewer
<1>11. \A k \in DOMAIN parts : ~ Contains(new, parts[k]) =>
         /\ \E c \in DiffArrays(new, parts) : c[1] = parts[k]
         /\ \A c \in DiffArrays(new, parts) : c[1] = parts[k] =>
               c[2] = Nil /\ parts[k].part \notin PartsOf(new)
  <2> SUFFICES ASSUME NEW k \in DOMAIN parts, ~ Contains(new, parts[k])
               PROVE  /\ \E c \in DiffArrays(new, parts) : c[1] = parts[k]
                      /\ \A c \in DiffArrays(new, parts) : c[2] = Nil /\ parts[k].part \notin PartsOf(new)
    OBVIOUS
  <2>1. <<parts[k], Nil>> \in DiffArrays(new, parts)
    BY <1>10
  <2>2. k \notin places
    BY <1>8
  <2>3. QED
    BY <1>9, <1>10, <2>1, <2>2
<1>12. \A k \in DOMAIN parts : Contains(new, parts[k]) => parts[k].part \in PartsOf(new)
  BY <1>8, <1>9
<1>13. QED
  BY <1>1, <1>5, <1>6, <1>11, <1>12, ChangeKeeps

LEMMA LinkToKeeps ==
  ASSUME ReferencesInv, NEW l \in Reference, NEW i \in DOMAIN parts, LinkTo(l, i) PROVE ReferencesInv'
<1>1. /\ refs' = [refs EXCEPT ![l] = parts[i]] /\ aim' = [aim EXCEPT ![l] = parts[i].part]
      /\ Overtake /\ UNCHANGED <<parts, server>>
  BY DEF LinkTo
<1>2. /\ parts \in Seq(Object) /\ refs \in [Reference -> Object \cup {Nil}]
      /\ aim \in [Reference -> Part \cup {Nil}] /\ Apart(parts) /\ Lead(parts, refs, aim)
  BY ReferencesParts
<1>3. /\ parts[i] \in Object /\ parts[i].part \in Part /\ PartWith(parts[i]) = parts[i].part
      /\ Contains(parts, parts[i])
  BY <1>2, ListIs, ObjectIs DEF PartWith
<1>4. refs' \in [Reference -> Object \cup {Nil}] /\ aim' \in [Reference -> Part \cup {Nil}]
  BY <1>1, <1>2, <1>3
<1>5. Lead(parts', refs', aim')
  BY <1>1, <1>2, <1>3 DEF Lead
<1>6. QED
  BY <1>1, <1>2, <1>4, <1>5, PageChanged

(* What the page shows, as it is sent. *)
LEMMA AttributesAre ==
  ASSUME ReferencesInv
  PROVE  /\ Attributes \in InServer /\ IsInjective(Attributes.parts)
         /\ Attributes.parts = [i \in DOMAIN parts |-> parts[i].part]
         /\ Attributes.links = aim
         /\ \A l \in Reference : Attributes.links[l] # Nil => Contains(Attributes.parts, Attributes.links[l])
<1>1. /\ parts \in Seq(Object) /\ aim \in [Reference -> Part \cup {Nil}] /\ Apart(parts)
      /\ \A l \in Reference : /\ PartWith(refs[l]) = aim[l]
                              /\ refs[l] # Nil => Contains(parts, refs[l]) /\ aim[l] = refs[l].part
                              /\ refs[l] = Nil => aim[l] = Nil
  BY ReferencesParts
<1>2. /\ Attributes.parts = [i \in DOMAIN parts |-> parts[i].part]
      /\ Attributes.links = [l \in Reference |-> PartWith(refs[l])]
      /\ Attributes = [parts |-> Attributes.parts, links |-> Attributes.links]
  BY DEF Attributes
<1>3. Attributes.links = aim
  BY <1>1, <1>2
<1>4. Attributes.parts \in Seq(Part) /\ DOMAIN Attributes.parts = DOMAIN parts
      /\ \A i \in DOMAIN parts : Attributes.parts[i] = parts[i].part
      /\ Len(Attributes.parts) = Len(parts)
  BY <1>1, <1>2, ListIs
<1>5. Attributes \in InServer
  BY <1>1, <1>2, <1>3, <1>4 DEF InServer
<1>6. IsInjective(Attributes.parts)
  BY <1>1, <1>4 DEF IsInjective, Apart
<1>7. ASSUME NEW l \in Reference, aim[l] # Nil PROVE Contains(Attributes.parts, aim[l])
  <2>1. PICK i \in DOMAIN parts : refs[l] = parts[i] /\ aim[l] = parts[i].part
    BY <1>1, <1>7, ListIs
  <2>2. QED
    BY <1>1, <1>4, <2>1, ListIs DEF Contains
<1>8. QED
  BY <1>2, <1>3, <1>5, <1>6, <1>7

LEMMA SavePartsKeeps == ASSUME ReferencesInv, SaveParts PROVE ReferencesInv'
<1> DEFINE waiting == {l \in Reference : refs[l] # Nil /\ ~refs[l].id}
<1>1. /\ saving' = [stage |-> "first", of |-> Attributes, overtaken |-> FALSE, new |-> waiting]
      /\ UNCHANGED <<parts, refs, aim, server>>
  BY DEF SaveParts
<1>2. Attributes' = Attributes
  BY <1>1 DEF Attributes
<1>3. waiting \in SUBSET Reference
  OBVIOUS
<1> HIDE DEF waiting
<1>4. /\ saving' \in Saving /\ saving'.of = Attributes /\ saving'.stage = "first"
  BY <1>1, <1>3, AttributesAre DEF Saving
<1>5. SentIsWhole'
  BY <1>2, <1>4, AttributesAre DEF SentIsWhole
<1>6. ReferencesTypeOK'
  BY <1>1, <1>4 DEF ReferencesInv, ReferencesTypeOK
<1>7. QED
  BY <1>1, <1>4, <1>5, <1>6 DEF ReferencesInv

(* The last answer is taken over. *)
LEMMA TakeOverKeeps ==
  ASSUME ReferencesInv, UnderWayToServer, server' = saving.of, TakeOver(saving.of)
  PROVE  ReferencesInv'
<1> DEFINE of == saving.of
<1>1. /\ saving \in Saving /\ of \in InServer /\ IsInjective(of.parts)
      /\ \A l \in Reference : of.links[l] # Nil => Contains(of.parts, of.links[l])
      /\ ~saving.overtaken => of = Attributes
  <2>1. \A s \in Saving : s.of \in InServer
    BY DEF Saving
  <2>2. QED
    BY <2>1 DEF ReferencesInv, SentIsWhole
<1>2. of.parts \in Seq(Part) /\ of.links \in [Reference -> Part \cup {Nil}]
      /\ of = [parts |-> of.parts, links |-> of.links]
  BY <1>1 DEF InServer
<1>3. /\ saving' = [stage |-> "saved"]
      /\ parts' = [i \in DOMAIN of.parts |-> NewObject(of.parts[i])]
      /\ refs' = [l \in Reference |-> IF of.links[l] = Nil THEN Nil ELSE NewObject(of.links[l])]
      /\ aim' = IF saving.overtaken THEN of.links ELSE aim
  BY DEF TakeOver
<1>4. aim' = of.links
  BY <1>1, <1>3, AttributesAre
<1> HIDE DEF of
<1>5. DOMAIN of.parts = 1..Len(of.parts) /\ Len(of.parts) \in Nat
      /\ \A i \in DOMAIN of.parts : of.parts[i] \in Part
  BY <1>2
<1>6. parts' \in Seq(Object) /\ DOMAIN parts' = DOMAIN of.parts /\ Len(parts') = Len(of.parts)
      /\ \A i \in DOMAIN parts' : parts'[i] = NewObject(of.parts[i]) /\ parts'[i].part = of.parts[i]
  BY <1>3, <1>5, NewObjectIs
<1>7. Apart(parts')
  BY <1>1, <1>6 DEF Apart, IsInjective
<1>8. ASSUME NEW l \in Reference
      PROVE  /\ refs'[l] \in Object \cup {Nil} /\ PartWith(refs'[l]) = of.links[l]
             /\ refs'[l] # Nil => Contains(parts', refs'[l])
  <2>1. CASE of.links[l] = Nil
    BY <1>3, <2>1 DEF PartWith
  <2>2. CASE of.links[l] # Nil
    <3>1. of.links[l] \in Part /\ refs'[l] = NewObject(of.links[l])
      BY <1>2, <1>3, <2>2
    <3>2. PICK i \in DOMAIN of.parts : of.parts[i] = of.links[l]
      BY <1>1, <1>5, <2>2 DEF Contains
    <3>3. Contains(parts', refs'[l])
      BY <1>6, <3>1, <3>2, ListIs
    <3>4. QED
      BY <3>1, <3>3, NewObjectIs
  <2>3. QED
    BY <2>1, <2>2
<1>9. Lead(parts', refs', aim')
  BY <1>4, <1>8 DEF Lead
<1>10. refs' \in [Reference -> Object \cup {Nil}]
  <2>1. refs' = [l \in Reference |-> refs'[l]]
    BY <1>3
  <2>2. QED
    BY <1>8, <2>1
<1>11. server' = of /\ of \in InServer
  BY <1>1 DEF of
<1>12. ReferencesTypeOK'
  BY <1>2, <1>3, <1>4, <1>6, <1>10, <1>11 DEF ReferencesTypeOK
<1>13. Attributes' = of
  <2>1. [i \in DOMAIN parts' |-> parts'[i].part] = of.parts
    BY <1>2, <1>5, <1>6
  <2>2. [l \in Reference |-> PartWith(refs'[l])] = of.links
    BY <1>2, <1>8
  <2>3. QED
    BY <1>2, <2>1, <2>2 DEF Attributes
<1>14. ~UnderWayToServer'
  BY <1>3 DEF UnderWayToServer
<1>15. QED
  BY <1>7, <1>9, <1>11, <1>12, <1>13, <1>14 DEF ReferencesInv, SentIsWhole

LEMMA FirstSavedKeeps == ASSUME ReferencesInv, FirstSaved PROVE ReferencesInv'
<1> DEFINE links == [l \in Reference |-> IF l \in saving.new THEN Nil ELSE saving.of.links[l]]
           sent == [saving.of EXCEPT !.links = links]
<1>1. /\ saving.stage = "first" /\ server' = sent
      /\ IF saving.new = {} THEN TakeOver(sent)
         ELSE saving' = [saving EXCEPT !.stage = "second"] /\ UNCHANGED <<parts, refs, aim>>
  BY DEF FirstSaved, InServer
<1>2. /\ UnderWayToServer /\ saving \in Saving /\ IsInjective(saving.of.parts)
      /\ \A l \in Reference : saving.of.links[l] # Nil => Contains(saving.of.parts, saving.of.links[l])
      /\ ~saving.overtaken => saving.of = Attributes
  BY <1>1 DEF ReferencesInv, SentIsWhole, UnderWayToServer
<1>3. saving.of \in InServer /\ saving.of.links \in [Reference -> Part \cup {Nil}]
      /\ saving.of.parts \in Seq(Part) /\ saving.of = [parts |-> saving.of.parts, links |-> saving.of.links]
  <2>1. saving.of \in InServer
    BY <1>2 DEF Saving
  <2>2. QED
    BY <2>1 DEF InServer
<1>4. CASE saving.new = {}
  <2>1. links = saving.of.links
    BY <1>3, <1>4
  <2>2. sent = saving.of
    BY <1>3, <2>1
  <2> HIDE DEF sent
  <2>3. QED
    BY <1>1, <1>2, <1>4, <2>2, TakeOverKeeps
<1>5. CASE saving.new # {}
  <2>1. links \in [Reference -> Part \cup {Nil}]
    BY <1>3
  <2> HIDE DEF links
  <2>2. sent \in InServer
    BY <1>3, <2>1 DEF InServer
  <2> HIDE DEF sent
  <2>3. saving' = [saving EXCEPT !.stage = "second"] /\ UNCHANGED <<parts, refs, aim>>
    BY <1>1, <1>5
  <2>4. /\ saving' \in Saving /\ saving'.of = saving.of /\ saving'.overtaken = saving.overtaken
        /\ saving'.stage = "second"
    BY <1>2, <2>3 DEF Saving
  <2>5. Attributes' = Attributes
    BY <2>3 DEF Attributes
  <2>6. SentIsWhole'
    BY <1>2, <2>4, <2>5 DEF SentIsWhole
  <2>7. ReferencesTypeOK'
    BY <1>1, <2>2, <2>3, <2>4 DEF ReferencesInv, ReferencesTypeOK
  <2>8. QED
    BY <2>3, <2>4, <2>6, <2>7 DEF ReferencesInv
<1>6. QED
  BY <1>4, <1>5

LEMMA SecondSavedKeeps == ASSUME ReferencesInv, SecondSaved PROVE ReferencesInv'
BY TakeOverKeeps DEF SecondSaved, UnderWayToServer

LEMMA SaveFailsKeeps == ASSUME ReferencesInv, SaveFails PROVE ReferencesInv'
<1>1. saving' = [stage |-> "idle"] /\ saving'.stage = "idle" /\ UNCHANGED <<parts, refs, aim, server>>
  BY DEF SaveFails
<1>2. ReferencesTypeOK'
  BY <1>1 DEF ReferencesInv, ReferencesTypeOK
<1>3. QED
  BY <1>1, <1>2 DEF ReferencesInv, SentIsWhole, UnderWayToServer

LEMMA ReferencesInvNext == ReferencesInv /\ [ReferencesNext]_referencesVars => ReferencesInv'
<1> SUFFICES ASSUME ReferencesInv, [ReferencesNext]_referencesVars PROVE ReferencesInv'
  OBVIOUS
<1>1. CASE UNCHANGED referencesVars
  BY <1>1 DEF ReferencesInv, referencesVars, ReferencesTypeOK, SentIsWhole, UnderWayToServer, Attributes
<1>2. CASE ReferencesNext
  BY <1>2, AddPartKeeps, EditPartKeeps, MovePartKeeps, DeletePartsKeeps, LinkToKeeps, SavePartsKeeps,
     FirstSavedKeeps, SecondSavedKeeps, SaveFailsKeeps DEF ReferencesNext
<1>3. QED
  BY <1>1, <1>2

THEOREM ReferencesInvariant == ReferencesSpec => []ReferencesInv
  BY ReferencesInvInit, ReferencesInvNext, PTL DEF ReferencesSpec

(* The parts, the references and what is saved keep their types.           *)
THEOREM ReferencesTypeCorrect == ReferencesSpec => []ReferencesTypeOK
<1>1. ReferencesInv => ReferencesTypeOK
  BY DEF ReferencesInv
<1>2. QED
  BY <1>1, ReferencesInvariant, PTL

(* For any parts and references: each reference leads to the object that   *)
(* its part is now, through every change of the list and every answer to a *)
(* save, and after a save the server has what the page shows.              *)
THEOREM ReferencesFollowCorrect == ReferencesSpec => []ReferencesFollow
<1>1. ReferencesInv => ReferencesFollow
  BY DEF ReferencesInv, ReferencesFollow, Lead
<1>2. QED
  BY <1>1, ReferencesInvariant, PTL
=============================================================================
