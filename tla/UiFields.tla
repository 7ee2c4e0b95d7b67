------------------------------ MODULE UiFields ------------------------------
(***************************************************************************)
(* The form of an object (FieldList.js, Debounced.js): its fields, and the *)
(* tables of what it contains, whose rows open to a form of their own.     *)
(*                                                                         *)
(* What is typed reaches the object half a second later, through what the  *)
(* text field was last given; the field belongs to a place of the page,    *)
(* and another row, or the row of another object that was selected, may    *)
(* have come to that place.  A field that left the page still delivers, as *)
(* an update of the list that it was last shown with.                      *)
(***************************************************************************)
EXTENDS Naturals, SequencesExt

CONSTANTS
    Element,       \* the objects that can be selected, e.g. the steps of a transformation
    Typed,         \* what can be typed into a text field of a row
    NoText,        \* the text of a new row
    StartRows,     \* the rows of each element at first: a sequence of FieldRow
    MaxRows        \* bound: rows of one element

FieldRow == [text : Typed \cup {NoText}, flag : BOOLEAN]

ASSUME FieldsAssumption ==
    /\ NoText \notin Typed
    /\ StartRows \in [Element -> Seq(FieldRow)]
    /\ MaxRows \in Nat

VARIABLES
    tableFields,   \* the rows of each element
    meant,         \* what they would be were every edit done at once (history)
    inspected,     \* the element on the page
    unfolded,      \* the places whose rows are open
    dirty,         \* what was typed at a place and has not reached the object, or NoText
    leftover,      \* the same, of fields that left the page, with what they were shown
    crossed        \* whether rows moved while something was typed (history)

fieldsVars == <<tableFields, meant, inspected, unfolded, dirty, leftover, crossed>>
-----------------------------------------------------------------------------
Place == 1..MaxRows
Settled == leftover = {} /\ \A i \in Place : dirty[i] = NoText
Shown == tableFields[inspected]
Beyond(n) == {i \in Place : i > n}

FieldsTypeOK ==
    /\ tableFields \in [Element -> Seq(FieldRow)] /\ meant \in [Element -> Seq(FieldRow)]
    /\ inspected \in Element
    /\ unfolded \subseteq Place
    /\ dirty \in [Place -> Typed \cup {NoText}]
    /\ \A i \in Place : dirty[i] # NoText => i \in unfolded /\ i \in DOMAIN Shown
    /\ leftover \subseteq [of : Element, list : Seq(FieldRow), at : Place, text : Typed]
    /\ crossed \in BOOLEAN

FieldsInit ==
    /\ tableFields = StartRows /\ meant = StartRows
    /\ inspected \in Element
    /\ unfolded = {} /\ dirty = [i \in Place |-> NoText] /\ leftover = {}
    /\ crossed = FALSE

(* The text fields of the places that leave the page go on with what they  *)
(* were shown last.                                                        *)
LeavePage(places, late) ==
    /\ leftover' = late \cup {[of |-> inspected, list |-> Shown, at |-> i, text |-> dirty[i]] :
                                 i \in {j \in places : dirty[j] # NoText}}
    /\ dirty' = [i \in Place |-> IF i \in places THEN NoText ELSE dirty[i]]

Unmount(places) == LeavePage(places, leftover)

Changed(list, i, text) == [list EXCEPT ![i].text = text]
Flipped(list, i) == [list EXCEPT ![i].flag = ~@]
(* What the user does, done at once; once things crossed it is not kept. *)
Meant(change(_)) == [meant EXCEPT ![inspected] = IF crossed THEN @ ELSE change(@)]
Swapped(list, i) == [list EXCEPT ![i] = list[i + 1], ![i + 1] = list[i]]
-----------------------------------------------------------------------------
Unfold(i) ==
    /\ i \in DOMAIN Shown \ unfolded
    /\ unfolded' = unfolded \cup {i}
    /\ UNCHANGED <<tableFields, meant, inspected, dirty, leftover, crossed>>

(* For the mutation checks: a text field that leaves the page is           *)
(* forgotten, its text is not.                                             *)
FoldKeepingText(i) ==
    /\ i \in unfolded
    /\ unfolded' = unfolded \ {i}
    /\ UNCHANGED <<dirty, leftover, tableFields, meant, inspected, crossed>>

Fold(i) ==
    /\ i \in unfolded
    /\ unfolded' = unfolded \ {i}
    /\ Unmount({i})
    /\ UNCHANGED <<tableFields, meant, inspected, crossed>>

(* For the mutation checks: the text fields share one timer, which keeps   *)
(* the last text.                                                          *)
TypeOnce(i, text) ==
    /\ i \in unfolded /\ i \in DOMAIN Shown
    /\ text # dirty[i]
    /\ dirty' = [j \in Place |-> IF j = i THEN text ELSE NoText]
    /\ meant' = Meant(LAMBDA list : Changed(list, i, text))
    /\ UNCHANGED <<tableFields, inspected, unfolded, leftover, crossed>>

(* The text field of the row at i; a key more starts the half second anew. *)
Type(i, text) ==
    /\ i \in unfolded /\ i \in DOMAIN Shown
    /\ text # dirty[i]
    /\ dirty' = [dirty EXCEPT ![i] = text]
    /\ meant' = Meant(LAMBDA list : Changed(list, i, text))
    /\ UNCHANGED <<tableFields, inspected, unfolded, leftover, crossed>>

(* Debounced.onChange of a field on the page: the row that is there now. *)
Deliver(i) ==
    /\ dirty[i] # NoText
    /\ tableFields' = [tableFields EXCEPT ![inspected] = Changed(@, i, dirty[i])]
    /\ dirty' = [dirty EXCEPT ![i] = NoText]
    /\ crossed' = (crossed \/ leftover # {})
    /\ UNCHANGED <<meant, inspected, unfolded, leftover>>

(* Debounced.onChange of a field that left the page: the list it was shown *)
(* with, changed, becomes that of the element; the places beyond it leave. *)
DeliverLate(x) ==
    /\ LeavePage(IF x.of = inspected THEN Beyond(Len(x.list)) ELSE {}, leftover \ {x})
    /\ tableFields' = [tableFields EXCEPT ![x.of] = Changed(x.list, x.at, x.text)]
    /\ crossed' = (crossed \/ leftover # {x})
    /\ UNCHANGED <<meant, inspected, unfolded>>

(* Every field but a text is delivered at once: dates, choices, numbers,   *)
(* files, embedded objects that are made and deleted.                      *)
SetFlag(i) ==
    /\ i \in unfolded /\ i \in DOMAIN Shown
    /\ tableFields' = [tableFields EXCEPT ![inspected] = Flipped(@, i)]
    /\ meant' = Meant(LAMBDA list : Flipped(list, i))
    /\ crossed' = (crossed \/ leftover # {})
    /\ UNCHANGED <<inspected, unfolded, dirty, leftover>>

(* The buttons of the table change the list as it is, and the places of    *)
(* the rows with it.                                                       *)
Arrange(change(_)) ==
    /\ tableFields' = [tableFields EXCEPT ![inspected] = change(@)]
    /\ meant' = Meant(change)
    /\ UNCHANGED <<inspected, unfolded>>

(* A row more at the end; the fields that are on the page stay in place. *)
AddRow ==
    /\ Len(Shown) < MaxRows
    /\ Arrange(LAMBDA list : Append(list, [text |-> NoText, flag |-> FALSE]))
    /\ crossed' = (crossed \/ leftover # {})
    /\ UNCHANGED <<dirty, leftover>>

(* Up of the row below i, down of the row at i *)
MoveRow(i) ==
    /\ i \in DOMAIN Shown /\ i + 1 \in DOMAIN Shown
    /\ Arrange(LAMBDA list : Swapped(list, i))
    /\ crossed' = (crossed \/ ~Settled)
    /\ UNCHANGED <<dirty, leftover>>

(* The last place leaves the page, open as it may be. *)
DeleteRow(i) ==
    /\ i \in DOMAIN Shown
    /\ Arrange(LAMBDA list : RemoveAt(list, i))
    /\ crossed' = (crossed \/ ~Settled)
    /\ Unmount(Beyond(Len(Shown) - 1))

(* Fields that were copied replace the list when the clipboard is read. *)
Paste(rows) ==
    /\ Arrange(LAMBDA list : rows)
    /\ crossed' = (crossed \/ ~Settled)
    /\ Unmount(Beyond(Len(rows)))

(* Another element is selected: an inspector of the same kind stays, with  *)
(* the places that are open.                                               *)
Inspect(e) ==
    /\ e # inspected
    /\ inspected' = e
    /\ crossed' = (crossed \/ ~Settled)
    /\ Unmount(Beyond(Len(tableFields[e])))
    /\ UNCHANGED <<tableFields, meant, unfolded>>

FieldsNext ==
    \/ \E i \in Place : Unfold(i)
    \/ \E i \in Place : Fold(i)
    \/ \E i \in Place, text \in Typed : Type(i, text)
    \/ \E i \in Place : Deliver(i)
    \/ \E x \in leftover : DeliverLate(x)
    \/ \E i \in Place : SetFlag(i)
    \/ AddRow
    \/ \E i \in Place : MoveRow(i)
    \/ \E i \in Place : DeleteRow(i)
    \/ \E e \in Element : Paste(StartRows[e])
    \/ \E e \in Element : Inspect(e)

FieldsSpec == FieldsInit /\ [][FieldsNext]_fieldsVars
-----------------------------------------------------------------------------
(* When everything that was typed has been delivered, every element has    *)
(* the rows the user made of them, with the text typed into each and the   *)
(* flags set: two texts typed within half a second do not undo each other. *)
(* Provided that no row moved, went or was replaced and no other element   *)
(* was selected in that half second, nor did anything else reach the       *)
(* element between the folding of a row and the delivery of its text.      *)
NothingTypedIsLost == Settled /\ ~crossed => tableFields = meant
=============================================================================
