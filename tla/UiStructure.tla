---------------------------- MODULE UiStructure ----------------------------
(***************************************************************************)
(* The grid of a dataset's columns (structure/StructGrid.js, Structure.js, *)
(* ColumnType.js).                                                         *)
(*                                                                         *)
(* A column is flat (a scalar or an array of scalars), a struct, or an     *)
(* array of structs; a struct has columns of its own.  A row of the grid   *)
(* knows its column by name: an edit changes every column of that name, at *)
(* any depth, a new type goes to the last of them, and a deletion takes    *)
(* the outermost ones, or, when the name has a dot, looks for a column in  *)
(* another one.  Structs in structs are left out.                          *)
(***************************************************************************)
EXTENDS UiLists, SequencesExt

CONSTANTS
    ColumnName,    \* the names the user types
    StartColumns,  \* the columns the dataset is stored with: a sequence of Column
    MaxColumns,    \* bound: columns at one level
    MaxNamed       \* bound: columns named by the grid while it is on the page

(* A name is a sequence of numbers.  Its first one stands for a word: 0 for *)
(* none, 1 for what a user types, n + 1 for newColumn<n-1>.  Behind it, n   *)
(* stands for _n, and 0 for a dot, which is followed by a word again.       *)
Kind == {"flat", "struct", "arrayOfStructs"}
TypedName == Seq(Nat) \ {<<>>}
Inner == [name : TypedName, kind : Kind]
Column == [name : TypedName, kind : Kind, columns : Seq(Inner)]

NoName == <<0>>   \* a name whose last letter was deleted

(* removeByKey splits a name at its first dot. *)
Dots(n) == {k \in DOMAIN n : k > 1 /\ n[k] = 0}
FirstDot(n) == CHOOSE k \in Dots(n) : \A m \in Dots(n) : k <= m
Outside(n) == SubSeq(n, 1, FirstDot(n) - 1)
Inside(n) == SubSeq(n, FirstDot(n) + 1, Len(n))

ASSUME StructureAssumption ==
    /\ ColumnName \subseteq TypedName
    /\ StartColumns \in Seq(Column)
    /\ {MaxColumns, MaxNamed} \subseteq Nat
    /\ Len(StartColumns) <= MaxColumns
    /\ \A i \in DOMAIN StartColumns :
          /\ Len(StartColumns[i].columns) <= MaxColumns
          /\ StartColumns[i].columns # <<>> => StartColumns[i].kind # "flat"

VARIABLES
    columns,       \* entity.columns
    editingKey,    \* the row that is edited, or <<>>
    newColumnCount, \* how many columns the grid has named since it is on the page
    stray,         \* whether a column changed that the user did not touch (history)
    twins          \* whether a name that the user gave is another's or begins another (history)

structureVars == <<columns, editingKey, newColumnCount, stray, twins>>
-----------------------------------------------------------------------------
(* The places of the columns: <<i>>, and <<i, j>> in the struct at i.  They *)
(* are visited in the order in which a deep copy comes to them.            *)
Places == {<<i>> : i \in DOMAIN columns} \cup
          UNION {{<<i, j>> : j \in DOMAIN columns[i].columns} : i \in DOMAIN columns}
At(p) == IF Len(p) = 1 THEN columns[p[1]] ELSE columns[p[1]].columns[p[2]]
ColumnNames == {At(p).name : p \in Places}
Alike(p) == {q \in Places : At(q).name = At(p).name}

(* One name begins with another only when the grid made it from that of    *)
(* the struct: from such names it makes no name twice.                     *)
IsUnambiguous ==
    \A p, q \in Places : p # q /\ IsPrefix(At(p).name, At(q).name) =>
        Len(q) = 2 /\ p = <<q[1]>> /\ At(q).name = Append(At(p).name, q[2])
Rank(p) == p[1] * (MaxColumns + 1) + (IF Len(p) = 2 THEN p[2] ELSE 0)
FoundByName(p) == CHOOSE q \in Alike(p) : \A r \in Alike(p) : Rank(r) <= Rank(q)

(* The columns that removeByKey removes for a name: every outer one of the *)
(* name, or those in the first outer column that the name's path begins    *)
(* with.  Where there is no such column it throws; a longer path ends in a *)
(* column that has none.                                                   *)
RemovedFor(n) ==
    IF Dots(n) = {} THEN {q \in Places : Len(q) = 1 /\ At(q).name = n}
    ELSE {q \in Places :
             /\ Len(q) = 2 /\ Dots(Inside(n)) = {}
             /\ columns[q[1]].name = Outside(n) /\ At(q).name = Inside(n)
             /\ \A k \in 1..(q[1] - 1) : columns[k].name # Outside(n)}

StructureTypeOK ==
    /\ columns \in Seq(Column)
    /\ \A i \in DOMAIN columns : columns[i].columns # <<>> => columns[i].kind # "flat"
    /\ editingKey \in {<<>>} \cup ((1..MaxColumns) \X (1..MaxColumns)) \cup {<<i>> : i \in 1..MaxColumns}
    /\ newColumnCount \in 0..MaxNamed
    /\ {stray, twins} \subseteq BOOLEAN

StructureInit ==
    /\ columns = StartColumns
    /\ editingKey = <<>> /\ newColumnCount = 0
    /\ stray = FALSE
    /\ twins = (~IsUnambiguous \/ \E n \in ColumnNames : n[1] > 1)
-----------------------------------------------------------------------------
(* For the mutation checks: a new column is numbered by the columns there  *)
(* are.                                                                    *)
AddColumnByCount(kind) ==
    /\ Len(columns) < MaxColumns /\ newColumnCount < MaxNamed
    /\ newColumnCount' = newColumnCount + 1
    /\ columns' = Append(columns, [name |-> <<Len(columns) + 2>>, kind |-> kind, columns |-> <<>>])
    /\ UNCHANGED <<editingKey, stray, twins>>

(* handleAdd above the grid: a name from the counter. *)
AddColumn(kind) ==
    /\ Len(columns) < MaxColumns /\ newColumnCount < MaxNamed
    /\ newColumnCount' = newColumnCount + 1
    /\ columns' = Append(columns, [name |-> <<newColumnCount + 2>>, kind |-> kind, columns |-> <<>>])
    /\ UNCHANGED <<editingKey, stray, twins>>

(* handleAdd in the row at p: the name is the row's with the number of the *)
(* new column.  addByName puts it into the last column of the row's name,  *)
(* when that one is a struct.  In the row of an array of structs the       *)
(* number cannot be told and nothing is added; nor is it in a row without  *)
(* a name, for which no column is found.                                   *)
AddInner(p, kind) ==
    LET q == FoundByName(p)
    IN  /\ Len(p) = 1 /\ At(p).kind = "struct" /\ At(p).name # NoName
        /\ Len(At(p).columns) < MaxColumns
        /\ Len(q) = 1 /\ At(q).kind \in {"struct", "arrayOfStructs"} =>
              Len(At(q).columns) < MaxColumns
        /\ columns' = IF Len(q) = 1 /\ At(q).kind \in {"struct", "arrayOfStructs"}
                      THEN [columns EXCEPT ![q[1]].columns =
                               Append(@, [name |-> Append(At(p).name, Len(At(p).columns) + 1),
                                          kind |-> kind])]
                      ELSE columns
        /\ stray' = (stray \/ q # p)
        /\ UNCHANGED <<editingKey, newColumnCount, twins>>

EditRow(p) ==
    /\ editingKey' = p
    /\ UNCHANGED <<columns, newColumnCount, stray, twins>>

(* updateEntityColumns with a name, as it is after each key the user hits. *)
(* A name that was emptied is found no more: what is typed in its row then *)
(* changes nothing.  The user makes a name ambiguous who types, be it on   *)
(* the way to a longer one, a name that is in use, that the grid may still *)
(* give, that another name begins with, or that begins with another name,  *)
(* as the path to a column of a struct does.                               *)
Rename(p, n) ==
    /\ editingKey = p /\ n # At(p).name /\ At(p).name # NoName
    /\ columns' = [i \in DOMAIN columns |->
           LET named(c) == [c EXCEPT !.name = IF @ = At(p).name THEN n ELSE @]
           IN  [named(columns[i]) EXCEPT !.columns = [j \in DOMAIN @ |-> named(@[j])]]]
    /\ stray' = (stray \/ Alike(p) # {p})
    /\ twins' = (twins \/ n[1] > 1
                       \/ \E q \in Places \ {p} : IsPrefix(n, At(q).name) \/ IsPrefix(At(q).name, n))
    /\ UNCHANGED <<editingKey, newColumnCount>>

(* updateEntityColumns with a description or whether it may be null. *)
Describe(p) ==
    /\ editingKey = p /\ At(p).name # NoName
    /\ stray' = (stray \/ Alike(p) # {p})
    /\ UNCHANGED <<columns, editingKey, newColumnCount, twins>>

(* ColumnType.onChange: the new type has no columns. *)
ChooseType(p, kind) ==
    LET q == FoundByName(p)
    IN  /\ editingKey = p /\ At(p).name # NoName
        /\ columns' = IF Len(q) = 1
                      THEN [columns EXCEPT ![q[1]].kind = kind, ![q[1]].columns = <<>>]
                      ELSE [columns EXCEPT ![q[1]].columns[q[2]].kind = kind]
        /\ stray' = (stray \/ q # p)
        /\ UNCHANGED <<editingKey, newColumnCount, twins>>

(* handleDelete, confirmed: removeByKey is given a name and not the path   *)
(* of the row.  The click ends the edit of another row.                    *)
DeleteColumn(p) ==
    LET gone == RemovedFor(At(p).name)
        left(i) == [columns[i] EXCEPT !.columns = Kept(@, {j \in DOMAIN @ : <<i, j>> \notin gone})]
    IN  /\ columns' = Kept([i \in DOMAIN columns |-> left(i)],
                           {i \in DOMAIN columns : <<i>> \notin gone})
        /\ stray' = (stray \/ ~ gone \subseteq {p})
        /\ editingKey' = IF editingKey = p THEN p ELSE <<>>
        /\ UNCHANGED <<newColumnCount, twins>>

(* handleClickOutside *)
EndEdit ==
    /\ editingKey # <<>>
    /\ editingKey' = <<>>
    /\ UNCHANGED <<columns, newColumnCount, stray, twins>>

(* The grid leaves the page and comes back: it numbers from the beginning. *)
Reopen ==
    /\ newColumnCount > 0
    /\ editingKey' = <<>> /\ newColumnCount' = 0
    /\ twins' = (twins \/ \E n \in ColumnNames : n[1] > 1)
    /\ UNCHANGED <<columns, stray>>

StructureNext ==
    \/ \E kind \in {"flat", "struct"} : AddColumn(kind)
    \/ \E p \in Places : AddInner(p, "flat")
    \/ \E p \in Places : EditRow(p)
    \/ \E p \in Places, n \in ColumnName : Rename(p, n)
    \/ \E p \in Places : Describe(p)
    \/ \E p \in Places, kind \in Kind : ChooseType(p, kind)
    \/ \E p \in Places : DeleteColumn(p)
    \/ EndEdit
    \/ Reopen

StructureSpec == StructureInit /\ [][StructureNext]_structureVars
-----------------------------------------------------------------------------
(* Nothing changes but the column of the row the user works in, nor is     *)
(* anything else deleted, unless the user has typed a name that is that of *)
(* another column, begins it or begins with it (also on the way to another *)
(* name), or has let the grid number from the beginning: the names the     *)
(* grid gives by itself lead to no other column, whatever was added,       *)
(* renamed, emptied, given another type or deleted before.                 *)
OthersAreUntouched == stray => twins
=============================================================================
