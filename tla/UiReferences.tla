---------------------------- MODULE UiReferences ----------------------------
(***************************************************************************)
(* References between the parts of an object (utils/meta.js, and           *)
(* ViewContainer.updateEntity and save): the ends of a transition are the  *)
(* very objects of the steps, and an edited step is another object.        *)
(*                                                                         *)
(* Each change is compared with what was before it, and the references to  *)
(* a part that was replaced are turned to its successor.  A part gets its  *)
(* id when it is saved, so that an object whose references lead to new     *)
(* parts is saved twice: first without them, then with the ids.            *)
(***************************************************************************)
EXTENDS UiLists, SequencesExt

CONSTANTS
    Part,          \* the parts of the object, e.g. the steps of a transformation
    StartParts,    \* those it has at first, in their order
    Reference,     \* the references there can be, e.g. the ends of transitions
    Nil,           \* no reference
    MaxParts       \* bound: parts at a time

(* Objects of one part: a change makes a new one; two are told apart. *)
Object == [part : Part, copy : {0, 1}, id : BOOLEAN]

ASSUME ReferencesAssumption ==
    /\ StartParts \in Seq(Part) /\ IsInjective(StartParts)
    /\ Nil \notin Part /\ Nil \notin Object
    /\ MaxParts \in Nat

VARIABLES
    parts,         \* the objects of the list, in their order
    refs,          \* the object each reference leads to
    aim,           \* the part it has to lead to (history)
    server,        \* the object in the server
    saving         \* the save that is under way, or that it has just succeeded

referencesVars == <<parts, refs, aim, server, saving>>
-----------------------------------------------------------------------------
NewObject(p) == [part |-> p, copy |-> 0, id |-> TRUE]
PartWith(r) == IF r = Nil THEN Nil ELSE r.part
InServer == [parts : Seq(Part), links : [Reference -> Part \cup {Nil}]]
(* What is saved, the references that wait for an id, and whether the page *)
(* was changed meanwhile.                                                  *)
Saving == [stage : {"first", "second"}, of : InServer, new : SUBSET Reference, overtaken : BOOLEAN]

ReferencesTypeOK ==
    /\ parts \in Seq(Object)
    /\ refs \in [Reference -> Object \cup {Nil}]
    /\ aim \in [Reference -> Part \cup {Nil}]
    /\ server \in InServer
    /\ saving.stage \in {"idle", "saved"} \/ saving \in Saving

UnderWayToServer == saving.stage \in {"first", "second"}
NoLinks == [l \in Reference |-> Nil]
Attributes == [parts |-> [i \in DOMAIN parts |-> parts[i].part],
            links |-> [l \in Reference |-> PartWith(refs[l])]]

ReferencesInit ==
    /\ parts = [i \in DOMAIN StartParts |-> NewObject(StartParts[i])]
    /\ refs = NoLinks /\ aim = NoLinks
    /\ server = [parts |-> StartParts, links |-> NoLinks]
    /\ saving = [stage |-> "idle"]

(* The page is not what was saved any more. *)
Overtake == saving' = IF UnderWayToServer THEN [saving EXCEPT !.overtaken = TRUE]
                      ELSE [stage |-> "idle"]

(* diffArrays: what became of the objects of the old list.  Two lists are  *)
(* read side by side, one round of the loop after the other; an object     *)
(* that is in one of them only was deleted, inserted, or, where both have  *)
(* such an object, replaced.                                               *)
Round(new, old, at) ==
    LET onward(i, j, found) == [i |-> at.i + i, j |-> at.j + j, turned |-> at.turned \cup found]
    IN  IF at.j > Len(old) THEN at
        ELSE IF at.i > Len(new) THEN onward(0, 1, {<<old[at.j], Nil>>})
        ELSE LET known == Contains(old, new[at.i])
                 kept  == Contains(new, old[at.j])
             IN  CASE known /\ kept   -> onward(1, 1, {})
                   [] known /\ ~kept  -> onward(0, 1, {<<old[at.j], Nil>>})
                   [] ~known /\ kept  -> onward(1, 0, {})
                   [] ~known /\ ~kept -> onward(1, 1, {<<old[at.j], new[at.i]>>})

DiffArrays(new, old) ==
    LET at[n \in 0..(Len(new) + Len(old))] ==
            IF n = 0 THEN [i |-> 1, j |-> 1, turned |-> {}] ELSE Round(new, old, at[n - 1])
    IN  at[Len(new) + Len(old)].turned

(* For the mutation checks: a reference to an object that was replaced     *)
(* stays as it is.                                                         *)
RestoredToGone(ends, new, old) ==
    [l \in Reference |->
        LET turned == {c \in DiffArrays(new, old) : c[1] = ends[l]}
        IN  IF ends[l] = Nil \/ Contains(new, ends[l]) THEN ends[l]
            ELSE ends[l]]

(* restoreReferencesAfterChange *)
Restored(ends, new, old) ==
    [l \in Reference |->
        LET turned == {c \in DiffArrays(new, old) : c[1] = ends[l]}
        IN  IF ends[l] = Nil \/ Contains(new, ends[l]) THEN ends[l]
            ELSE (CHOOSE c \in turned : TRUE)[2]]

(* updateEntity with another list.  A transition with an end that leads    *)
(* nowhere is dropped: normalizeTransformationPorts.                       *)
Change(new) ==
    /\ parts' = new
    /\ refs' = Restored(refs, new, parts)
    /\ aim' = [l \in Reference |-> IF aim[l] \in {new[i].part : i \in DOMAIN new} THEN aim[l] ELSE Nil]
    /\ Overtake
    /\ UNCHANGED server
-----------------------------------------------------------------------------
AddPart(p) ==
    /\ Len(parts) < MaxParts
    /\ \A j \in DOMAIN parts : parts[j].part # p
    /\ ~Contains(server.parts, p) /\ (UnderWayToServer => ~Contains(saving.of.parts, p))
    /\ Change(Append(parts, [part |-> p, copy |-> 0, id |-> FALSE]))

EditPart(i) == Change([parts EXCEPT ![i].copy = 1 - @])

MovePart(i) ==
    /\ i + 1 \in DOMAIN parts
    /\ Change([parts EXCEPT ![i] = parts[i + 1], ![i + 1] = parts[i]])

(* deleteCashed with the steps that are selected *)
DeleteParts(gone) ==
    /\ gone # {}
    /\ gone \subseteq {parts[i].part : i \in DOMAIN parts}
    /\ Change(Kept(parts, {i \in DOMAIN parts : parts[i].part \notin gone}))

LinkTo(l, i) ==
    /\ refs[l] # parts[i]
    /\ refs' = [refs EXCEPT ![l] = parts[i]]
    /\ aim' = [aim EXCEPT ![l] = parts[i].part]
    /\ Overtake
    /\ UNCHANGED <<parts, server>>

(* save with modifyBeforeSave: references to parts without an id are taken *)
(* out of what is sent and kept aside as the place of the part.            *)
SaveParts ==
    /\ ~UnderWayToServer
    /\ saving' = [stage |-> "first", of |-> Attributes, overtaken |-> FALSE,
                  new |-> {l \in Reference : refs[l] # Nil /\ ~refs[l].id}]
    /\ UNCHANGED <<parts, refs, aim, server>>

(* The page takes over what the last answer has; restoreReferencesById.    *)
TakeOver(answer) ==
    /\ saving' = [stage |-> "saved"]
    /\ parts' = [i \in DOMAIN answer.parts |-> NewObject(answer.parts[i])]
    /\ refs' = [l \in Reference |-> IF answer.links[l] = Nil THEN Nil ELSE NewObject(answer.links[l])]
    /\ aim' = IF saving.overtaken THEN answer.links ELSE aim

(* The answer to the first save; with references kept aside the parts at   *)
(* their places have an id now, and the object is saved again.             *)
FirstSaved ==
    LET sent == [saving.of EXCEPT !.links =
                    [l \in Reference |-> IF l \in saving.new THEN Nil ELSE @[l]]]
    IN  /\ saving.stage = "first"
        /\ server' = sent
        /\ IF saving.new = {}
           THEN TakeOver(sent)
           ELSE /\ saving' = [saving EXCEPT !.stage = "second"]
                /\ UNCHANGED <<parts, refs, aim>>

SecondSaved ==
    /\ saving.stage = "second"
    /\ server' = saving.of
    /\ TakeOver(saving.of)

(* Either save fails, and the page stays as it is. *)
SaveFails ==
    /\ UnderWayToServer
    /\ saving' = [stage |-> "idle"]
    /\ UNCHANGED <<parts, refs, aim, server>>

ReferencesNext ==
    \/ \E p \in Part : AddPart(p)
    \/ \E i \in DOMAIN parts : EditPart(i)
    \/ \E i \in DOMAIN parts : MovePart(i)
    \/ \E gone \in SUBSET Part : DeleteParts(gone)
    \/ \E l \in Reference, i \in DOMAIN parts : LinkTo(l, i)
    \/ SaveParts
    \/ FirstSaved
    \/ SecondSaved
    \/ SaveFails

ReferencesSpec == ReferencesInit /\ [][ReferencesNext]_referencesVars
-----------------------------------------------------------------------------
(* Every reference leads to the object its part is now, whatever was       *)
(* added, edited, moved or deleted before, several at a time, and          *)
(* whatever a save brought back; a reference to a part that is gone leads  *)
(* nowhere.  After a save the server has what the page shows, down to the  *)
(* references to parts that the save itself created: it may have lost      *)
(* these only as long as the second of the two requests fails.             *)
ReferencesFollow ==
    /\ \A l \in Reference : /\ PartWith(refs[l]) = aim[l]
                           /\ refs[l] # Nil => Contains(parts, refs[l])
    /\ saving.stage = "saved" => server = Attributes
=============================================================================
