---------------------------- MODULE UiWorkspace ----------------------------
(***************************************************************************)
(* The map and the grid of a workspace (WorkspaceView.js,                  *)
(* WorkspaceGridView.js) and the dialog that imports datasets of other     *)
(* workspaces into it (ImportDatasetView.js, datasetMethods.js).           *)
(*                                                                         *)
(* The page shows what a list it asked for once said.  A change of a type  *)
(* or a description is shown before the server has it; a deletion and an   *)
(* import ask for the list again when they are through.                    *)
(***************************************************************************)
EXTENDS Naturals, FiniteSets

CONSTANTS
    Dataset,       \* the datasets of the workspace and those that may be linked into it
    Own,           \* the ones it has at first
    ShortName,     \* the short name of each
    DatasetType,   \* types, or descriptions, that a dataset can be given
    NoType,        \* the one it has at first
    Absent,        \* no such dataset
    MaxLists,      \* bound: lists under way at a time
    MaxEdits,      \* bound: changes, deletions and links under way at a time
    MaxImport      \* the greatest number of datasets that are imported together

ASSUME WorkspaceAssumption ==
    /\ Own \subseteq Dataset
    /\ \A d \in Dataset : ShortName[d] # Absent
    /\ NoType \notin DatasetType /\ Absent \notin DatasetType \cup {NoType}
    /\ {MaxLists, MaxEdits, MaxImport} \subseteq Nat /\ MaxLists # 0

VARIABLES
    datasets,      \* the datasets of the workspace in the server
    onPage,        \* whether the page of the workspace is open
    objects,       \* state.workspaceObjects
    lists,         \* lists that are under way, by number
    changes,       \* changes of a type that are under way
    deletions,     \* deletions that are under way
    importDialog,  \* the import dialog: closed, open, or importing
    import,        \* how far the import of each dataset is
    linking,       \* datasets that are being linked to a workspace
    importer,      \* whether the view that imports is the one on the page
    unsure         \* a request failed, or requests crossed that must not (history)

workspaceVars ==
    <<datasets, onPage, objects, lists, changes, deletions, importDialog, import, linking, importer,
      unsure>>
-----------------------------------------------------------------------------
Content == [Dataset -> DatasetType \cup {NoType, Absent}]
Empty == [d \in Dataset |-> Absent]
None == [stage |-> "none"]
Names(content) == {ShortName[d] : d \in {e \in Dataset : content[e] # Absent}}

WorkspaceTypeOK ==
    /\ datasets \in Content /\ objects \in Content
    /\ {onPage, importer, unsure} \subseteq BOOLEAN
    /\ \A l \in 1..MaxLists :
          \/ lists[l] \in {None, [stage |-> "asked"]}
          \/ lists[l] \in [stage : {"read"}, content : Content]
    /\ changes \subseteq [of : Dataset, type : DatasetType, stage : {"sent", "done"}]
    /\ deletions \subseteq [of : Dataset, stage : {"sent", "done"}, live : BOOLEAN]
    /\ linking \subseteq Dataset
    /\ importDialog \in {"closed", "open", "importing"}
    /\ import \in [Dataset -> {"none", "reading", "saving", "saved", "failed", "lost"}]

Listing == \E l \in 1..MaxLists : lists[l] # None
Importing == \E d \in Dataset : import[d] \in {"reading", "saving"}
(* Promise.all: every dataset is being saved, and all of them are saved or *)
(* one of them could not be.                                               *)
AllSettled ==
    LET chosen == {d \in Dataset : import[d] # "none"}
    IN  /\ chosen # {}
        /\ \A d \in chosen : import[d] \notin {"reading", "lost"}
        /\ \/ \A d \in chosen : import[d] = "saved"
           \/ \E d \in chosen : import[d] = "failed"

Quiet == ~Listing /\ changes = {} /\ deletions = {} /\ ~Importing /\ ~AllSettled

WorkspaceInit ==
    /\ datasets = [d \in Dataset |-> IF d \in Own THEN NoType ELSE Absent]
    /\ onPage = TRUE /\ objects = Empty
    /\ lists = [l \in 1..MaxLists |-> IF l = 1 THEN [stage |-> "asked"] ELSE None]
    /\ changes = {} /\ deletions = {} /\ linking = {}
    /\ importDialog = "closed" /\ import = [d \in Dataset |-> "none"]
    /\ importer = TRUE /\ unsure = FALSE

(* getWorkspaceObjects: one more list is asked for. Two lists that are     *)
(* under way, or a list and a change, may be answered in either order.     *)
AskList ==
    /\ \E l \in 1..MaxLists : /\ lists[l] = None
                              /\ lists' = [lists EXCEPT ![l] = [stage |-> "asked"]]
    /\ unsure' = (unsure \/ Listing \/ changes # {})

(* For the mutation checks: a page that is shown already asks for no list. *)
RefreshOfOldList(live) ==
    IF onPage /\ ~live
    THEN unsure' = TRUE /\ UNCHANGED <<onPage, lists>>
    ELSE IF onPage THEN UNCHANGED <<onPage, lists, unsure>>
         ELSE AskList /\ onPage' = TRUE

(* setRefresh(true), of a view that may have been left: its page is        *)
(* selected in the place of what is shown.  A new view asks for a list     *)
(* when it is mounted; a view that another one replaced asks for none.     *)
RefreshWorkspace(live) ==
    IF onPage /\ ~live
    THEN unsure' = TRUE /\ UNCHANGED <<onPage, lists>>
    ELSE AskList /\ onPage' = TRUE

(* Of the datasets with one short name the page has only the first that    *)
(* the server's answer, which has no order, brings.                        *)
Pages(content) ==
    {c \in Content : /\ \A d \in Dataset : c[d] \in {content[d], Absent}
                     /\ Names(c) = Names(content)
                     /\ \A d, e \in Dataset : d # e /\ ShortName[d] = ShortName[e]
                                                => Absent \in {c[d], c[e]}}
-----------------------------------------------------------------------------
ListRead(l) ==
    /\ lists[l].stage = "asked"
    /\ \E c \in Pages(datasets) : lists' = [lists EXCEPT ![l] = [stage |-> "read", content |-> c]]
    /\ UNCHANGED <<datasets, onPage, objects, changes, deletions, importDialog, import, unsure,
                   importer, linking>>

ListShown(l) ==
    /\ lists[l].stage = "read"
    /\ lists' = [lists EXCEPT ![l] = None]
    /\ objects' = lists[l].content
    /\ UNCHANGED <<datasets, onPage, changes, deletions, importDialog, import, unsure, importer,
                   linking>>

Edits == Cardinality(changes) + Cardinality(deletions) + Cardinality(linking)

(* The map has a node with a menu for every object of the list. *)
OnMap(d) == onPage /\ objects[d] # Absent

(* handleMenuClick with a type, infoButton with a description: the page    *)
(* shows it and does not look at the answer.                               *)
SetType(d, t) ==
    /\ OnMap(d) /\ objects[d] # t
    /\ Edits < MaxEdits
    /\ objects' = [objects EXCEPT ![d] = t]
    /\ changes' = changes \cup {[of |-> d, type |-> t, stage |-> "sent"]}
    /\ unsure' = (unsure \/ Listing \/ \E c \in changes : c.of = d)
    /\ UNCHANGED <<datasets, onPage, lists, deletions, importDialog, import, importer, linking>>

TypeSet(c) ==
    /\ c.stage = "sent"
    /\ changes' = (changes \ {c}) \cup {[c EXCEPT !.stage = "done"]}
    /\ datasets' = IF datasets[c.of] = Absent THEN datasets ELSE [datasets EXCEPT ![c.of] = c.type]
    /\ UNCHANGED <<onPage, objects, lists, deletions, importDialog, import, unsure, importer,
                   linking>>

TypeAnswered(c) ==
    /\ c.stage = "done"
    /\ changes' = changes \ {c}
    /\ UNCHANGED <<datasets, onPage, objects, lists, deletions, importDialog, import, unsure,
                   importer, linking>>

(* deleteDataset, confirmed; the list is asked for when it is answered. *)
DeleteDataset(d) ==
    /\ OnMap(d)
    /\ Edits < MaxEdits
    /\ deletions' = deletions \cup {[of |-> d, stage |-> "sent", live |-> TRUE]}
    /\ UNCHANGED <<datasets, onPage, objects, lists, changes, importDialog, import, unsure,
                   importer, linking>>

DatasetDeleted(x) ==
    /\ x.stage = "sent"
    /\ deletions' = (deletions \ {x}) \cup {[x EXCEPT !.stage = "done"]}
    /\ datasets' = [datasets EXCEPT ![x.of] = Absent]
    /\ UNCHANGED <<onPage, objects, lists, changes, importDialog, import, unsure, importer,
                   linking>>

DeletionAnswered(x) ==
    /\ x.stage = "done"
    /\ deletions' = deletions \ {x}
    /\ RefreshWorkspace(x.live)
    /\ UNCHANGED <<datasets, objects, changes, importDialog, import, importer, linking>>
(* linkDataset: the dataset is read, and a link to it is saved in a        *)
(* workspace that the user chooses.  The list is not asked for again, even *)
(* when it is this workspace: the page has the short name already.         *)
LinkDataset(d) ==
    /\ OnMap(d) /\ Edits < MaxEdits
    /\ linking' = linking \cup {d}
    /\ UNCHANGED <<datasets, onPage, objects, lists, changes, deletions, importDialog, import,
                   unsure, importer>>

(* In another workspace, or not at all, or in this one. *)
Linked(d) ==
    /\ linking' = linking \ {d}
    /\ \/ UNCHANGED datasets
       \/ \E e \in Dataset : /\ datasets[d] # Absent
                             /\ datasets[e] = Absent /\ ShortName[e] = ShortName[d]
                             /\ datasets' = [datasets EXCEPT ![e] = NoType]
    /\ UNCHANGED <<onPage, objects, lists, changes, deletions, importDialog, import, unsure,
                   importer>>
-----------------------------------------------------------------------------
(* The import dialog.                                                      *)

(* Also while an import goes on, whose end closes the dialog again.        *)
OpenImport ==
    /\ onPage /\ importDialog = "closed"
    /\ objects # Empty
    /\ importDialog' = "open"
    /\ UNCHANGED <<datasets, onPage, objects, lists, changes, deletions, import, unsure,
                   importer, linking>>

(* handleCancel: what is being imported goes on. *)
CancelImport ==
    /\ importDialog # "closed"
    /\ importDialog' = "closed"
    /\ UNCHANGED <<datasets, onPage, objects, lists, changes, deletions, import, unsure,
                   importer, linking>>

(* importDatasetsIntoWorkspace reads each dataset that is selected.  Bound: *)
(* one import at a time.                                                   *)
Import(chosen) ==
    /\ importDialog = "open"
    /\ ~Importing /\ ~AllSettled
    /\ Cardinality(chosen) <= MaxImport
    /\ importDialog' = "importing"
    /\ import' = [d \in Dataset |-> IF d \in chosen THEN "reading" ELSE "none"]
    /\ importer' = TRUE
    /\ UNCHANGED <<datasets, onPage, objects, lists, changes, deletions, unsure, linking>>

(* getLinkedEntity: a dataset that was read is saved as a link; one that   *)
(* cannot be read is never counted.                                        *)
Imported(d, from, to) ==
    /\ import[d] = from
    /\ import' = [import EXCEPT ![d] = to]
    /\ datasets' = IF to = "saved" THEN [datasets EXCEPT ![d] = NoType] ELSE datasets
    /\ unsure' = (unsure \/ to \in {"failed", "lost"})
    /\ UNCHANGED <<onPage, objects, lists, changes, deletions, importDialog, importer, linking>>

ImportDone ==
    /\ AllSettled
    /\ RefreshWorkspace(importer)
    /\ importDialog' = IF importer THEN "closed" ELSE importDialog
    /\ import' = [d \in Dataset |-> "none"]
    /\ UNCHANGED <<datasets, objects, changes, deletions, importer, linking>>
-----------------------------------------------------------------------------
(* The user goes to another page: the answers to its lists reach nobody,   *)
(* the others go on.  Coming back is a new view.                           *)
LeaveWorkspace ==
    /\ onPage
    /\ onPage' = FALSE /\ objects' = Empty /\ importDialog' = "closed" /\ importer' = FALSE
    /\ lists' = [l \in 1..MaxLists |-> None]
    /\ deletions' = {[x EXCEPT !.live = FALSE] : x \in deletions}
    /\ UNCHANGED <<datasets, changes, import, unsure, linking>>

Return ==
    /\ ~onPage
    /\ onPage' = TRUE
    /\ AskList
    /\ UNCHANGED <<datasets, objects, changes, deletions, importDialog, import, importer, linking>>

WorkspaceFails ==
    /\ unsure' = TRUE
    /\ \/ /\ \E l \in 1..MaxLists :
                lists[l] # None /\ lists' = [lists EXCEPT ![l] = None]
          /\ UNCHANGED <<changes, deletions>>
       \/ \E c \in changes : changes' = changes \ {c} /\ UNCHANGED <<lists, deletions>>
       \/ \E d \in deletions : deletions' = deletions \ {d} /\ UNCHANGED <<lists, changes>>
    /\ UNCHANGED <<datasets, onPage, objects, importDialog, import, importer, linking>>

WorkspaceNext ==
    \/ \E l \in 1..MaxLists : ListRead(l)
    \/ \E l \in 1..MaxLists : ListShown(l)
    \/ \E d \in Dataset, t \in DatasetType : SetType(d, t)
    \/ \E c \in changes : TypeSet(c)
    \/ \E c \in changes : TypeAnswered(c)
    \/ \E d \in Dataset : DeleteDataset(d)
    \/ \E x \in deletions : DatasetDeleted(x)
    \/ \E x \in deletions : DeletionAnswered(x)
    \/ \E d \in Dataset : LinkDataset(d)
    \/ \E d \in linking : Linked(d)
    \/ OpenImport
    \/ CancelImport
    \/ \E chosen \in SUBSET {d \in Dataset : datasets[d] = Absent} : Import(chosen)
    \/ \E d \in Dataset : Imported(d, "reading", "saving")
    \/ \E d \in Dataset : Imported(d, "reading", "lost")
    \/ \E d \in Dataset : Imported(d, "saving", "failed")
    \/ \E d \in Dataset : Imported(d, "saving", "saved")
    \/ ImportDone
    \/ LeaveWorkspace
    \/ Return
    \/ WorkspaceFails

WorkspaceSpec == WorkspaceInit /\ [][WorkspaceNext]_workspaceVars
-----------------------------------------------------------------------------
(* When nothing is under way, the page has a dataset for every short name  *)
(* of the workspace, with the type the server knows, and nothing else:     *)
(* after every list, change, deletion and import, in whatever order they   *)
(* are answered, and however often the page is left meanwhile.  Provided   *)
(* that no request failed, that a list was under way together neither with *)
(* another one nor with a change of a type, nor two changes of one type,   *)
(* and that no answer to a view that was left found another one in place.  *)
MapIsTrue == onPage /\ Quiet /\ ~unsure => objects \in Pages(datasets)
=============================================================================
