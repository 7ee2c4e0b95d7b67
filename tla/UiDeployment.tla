---------------------------- MODULE UiDeployment ----------------------------
(***************************************************************************)
(* The page that runs a transformation (views/Run.js): its deployments in  *)
(* one table of parameters, of which the rows of the selected deployment   *)
(* are shown.                                                              *)
(*                                                                         *)
(* A row is found again by a key: the number of the parameter in its       *)
(* deployment, or a number counted on from how many deployments there are. *)
(* What is saved and what is run takes the rows of all deployments.        *)
(***************************************************************************)
EXTENDS UiLists, SequencesExt

CONSTANTS
    Deployment,    \* the deployments of the transformation
    Value,         \* names, values and descriptions of a parameter
    NewValue,      \* those of a parameter that was just added
    MaxStored,     \* bound: parameters a deployment is stored with
    MaxParameters, \* bound: rows of the table
    MaxCounter     \* bound: the counter

ASSUME DeploymentAssumption ==
    /\ IsFiniteSet(Deployment)
    /\ {MaxStored, MaxParameters, MaxCounter} \subseteq Nat

VARIABLES
    kept,          \* the parameters of each deployment in the server
    data,          \* the rows of all deployments
    listed,        \* whether the deployments have been read
    selected,      \* selectedDeployment; until they have been read it stands for none
    edited,        \* editingKey: a set of at most one key
    counter,
    amiss,         \* whether a parameter went elsewhere than the user saw (history)
    mixed          \* whether keys or deployments can be taken for one another (history)

deploymentVars == <<kept, data, listed, selected, edited, counter, amiss, mixed>>
-----------------------------------------------------------------------------
Parameter == Value \cup {NewValue}
DeploymentRow == [of : Deployment, key : Nat, value : Parameter]
Sequences(S, n) == UNION {[1..k -> S] : k \in 0..n}
Count == Cardinality(Deployment)
Foreign == \E i \in DOMAIN data : data[i].of # selected

DeploymentTypeOK ==
    /\ kept \in [Deployment -> Seq(Parameter)]
    /\ data \in Seq(DeploymentRow)
    /\ {listed, amiss, mixed} \subseteq BOOLEAN
    /\ selected \in Deployment
    /\ edited \in SUBSET Nat /\ Cardinality(edited) <= 1
    /\ counter \in Nat

DeploymentInit ==
    /\ kept \in [Deployment -> Sequences(Value, MaxStored)]
    /\ data = <<>> /\ listed = FALSE
    /\ selected \in Deployment
    /\ edited = {} /\ counter = 0
    /\ amiss = FALSE /\ mixed = FALSE

(* getDeploymentList's answer: the rows of one deployment after those of   *)
(* another, and the first deployment is selected; a row that was added     *)
(* before is lost.  The rows of another one than that, and more rows than  *)
(* the first new key, are a mixture.                                       *)
DeploymentsListed(order) ==
    LET rows(d) == [i \in DOMAIN kept[d] |-> [of |-> d, key |-> i - 1, value |-> kept[d][i]]]
        full == {d \in Deployment : kept[d] # <<>>}
    IN  /\ ~listed
        /\ listed' = TRUE
        /\ selected' = order[1]
        /\ data' = FlattenSeq([i \in DOMAIN order |-> rows(order[i])])
        /\ counter' = Count
        /\ mixed' = \/ ~ full \subseteq {order[1]}
                    \/ \E d \in full : Len(kept[d]) > Count + 2
        /\ UNCHANGED <<kept, edited, amiss>>

(* The rows that are not shown any more stay in the table. *)
SelectDeployment(d) ==
    /\ listed /\ d # selected
    /\ selected' = d
    /\ mixed' = (mixed \/ data # <<>>)
    /\ UNCHANGED <<kept, data, listed, edited, counter, amiss>>

(* For the mutation checks: a new parameter has the number of the rows as  *)
(* its key.                                                                *)
AddParameterByCount ==
    /\ Len(data) < MaxParameters /\ counter < MaxCounter
    /\ data' = Append(data, [of |-> selected, key |-> Len(data), value |-> NewValue])
    /\ counter' = counter + 2
    /\ UNCHANGED <<kept, listed, selected, edited, amiss, mixed>>

AddNewParameter ==
    /\ Len(data) < MaxParameters /\ counter < MaxCounter
    /\ data' = Append(data, [of |-> selected, key |-> counter + 2, value |-> NewValue])
    /\ counter' = counter + 2
    /\ UNCHANGED <<kept, listed, selected, edited, amiss, mixed>>

EditParameter(i) ==
    /\ data[i].of = selected
    /\ edited' = {data[i].key}
    /\ UNCHANGED <<kept, data, listed, selected, counter, amiss, mixed>>

Cancel ==
    /\ edited # {}
    /\ edited' = {}
    /\ UNCHANGED <<kept, data, listed, selected, counter, amiss, mixed>>

(* apply of the form in the row i: the first row with its key. *)
Apply(i, value) ==
    LET first == CHOOSE j \in DOMAIN data :
                    /\ data[j].key = data[i].key
                    /\ \A k \in 1..(j - 1) : data[k].key # data[i].key
    IN  /\ data[i].of = selected /\ data[i].key \in edited
        /\ data' = [data EXCEPT ![first].value = value]
        /\ edited' = {}
        /\ amiss' = (amiss \/ first # i)
        /\ UNCHANGED <<kept, listed, selected, counter, mixed>>

(* onDelete of the row i: every row with its key. *)
DeleteParameter(i) ==
    LET others == {j \in DOMAIN data : data[j].key # data[i].key}
    IN  /\ data[i].of = selected /\ data[i].key \notin edited
        /\ data' = Kept(data, others)
        /\ amiss' = (amiss \/ others # DOMAIN data \ {i})
        /\ UNCHANGED <<kept, listed, selected, edited, counter, mixed>>

(* saveParameters: the rows of every deployment become those of the        *)
(* selected one.  A deployment that was saved since it was read is refused *)
(* and stays as it is.                                                     *)
SaveParameters ==
    /\ listed
    /\ \/ kept' = [kept EXCEPT ![selected] = [i \in DOMAIN data |-> data[i].value]]
       \/ kept' = kept
    /\ amiss' = (amiss \/ Foreign)
    /\ UNCHANGED <<data, listed, selected, edited, counter, mixed>>

(* runTransformation: a job is started with the rows of every deployment. *)
RunTransformation ==
    /\ listed
    /\ amiss' = (amiss \/ Foreign)
    /\ UNCHANGED <<kept, data, listed, selected, edited, counter, mixed>>

DeploymentNext ==
    \/ \E order \in SetToSeqs(Deployment) : DeploymentsListed(order)
    \/ \E d \in Deployment : SelectDeployment(d)
    \/ AddNewParameter
    \/ \E i \in DOMAIN data : EditParameter(i)
    \/ Cancel
    \/ \E i \in DOMAIN data, value \in Value : Apply(i, value)
    \/ \E i \in DOMAIN data : DeleteParameter(i)
    \/ SaveParameters
    \/ RunTransformation

DeploymentSpec == DeploymentInit /\ [][DeploymentNext]_deploymentVars
-----------------------------------------------------------------------------
(* What the user changes, deletes, saves or runs in the table is what the  *)
(* table shows, as long as the parameters of one deployment only are in    *)
(* it, that deployment stays selected, and there are not many of them: no  *)
(* sequence of additions, edits and deletions gives two rows one key.      *)
ParametersStayInPlace == amiss => mixed
=============================================================================
