----------------------------- MODULE MCUiPages ------------------------------
(* Instances of the pages and of the algorithms behind them.  They share   *)
(* no variable, so that their interleavings show nothing: each moves alone *)
(* while the others stay where they begin.                                 *)
EXTENDS UiPages, TLC

CONSTANTS src, srt, prj, b1, e1, e2, f1, g1, p1, p2, x1, x2, none,
          unnamed

VARIABLE part

-----------------------------------------------------------------------------
(* A source, a Sequence step and a projection. *)
ThreeKinds == (src :> "source") @@ (srt :> "sequence") @@ (prj :> "projection")
ThreeNodes == <<src, srt, prj>>

(* A workflow with a coordinated group of two Spark tasks. *)
TasksOfAWorkflow == <<0, 1, 2, 2>>
RejectedRecords == (3 :> 2) @@ (4 :> 1)

(* Two sessions and a batch. *)
TwoSessionsAndABatch == <<"session", "session", "batch">>

OneField == <<f1>>

(* A field whose path element is also another's (f with the number 12 and  *)
(* f1 with 2, on a smaller scale).                                         *)
OneClash == (<<f1, 1>> :> 1) @@ (<<unnamed, 1>> :> 2) @@ (<<f1, 2>> :> 2) @@ (<<unnamed, 2>> :> 3)

(* A function with one parameter, and the operand of an item without one. *)
OneAttribute == (g1 :> {x2}) @@ (NoFunction :> {x1})

(* A column, no name, and a name that begins with that column's and a dot. *)
TypedNames == {<<0>>, <<1, 0, 1>>}
OneColumn == <<[name |-> <<1>>, kind |-> "flat", columns |-> <<>>]>>

EmptyRow == [text |-> none, flag |-> FALSE]
TwoAndOneRow == (e1 :> <<EmptyRow, EmptyRow>>) @@ (e2 :> <<EmptyRow>>)

TwoParts == <<p1, p2>>

-----------------------------------------------------------------------------
(* What the properties except is not explored further: it stays so. *)
Proviso ==
    /\ ~loose /\ ~twins /\ ~crossed /\ ~mixed /\ ~raced
    /\ UnderWayToServer => ~saving.overtaken

Init ==
    /\ part \in {"ports", "tasks", "events", "structure", "fields", "deployment",
                 "references", "livy", "projection", "aggregation"}
    /\ DeploymentInit
    /\ part # "deployment" => kept = [d \in Deployment |-> <<>>] /\ selected = b1
    /\ FieldsInit
    /\ part # "fields" => inspected = e1
    /\ PortsInit /\ TasksInit /\ EventsInit /\ StructureInit
    /\ ReferencesInit /\ LivyInit /\ ProjectionInit /\ AggregationInit

Next ==
    /\ IF part = "ports" THEN PortsNext ELSE UNCHANGED portsVars
    /\ IF part = "tasks" THEN TasksNext ELSE UNCHANGED tasksVars
    /\ IF part = "events" THEN EventsNext ELSE UNCHANGED eventsVars
    /\ IF part = "structure" THEN StructureNext ELSE UNCHANGED structureVars
    /\ IF part = "fields" THEN FieldsNext ELSE UNCHANGED fieldsVars
    /\ IF part = "deployment" THEN DeploymentNext ELSE UNCHANGED deploymentVars
    /\ IF part = "references" THEN ReferencesNext ELSE UNCHANGED referencesVars
    /\ IF part = "livy" THEN LivyNext ELSE UNCHANGED livyVars
    /\ IF part = "projection" THEN ProjectionNext ELSE UNCHANGED projectionVars
    /\ IF part = "aggregation" THEN AggregationNext ELSE UNCHANGED aggregationVars
    /\ UNCHANGED part

Spec ==
    Init /\ [][Next]_<<portsVars, tasksVars, eventsVars,
                      structureVars, fieldsVars, deploymentVars, referencesVars, livyVars,
                      projectionVars, aggregationVars, part>>
=============================================================================
