------------------------------ MODULE UiPages -------------------------------
(***************************************************************************)
(* The pages of the client and the algorithms behind them.  They share no  *)
(* state; this module joins their types.                                   *)
(***************************************************************************)
EXTENDS UiPorts, UiEvents, UiStructure, UiDeployment, UiReferences, UiTexts, UiAnswers

(* Every variable of the pages has its type. *)
PagesTypeOK ==
    /\ PortsTypeOK /\ TasksTypeOK /\ EventsTypeOK
    /\ StructureTypeOK /\ FieldsTypeOK /\ DeploymentTypeOK /\ ReferencesTypeOK
    /\ LivyTypeOK /\ ProjectionTypeOK /\ AggregationTypeOK
=============================================================================
