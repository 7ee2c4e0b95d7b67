------------------------------- MODULE UiTexts ------------------------------
(***************************************************************************)
(* The pages on which texts are typed and handed over later: the form of   *)
(* an object, a projection's fields, the tabs of an aggregation.  They     *)
(* share no state; this module states what is common to them.              *)
(***************************************************************************)
EXTENDS UiFields, UiProjection, UiAggregation

(* What is typed arrives, and where it was typed: in the forms, in the     *)
(* expressions of a projection's fields and in those of an aggregation.    *)
TypedTextsArrive == NothingTypedIsLost /\ ExpressionsAreTheirOwn /\ DraftsAreTheirOwn
=============================================================================
