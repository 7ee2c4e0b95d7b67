------------------------------ MODULE UiEditors -----------------------------
(***************************************************************************)
(* The two editors that draw what they edit: the notebook and the diagram  *)
(* of a transformation.  They share no state; this module states what is   *)
(* common to them.                                                         *)
(***************************************************************************)
EXTENDS UiNotebook, UiDesigner

(* Every variable of the two has its type. *)
EditorsTypeOK == NotebookTypeOK /\ DesignerTypeOK
=============================================================================
