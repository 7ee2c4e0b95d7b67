---------------------------- MODULE MCUiEditors ----------------------------
(* Instances of the notebook and of the diagram of a transformation.  They *)
(* share no variable, so that their interleavings show nothing: each moves *)
(* alone while the other stays where it begins.                            *)
EXTENDS UiEditors

CONSTANTS p1, p2, p3

VARIABLE part

(* A notebook with two paragraphs; a third may be added. *)
TwoParagraphs == <<p1, p2>>

Init == part \in {"notebook", "designer"} /\ NotebookInit /\ DesignerInit

Next ==
    /\ IF part = "notebook" THEN NotebookNext ELSE UNCHANGED notebookVars
    /\ IF part = "designer" THEN DesignerNext ELSE UNCHANGED designerVars
    /\ UNCHANGED part

Spec == Init /\ [][Next]_<<notebookVars, designerVars, part>> /\ NotebookFairness
=============================================================================
