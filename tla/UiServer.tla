------------------------------ MODULE UiServer ------------------------------
(***************************************************************************)
(* The parts of the page that talk to the server: its session, its socket, *)
(* the view of an object and that of a workspace.  They share no state;    *)
(* this module states what is common to them.                              *)
(***************************************************************************)
EXTENDS UiSession, UiStomp, UiEntity, UiWorkspace

(* Every variable of the four parts has its type. *)
ServerTypeOK == SessionTypeOK /\ StompTypeOK /\ EntityTypeOK /\ WorkspaceTypeOK
=============================================================================
