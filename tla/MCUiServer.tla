----------------------------- MODULE MCUiServer -----------------------------
(* Instances of the parts of the page that talk to the server: its         *)
(* session, its socket, the view of an object and that of a workspace.     *)
(* They share no variable, so that their interleavings show nothing: each  *)
(* part moves alone while the others stay where they begin.                *)
EXTENDS UiServer, TLC

CONSTANTS d1, d2, d3, v, w

VARIABLE part

(* Two of the three datasets have one short name. *)
TwoAlike == [d \in {d1, d2, d3} |-> IF d = d1 THEN 1 ELSE 2]

(* One of the two values is the other with an element appended. *)
OneGrows == {<<v, w>>}

Init ==
    /\ SessionInit /\ StompInit /\ EntityInit /\ WorkspaceInit
    /\ part \in {"session", "socket", "entity", "workspace"}

Next ==
    /\ IF part = "session" THEN SessionNext ELSE UNCHANGED sessionVars
    /\ IF part = "socket" THEN StompNext ELSE UNCHANGED stompVars
    /\ IF part = "entity" THEN EntityNext ELSE UNCHANGED entityVars
    /\ IF part = "workspace" THEN WorkspaceNext ELSE UNCHANGED workspaceVars
    /\ UNCHANGED part

Spec == Init /\ [][Next]_<<sessionVars, stompVars, entityVars, workspaceVars, part>>

(* What MapIsTrue and UnsavedIsAsked except is not explored further: it stays so. *)
Proviso == ~unsure /\ ~crossed

Permuted == Permutations(Request) \cup Permutations(Call)
=============================================================================
