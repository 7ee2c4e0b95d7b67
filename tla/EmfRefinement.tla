--------------------------- MODULE EmfRefinement ---------------------------
(***************************************************************************)
(* EmfTransactions implements EmfStore: with all its interleavings, lost   *)
(* races and retries, a commit does to the head of its branch exactly what *)
(* the operations of the last run of f would do if they ran there alone,   *)
(* at most once for a call, and not at all for a call that throws.         *)
(***************************************************************************)
EXTENDS EmfTransactions

CONSTANT NoTree

ASSUME NoTreeIsNone == NoTree \notin Tree

(* A branch holds the tree of its head.                                    *)
StoreOf == [b \in Branch |-> IF head[b] = 0 THEN NoTree ELSE hist[head[b]].tree]

(* A call is done once it has moved its branch.                            *)
CallOf ==
    [w \in Worker |->
        IF tx[w].phase = "idle"
        THEN [state |-> "none", branch |-> NoTree, log |-> <<>>]
        ELSE [state  |-> IF tx[w].outcome = "committed" THEN "done" ELSE "open",
              branch |-> tx[w].branch,
              log    |-> tx[w].log]]

Store == INSTANCE EmfStore WITH store <- StoreOf, call <- CallOf

(***************************************************************************)
(* The calls of inTransaction and createBranch behave as if they took      *)
(* effect one at a time.                                                   *)
(***************************************************************************)
CallsAreAtomic == Store!Spec
=============================================================================
