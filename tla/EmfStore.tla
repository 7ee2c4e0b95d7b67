------------------------------ MODULE EmfStore ------------------------------
(***************************************************************************)
(* What the emfgit store promises to those who call it: a set of branches  *)
(* with a tree each, and calls that take effect one at a time.  A call     *)
(* gathers operations, and may start over; at one moment it does all of    *)
(* them to the tree its branch has at that moment, or none of them ever.   *)
(* There are no locks, snapshots, commits or retries here.                 *)
(***************************************************************************)
EXTENDS EmfTree, Sequences

CONSTANTS Worker, Branch,
          NoTree   \* the branch does not exist; an operation is refused

VARIABLES store, \* branch -> its tree, or NoTree
          call   \* worker -> the call it has begun

(* The effect of one operation, where it is allowed.                       *)
Perform(t, op) ==
    CASE op.kind = "create"  -> IF CanCreate(t, op.id, op.new)
                                THEN Saved(t, op.id, op.new) ELSE NoTree
      [] op.kind = "update"  -> IF CanUpdate(t, op.id, op.rev, op.new)
                                THEN Saved(t, op.id, op.new) ELSE NoTree
      [] op.kind = "delete"  -> IF CanDelete(t, op.id, op.rev)
                                THEN Deleted(t, op.id) ELSE NoTree
      [] op.kind = "reindex" -> IF CanReindex(t) THEN Reindexed(t) ELSE NoTree

PerformAll(t, log) ==
    LET tree[n \in 0 .. Len(log)] ==
            IF n = 0 THEN t
            ELSE IF tree[n - 1] = NoTree THEN NoTree ELSE Perform(tree[n - 1], log[n])
    IN  tree[Len(log)]

NoCall == [state |-> "none", branch |-> NoTree, log |-> <<>>]

TypeOK == /\ store \in [Branch -> Tree \cup {NoTree}]
          /\ \A w \in Worker : call[w].state \in {"none", "open", "done"}

Init == /\ store \in [Branch -> Tree \cup {NoTree}]
        /\ call = [w \in Worker |-> NoCall]

Begin(w, b) ==
    /\ call[w].state = "none"
    /\ call' = [call EXCEPT ![w] = [state |-> "open", branch |-> b, log |-> <<>>]]
    /\ UNCHANGED store

(* One more operation, or all over again: nobody else sees either.         *)
Gather(w) ==
    /\ call[w].state = "open"
    /\ \E log \in {call'[w].log} :
          /\ log = <<>> \/ log = Append(call[w].log, log[Len(log)])
          /\ call' = [call EXCEPT ![w].log = log]
    /\ UNCHANGED store

Apply(w) ==
    LET b == call[w].branch
    IN  /\ call[w].state = "open"
        /\ store[b] # NoTree
        /\ PerformAll(store[b], call[w].log) # NoTree
        /\ store' = [store EXCEPT ![b] = PerformAll(store[b], call[w].log)]
        /\ call' = [call EXCEPT ![w].state = "done"]

(* A call that creates a branch gives it the tree of another one, and does *)
(* not touch a branch that exists.                                         *)
CreateBranch(w) ==
    LET b == call[w].branch
    IN  /\ call[w].state = "open"
        /\ store[b] = NoTree
        /\ store'[b] # NoTree
        /\ store' = [store EXCEPT ![b] = store'[b]]
        /\ call' = [call EXCEPT ![w].state = "done"]

Finish(w) ==
    /\ call[w].state \in {"open", "done"}
    /\ call' = [call EXCEPT ![w] = NoCall]
    /\ UNCHANGED store

Next == \E w \in Worker :
            \/ \E b \in Branch : Begin(w, b)
            \/ Gather(w) \/ Apply(w) \/ CreateBranch(w) \/ Finish(w)

Spec == Init /\ [][Next]_<<store, call>>
=============================================================================
