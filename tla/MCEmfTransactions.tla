------------------------- MODULE MCEmfTransactions -------------------------
(* Instances of EmfTransactions for TLC.                                   *)
EXTENDS EmfRefinement, TLC

CONSTANTS i1, i2, i3, w1, w2, w3, k, l, alpha, beta, empty, master, dev

(* One class without names: the runs about locks and commits.              *)
PlainDescendant == (k :> {k})
PlainShape == {[cls |-> k, name |-> alpha]}

(* A base class k and its subclass l, with names: the runs about indexes.  *)
FamilyDescendant == (k :> {k, l}) @@ (l :> {l})
FamilyShape == [cls : {k, l}, name : {alpha, beta, empty}]
NamedShape == [cls : {k, l}, name : {alpha, beta}]

EmptyRepository == {EmptyTree}

OneObject ==
    {Saved(EmptyTree, i, [cls |-> k, name |-> alpha, refs |-> {}, val |-> 0]) : i \in Id}

OneOf(S) == {CHOOSE x \in S : TRUE}

OneObjectRepository == OneOf(OneObject)

PermuteIds == Permutations(Id)
PermuteWorkers == Permutations(Worker \ Creator)
=============================================================================
