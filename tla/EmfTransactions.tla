-------------------------- MODULE EmfTransactions --------------------------
(***************************************************************************)
(* Transactions of the emfgit object store (emfgit/Database.java,          *)
(* emfgit/Transaction.java) over the git file system of parallelgit.       *)
(*                                                                         *)
(* A worker is a server thread.  It calls Database.inTransaction(branch,   *)
(* type, f): the transaction takes the database's reentrant read-write     *)
(* lock as its type says, opens a snapshot of the branch, and runs f, a    *)
(* sequence of object operations that ends in one commit, in a return      *)
(* without a commit, or in an exception.  The commit writes a git commit   *)
(* whose parent is the snapshot and moves the branch with JGit's           *)
(* RefUpdate, under the lock file of the ref.  When the ref cannot be      *)
(* moved, the transaction is closed and f runs again on a new snapshot.    *)
(*                                                                         *)
(* A worker may also create a branch, which takes no part in the           *)
(* database's lock.                                                        *)
(***************************************************************************)
EXTENDS EmfTree, Sequences, FiniteSets

CONSTANTS Worker,
          Creator,      \* the workers that may create branches
          Branch,
          Master,       \* the branch an opened repository has
          Type,         \* the lock types the workers use
          InitialTrees, \* what the repository may hold when it is opened
          Shape,        \* the [cls, name] pairs the clients write
          OpenMayFail,  \* may the snapshot fail to open (I/O, a bad name)?
          MaxAttempts,  \* 100 in the code
          MaxCalls,     \* bound: the calls of the whole behaviour
          MaxOps,       \* bound: the operations of one f
          MaxRefs       \* bound: the references of one object

ASSUME TransactionConstants ==
    /\ Creator \subseteq Worker
    /\ Master \in Branch
    /\ Type \subseteq {"READ", "WRITE", "EXCLUSIVE"}
    /\ InitialTrees \subseteq {t \in Tree : Consistent(t)}
    /\ Shape \subseteq [cls : Class, name : Name]
    /\ OpenMayFail \in BOOLEAN
    /\ MaxAttempts \in Nat \ {0}
    /\ MaxCalls \in Nat /\ MaxOps \in Nat /\ MaxRefs \in Nat

VARIABLES
    hist,     \* the git commits, in the order of their creation
    head,     \* refs/heads: branch -> the index of its commit, 0 for no branch
    refLock,  \* the branches whose <ref>.lock file exists
    rdHolds,  \* worker -> its holds of the read lock
    wrHolds,  \* worker -> its holds of the write lock
    tx,       \* worker -> the transaction it is in
    used,     \* the ids that were ever given to an object
    calls     \* the number of calls so far

vars == <<hist, head, refLock, rdHolds, wrHolds, tx, used, calls>>

(***************************************************************************)
(* An operation of f on one object.  new is what the object becomes and    *)
(* rev the revision the client names.                                      *)
(***************************************************************************)
Op == [kind : {"create", "update", "delete", "reindex"}, id : Id \cup {NoId},
       rev : Content \cup {NoEnt}, new : Content \cup {NoEnt}]

(* A commit is named by the hash of what it holds, its parent included, so *)
(* that its whole past is part of it.  log is not in the repository: it is *)
(* how the transaction came to this tree.                                  *)
Commit == [parent : Nat, past : SUBSET Nat, tree : Tree, log : Seq(Op)]

Phase == {"idle", "locking", "opening", "running", "branching",
          "resolving", "updating", "locked", "closing"}

Outcome == {"none", "returned", "committed", "failed", "retry"}

Transaction == [phase   : Phase,
                type    : Type \cup {"BRANCH"},
                branch  : Branch,
                attempt : Nat,
                base    : Nat,      \* the commit of the snapshot, 0 for none
                tree    : Tree,     \* what f sees: the snapshot and its changes
                log     : Seq(Op),  \* the operations f has done in this attempt
                expect  : Nat,      \* the head the ref update expects to replace
                outcome : Outcome]

Idle == [phase |-> "idle", type |-> "BRANCH", branch |-> Master, attempt |-> 1,
         base |-> 0, tree |-> EmptyTree, log |-> <<>>, expect |-> 0, outcome |-> "none"]

TreeOf(n) == IF n = 0 THEN EmptyTree ELSE hist[n].tree

(* The commits reachable from commit n, itself included.                   *)
Reachable(n) == IF n = 0 THEN {} ELSE hist[n].past

Init ==
    /\ \E t \in InitialTrees :
          /\ hist = <<[parent |-> 0, past |-> {1}, tree |-> t, log |-> <<>>]>>
          /\ used = Live(t) \cup UNION {t.ent[i].refs : i \in Live(t)}
    /\ head = [b \in Branch |-> IF b = Master THEN 1 ELSE 0]
    /\ refLock = {}
    /\ rdHolds = [w \in Worker |-> 0]
    /\ wrHolds = [w \in Worker |-> 0]
    /\ tx = [w \in Worker |-> Idle]
    /\ calls = 0

-----------------------------------------------------------------------------
(***************************************************************************)
(* inTransaction and the constructor of Transaction: the lock first, then  *)
(* the snapshot.  When the snapshot cannot be opened the constructor       *)
(* throws, and the lock it has taken stays with the thread.                *)
(***************************************************************************)
Attempt(b, type, n) ==
    [Idle EXCEPT !.phase = "locking", !.branch = b, !.type = type, !.attempt = n]

Call(w, b, type) ==
    /\ tx[w].phase = "idle"
    /\ calls < MaxCalls
    /\ calls' = calls + 1
    /\ tx' = [tx EXCEPT ![w] = Attempt(b, type, 1)]
    /\ UNCHANGED <<hist, head, refLock, rdHolds, wrHolds, used>>

CanAlwaysRead(w) == TRUE                                        \* mutant

CanRead(w)  == \A v \in Worker \ {w} : wrHolds[v] = 0

CanWrite(w) == /\ \A v \in Worker \ {w} : wrHolds[v] = 0 /\ rdHolds[v] = 0
               /\ wrHolds[w] > 0 \/ rdHolds[w] = 0

Lock(w) ==
    /\ tx[w].phase = "locking"
    /\ \/ /\ tx[w].type = "READ"
          /\ UNCHANGED <<rdHolds, wrHolds>>
       \/ /\ tx[w].type = "WRITE"
          /\ CanRead(w)
          /\ rdHolds' = [rdHolds EXCEPT ![w] = @ + 1]
          /\ UNCHANGED wrHolds
       \/ /\ tx[w].type = "EXCLUSIVE"
          /\ CanWrite(w)
          /\ wrHolds' = [wrHolds EXCEPT ![w] = @ + 1]
          /\ UNCHANGED rdHolds
    /\ tx' = [tx EXCEPT ![w].phase = "opening"]
    /\ UNCHANGED <<hist, head, refLock, used, calls>>

Open(w) ==
    /\ tx[w].phase = "opening"
    /\ LET n == head[tx[w].branch]
       IN  tx' = [tx EXCEPT ![w].phase = "running", ![w].base = n,
                            ![w].tree = TreeOf(n), ![w].log = <<>>]
    /\ UNCHANGED <<hist, head, refLock, rdHolds, wrHolds, used, calls>>

OpenThrows(w) ==
    /\ OpenMayFail
    /\ tx[w].phase = "opening"
    /\ tx' = [tx EXCEPT ![w] = Idle]
    /\ UNCHANGED <<hist, head, refLock, rdHolds, wrHolds, used, calls>>

-----------------------------------------------------------------------------
(***************************************************************************)
(* f: what the clients of a transaction do to objects.  A refused          *)
(* operation is an exception that f does not catch (see Throw).            *)
(***************************************************************************)
RefSets == {R \in SUBSET used : Cardinality(R) <= MaxRefs}

NewContent(shape, R, v) == [cls |-> shape.cls, name |-> shape.name, refs |-> R, val |-> v]

(* A client has read an object in some transaction: this one or an         *)
(* earlier one, of any branch.                                             *)
Revisions(w, i) ==
    ({hist[n].tree.ent[i] : n \in DOMAIN hist} \cup {tx[w].tree.ent[i]}) \ {NoEnt}

Operate(w, op, t) ==
    /\ tx' = [tx EXCEPT ![w].tree = t, ![w].log = Append(@, op)]
    /\ UNCHANGED <<hist, head, refLock, rdHolds, wrHolds, calls>>

Running(w) == tx[w].phase = "running" /\ tx[w].type # "BRANCH"

MayOperate(w) == Running(w) /\ Len(tx[w].log) < MaxOps

CreateObject(w) ==
    /\ MayOperate(w)
    /\ \E i \in Id \ used, shape \in Shape, R \in RefSets :
          LET c == NewContent(shape, R, 0)
          IN  /\ CanCreate(tx[w].tree, i, c)
              /\ Operate(w, [kind |-> "create", id |-> i, rev |-> NoEnt, new |-> c],
                         Saved(tx[w].tree, i, c))
              /\ used' = used \cup {i}

(* val counts the changes a client makes to what it has read.              *)
UpdateObject(w) ==
    /\ MayOperate(w)
    /\ \E i \in used : \E rev \in Revisions(w, i), shape \in Shape, R \in RefSets :
          LET c == NewContent(shape, R, rev.val + 1)
          IN  /\ CanUpdate(tx[w].tree, i, rev, c)
              /\ Operate(w, [kind |-> "update", id |-> i, rev |-> rev, new |-> c],
                         Saved(tx[w].tree, i, c))
    /\ UNCHANGED used

DeleteObject(w) ==
    /\ MayOperate(w)
    /\ \E i \in used : \E rev \in Revisions(w, i) :
          /\ CanDelete(tx[w].tree, i, rev)
          /\ Operate(w, [kind |-> "delete", id |-> i, rev |-> rev, new |-> NoEnt],
                     Deleted(tx[w].tree, i))
    /\ UNCHANGED used

(* The walk through db/idx throws when there is none, neither from the      *)
(* snapshot, where an emptied directory stays, nor from this transaction.  *)
Reindex(w) ==
    /\ MayOperate(w)
    /\ HasIndexes(TreeOf(tx[w].base)) \/ HasIndexes(tx[w].tree)
    /\ CanReindex(tx[w].tree)
    /\ Operate(w, [kind |-> "reindex", id |-> NoId, rev |-> NoEnt, new |-> NoEnt],
               Reindexed(tx[w].tree))
    /\ UNCHANGED used

End(w, outcome) == tx' = [tx EXCEPT ![w].phase = "closing", ![w].outcome = outcome]

(* f throws: an operation was refused, the commit of a read transaction or *)
(* on a branch that does not exist, or an exception of its own.            *)
Throw(w) ==
    /\ Running(w)
    /\ End(w, "failed")
    /\ UNCHANGED <<hist, head, refLock, rdHolds, wrHolds, used, calls>>

(* f returns without a commit, and its changes are dropped; or it commits  *)
(* a tree equal to its parent's, which makes no commit (NO_CHANGE).        *)
Return(w) ==
    /\ Running(w)
    /\ End(w, "returned")
    /\ UNCHANGED <<hist, head, refLock, rdHolds, wrHolds, used, calls>>

-----------------------------------------------------------------------------
(***************************************************************************)
(* GfsCommit and BranchUtils.setBranchHead.  The head is read, and the ref *)
(* update replaces the head it has read, under the ref's lock file and     *)
(* only when that moves the branch forward.                                *)
(***************************************************************************)
CommitTree(w) ==
    /\ Running(w)
    /\ tx[w].type # "READ"
    /\ tx[w].base # 0
    /\ tx[w].tree # TreeOf(tx[w].base)
    /\ tx' = [tx EXCEPT ![w].phase = "resolving"]
    /\ UNCHANGED <<hist, head, refLock, rdHolds, wrHolds, used, calls>>

Resolve(w) ==
    /\ tx[w].phase = "resolving"
    /\ tx' = [tx EXCEPT ![w].phase = "updating", ![w].expect = head[tx[w].branch]]
    /\ UNCHANGED <<hist, head, refLock, rdHolds, wrHolds, used, calls>>

(* Only inTransaction runs f again.                                        *)
Refuse(w) == End(w, IF tx[w].type = "BRANCH" THEN "failed" ELSE "retry")

LockRef(w) ==
    /\ tx[w].phase = "updating"
    /\ \/ /\ tx[w].branch \in refLock
          /\ Refuse(w)
          /\ UNCHANGED refLock
       \/ /\ tx[w].branch \notin refLock
          /\ refLock' = refLock \cup {tx[w].branch}
          /\ tx' = [tx EXCEPT ![w].phase = "locked"]
    /\ UNCHANGED <<hist, head, rdHolds, wrHolds, used, calls>>

HeadIsNotCompared(w) == TRUE                                    \* mutant

HeadIsExpected(w) == head[tx[w].branch] = tx[w].expect

IsForced(w) == TRUE                                             \* mutant

IsFastForward(w) == tx[w].expect = 0 \/ tx[w].expect \in Reachable(tx[w].base)

NewCommit(w) == [parent |-> tx[w].base,
                 past   |-> Reachable(tx[w].base) \cup {Len(hist) + 1},
                 tree   |-> tx[w].tree,
                 log    |-> tx[w].log]

UpdateRef(w) ==
    LET b == tx[w].branch
    IN  /\ tx[w].phase = "locked"
        /\ refLock' = refLock \ {b}
        /\ \/ /\ ~(HeadIsExpected(w) /\ IsFastForward(w))
              /\ Refuse(w)
              /\ UNCHANGED <<hist, head>>
           \/ /\ HeadIsExpected(w)
              /\ IsFastForward(w)
              /\ IF tx[w].type = "BRANCH"
                 THEN /\ head' = [head EXCEPT ![b] = tx[w].base]
                      /\ UNCHANGED hist
                 ELSE /\ hist' = Append(hist, NewCommit(w))
                      /\ head' = [head EXCEPT ![b] = Len(hist) + 1]
              /\ End(w, "committed")
        /\ UNCHANGED <<rdHolds, wrHolds, used, calls>>

(***************************************************************************)
(* Transaction.close, and what inTransaction does after it: return, throw, *)
(* or run f again from the lock on, MaxAttempts times in all.              *)
(***************************************************************************)
ReleasesBoth(w, type) == TRUE                                   \* mutant
ReleasesUnlessRetried(w, type) ==                               \* mutant
    tx[w].type = type /\ tx[w].outcome # "retry"

Releases(w, type) == tx[w].type = type

Close(w) ==
    /\ tx[w].phase = "closing"
    /\ wrHolds' = IF Releases(w, "EXCLUSIVE") THEN [wrHolds EXCEPT ![w] = @ - 1] ELSE wrHolds
    /\ rdHolds' = IF Releases(w, "WRITE") THEN [rdHolds EXCEPT ![w] = @ - 1] ELSE rdHolds
    /\ tx' = [tx EXCEPT ![w] =
                IF @.outcome = "retry" /\ @.attempt < MaxAttempts
                THEN Attempt(@.branch, @.type, @.attempt + 1)
                ELSE Idle]
    /\ UNCHANGED <<hist, head, refLock, used, calls>>

(***************************************************************************)
(* Database.createBranch: find the start point, check that the branch does *)
(* not exist, and set its head by the same steps as a commit.              *)
(***************************************************************************)
CallCreateBranch(w, b, from) ==
    /\ w \in Creator
    /\ tx[w].phase = "idle"
    /\ calls < MaxCalls
    /\ head[from] # 0
    /\ calls' = calls + 1
    /\ tx' = [tx EXCEPT ![w] = [Idle EXCEPT !.phase = "branching", !.branch = b,
                                            !.base = head[from]]]
    /\ UNCHANGED <<hist, head, refLock, rdHolds, wrHolds, used>>

CheckBranch(w) ==
    /\ tx[w].phase = "branching"
    /\ IF head[tx[w].branch] # 0
       THEN End(w, "failed")
       ELSE tx' = [tx EXCEPT ![w].phase = "resolving"]
    /\ UNCHANGED <<hist, head, refLock, rdHolds, wrHolds, used, calls>>

-----------------------------------------------------------------------------
(* One step of a call that has begun; what f does among them.              *)
Step(w) ==
    \/ Lock(w) \/ Open(w) \/ OpenThrows(w)
    \/ CreateObject(w) \/ UpdateObject(w) \/ DeleteObject(w) \/ Reindex(w)
    \/ Throw(w) \/ Return(w) \/ CommitTree(w)
    \/ Resolve(w) \/ LockRef(w) \/ UpdateRef(w) \/ Close(w)
    \/ CheckBranch(w)

(* The bound of the calls is reached, and all have returned.               *)
Quiescent ==
    /\ calls = MaxCalls
    /\ \A w \in Worker : tx[w].phase = "idle"
    /\ UNCHANGED vars

Next ==
    \/ \E w \in Worker :
          \/ \E b \in Branch, type \in Type : Call(w, b, type)
          \/ \E b, from \in Branch : CallCreateBranch(w, b, from)
          \/ Step(w)
    \/ Quiescent

Spec == Init /\ [][Next]_vars

(* A thread that can take a step of its call takes it.                     *)
Fairness == \A w \in Worker : WF_vars(Step(w))

FairSpec == Spec /\ Fairness

-----------------------------------------------------------------------------
TypeOK ==
    /\ hist \in Seq(Commit)
    /\ head \in [Branch -> 0 .. Len(hist)]
    /\ refLock \subseteq Branch
    /\ rdHolds \in [Worker -> Nat]
    /\ wrHolds \in [Worker -> Nat]
    /\ tx \in [Worker -> Transaction]
    /\ used \subseteq Id
    /\ calls \in 0 .. MaxCalls

(***************************************************************************)
(* The indexes of every commit, and of every tree a transaction works on,  *)
(* agree with the objects in it.                                           *)
(***************************************************************************)
TreesConsistent ==
    /\ \A n \in DOMAIN hist : Consistent(hist[n].tree)
    /\ \A w \in Worker : Consistent(tx[w].tree)

(***************************************************************************)
(* While a worker has an exclusive transaction open on a branch, it stays  *)
(* where the snapshot is: its commit is never refused and f never runs     *)
(* twice.                                                                  *)
(***************************************************************************)
InSnapshot(w) == tx[w].phase \in {"running", "resolving", "updating", "locked"}

ExclusiveIsAlone ==
    \A w \in Worker :
        /\ tx[w].type = "EXCLUSIVE" /\ InSnapshot(w) /\ tx[w].base # 0
              => head[tx[w].branch] = tx[w].base
        /\ tx[w].type = "EXCLUSIVE" => tx[w].outcome # "retry"

(***************************************************************************)
(* A commit holds every change anybody has committed before it on its      *)
(* branch: the value of an object is the value in the parent commit plus   *)
(* the changes of this transaction, so no client has overwritten a change  *)
(* it did not read; and every commit there ever was is in the past of the  *)
(* head of a branch, so that none was pushed aside by one that did not     *)
(* know it.                                                                *)
(***************************************************************************)
Changes(log, i) == Cardinality({k \in DOMAIN log : log[k].kind = "update" /\ log[k].id = i})

ChangesAddUp ==
    \A n \in DOMAIN hist \ {1} : \A i \in Live(hist[n].tree) :
        LET old == TreeOf(hist[n].parent).ent[i]
        IN  hist[n].tree.ent[i].val = (IF old = NoEnt THEN 0 ELSE old.val) + Changes(hist[n].log, i)

NoCommitLost == \A n \in DOMAIN hist : \E b \in Branch : n \in Reachable(head[b])

NoLostUpdate == ChangesAddUp /\ NoCommitLost

(***************************************************************************)
(* No commit takes the target of a reference away: what an object referred *)
(* to in the parent commit, and in all it was saved as since then, is      *)
(* still there.  (A client may drop a reference, delete the object it was  *)
(* to and write the reference again: the code accepts a save that refers   *)
(* to a missing object.)                                                   *)
(***************************************************************************)
AlwaysReferred(log, s) ==
    {r \in Id : \A k \in DOMAIN log : log[k].kind = "update" /\ log[k].id = s => r \in log[k].new.refs}

ReferencesKept ==
    \A n \in DOMAIN hist \ {1} :
        LET old == TreeOf(hist[n].parent)
            new == hist[n].tree
        IN  \A s \in Live(old) \cap Live(new) :
                old.ent[s].refs \cap AlwaysReferred(hist[n].log, s) \cap Live(old) \subseteq Live(new)

(***************************************************************************)
(* checkUniqueQName refuses a save with a "Duplicate qualified name": an   *)
(* object that was just renamed has a name no other object of its class or *)
(* of a class below has.  The code does not do this.                       *)
(***************************************************************************)
RenamesAreUnique ==
    \A w \in Worker : tx[w].log # <<>> =>
        LET op == tx[w].log[Len(tx[w].log)]
        IN  op.kind = "update" /\ op.new.cls \in Named /\ op.new.name # op.rev.name
              => ~ \E j \in Live(tx[w].tree) \ {op.id} :
                     LET c == tx[w].tree.ent[j]
                     IN  c.cls \in Descendant[op.new.cls] \cap Named /\ c.name = op.new.name

(***************************************************************************)
(* A branch only moves forward: what was once committed on it stays in its *)
(* history.                                                                *)
(***************************************************************************)
BranchesMoveForward ==
    [][\A b \in Branch : \A n \in {head[b]} :
          n # 0 => (n \in Reachable(head[b]))']_vars

(***************************************************************************)
(* Every call returns: no thread waits for ever for the database's lock or *)
(* for a ref, provided that no transaction fails to open.                  *)
(***************************************************************************)
CallsReturn == \A w \in Worker : tx[w].phase # "idle" ~> tx[w].phase = "idle"
=============================================================================
