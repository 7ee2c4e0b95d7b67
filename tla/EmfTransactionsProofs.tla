----------------------- MODULE EmfTransactionsProofs -----------------------
(***************************************************************************)
(* The safety of EmfTransactions and that it implements EmfStore, for any  *)
(* workers, branches, objects, bounds and repositories: first what an      *)
(* operation does to the indexes, then the locks, the races, what becomes  *)
(* of changes and references, and the refinement.                          *)
(***************************************************************************)
EXTENDS EmfRefinement, FiniteSetTheorems, SequenceTheorems, WellFoundedInduction, TLAPS

-----------------------------------------------------------------------------
(***************************************************************************)
(* The operations of EmfTree keep the two indexes exact, for every set of  *)
(* ids, classes, names and every class hierarchy.                          *)
(***************************************************************************)

(***************************************************************************)
(* The tree of the initial commit is a tree, and has nothing to index.     *)
(***************************************************************************)
LEMMA EmptyTreeType == EmptyTree \in Tree
  BY DEF EmptyTree, Tree

(* With no object, both indexes are exact when they are empty.             *)
LEMMA EmptyTreeConsistent == Consistent(EmptyTree)
  BY TreeConstants DEF EmptyTree, Consistent, NamesExact, RefsExact, Live, Key

(***************************************************************************)
(* A save writes files of the three directories only.                      *)
(***************************************************************************)
LEMMA SavedType ==
  ASSUME NEW t \in Tree, NEW i \in Id, NEW c \in Content
  PROVE  Saved(t, i, c) \in Tree
  <1>1. [t.ent EXCEPT ![i] = c] \in [Id -> Content \cup {NoEnt}]
    BY DEF Tree
  <1>2. NamesAfterSave(t, i, t.ent[i], c) \in [Key -> Id \cup {NoId}]
    BY DEF Tree, NamesAfterSave
  <1>3. RefsAfterSave(t, i, t.ent[i], c) \in SUBSET (Id \X Id)
    <2>1. t.refs \in SUBSET (Id \X Id)
      BY DEF Tree
    <2>2. RefKeys(t, i, c) \in SUBSET (Id \X Id)
      BY DEF RefKeys, Content
    <2>3. QED
      BY <2>1, <2>2 DEF RefsAfterSave
  <1>4. QED
    BY <1>1, <1>2, <1>3 DEF Saved, Tree

(* ... and so does a delete.                                               *)
LEMMA DeletedType ==
  ASSUME NEW t \in Tree, NEW i \in Id
  PROVE  Deleted(t, i) \in Tree
  BY DEF Deleted, Tree

(***************************************************************************)
(* A save, of a new object or over an old one, keeps the index of names    *)
(* exact.                                                                  *)
(***************************************************************************)
LEMMA SavedNames ==
  ASSUME NEW t \in Tree, NEW i \in Id, NEW c \in Content,
         NamesExact(t), CanUpdateIndexes(t, i, t.ent[i], c)
  PROVE  NamesExact(Saved(t, i, c))
  <1> DEFINE n == Saved(t, i, c)
  <1> SUFFICES ASSUME NEW k \in Key, NEW j \in Id
               PROVE  n.names[k] = j <=> j \in Live(n) /\ k \in NameKeys(n.ent[j])
    BY DEF NamesExact
  <1> USE DEF Saved, NamesAfterSave, Live
  <1>0. c # NoEnt
    BY TreeConstants
  <1>1. n.ent[i] = c /\ \A x \in Id \ {i} : n.ent[x] = t.ent[x]
    BY DEF Tree
  <1>2. n.names[k] = IF k \in NameKeys(c) THEN i
                     ELSE IF k \in OldNameKeys(t.ent[i]) THEN NoId ELSE t.names[k]
    OBVIOUS
  <1>3. \A x \in Id : t.names[k] = x <=> t.ent[x] # NoEnt /\ k \in NameKeys(t.ent[x])
    BY DEF NamesExact
  <1>4. k \in OldNameKeys(t.ent[i]) <=> t.names[k] = i
    BY <1>3 DEF OldNameKeys
  <1>5. CASE k \in NameKeys(c)
    <2>1. t.names[k] = i \/ t.names[k] = NoId
      BY <1>4, <1>5 DEF CanUpdateIndexes
    <2>2. j # i => ~(j \in Live(n) /\ k \in NameKeys(n.ent[j]))
      BY <2>1, <1>1, <1>3, TreeConstants
    <2>3. QED
      BY <2>2, <1>0, <1>1, <1>2, <1>5
  <1>6. CASE k \notin NameKeys(c)
    <2>1. CASE j = i
      BY <2>1, <1>1, <1>2, <1>4, <1>6, TreeConstants
    <2>2. CASE j # i
      BY <2>2, <1>1, <1>2, <1>3, <1>4, <1>6, TreeConstants
    <2>3. QED
      BY <2>1, <2>2
  <1>7. QED
    BY <1>5, <1>6

(***************************************************************************)
(* ... and the index of references, provided a new object's id is fresh: a *)
(* reference to a missing object is in no index, and would have to enter   *)
(* it when the object appears.                                             *)
(***************************************************************************)
LEMMA SavedRefs ==
  ASSUME NEW t \in Tree, NEW i \in Id, NEW c \in Content,
         RefsExact(t), t.ent[i] = NoEnt => Unmentioned(t, i)
  PROVE  RefsExact(Saved(t, i, c))
  <1> DEFINE n == Saved(t, i, c)
  <1> SUFFICES ASSUME NEW r \in Id, NEW s \in Id
               PROVE  <<r, s>> \in n.refs <=>
                        s \in Live(n) /\ r \in Live(n) /\ r # s /\ r \in n.ent[s].refs
    BY DEF RefsExact
  <1>0. c # NoEnt
    BY TreeConstants
  <1>1. n.ent[i] = c /\ \A x \in Id \ {i} : n.ent[x] = t.ent[x]
    BY DEF Saved, Tree
  <1>2. n.refs = (t.refs \ OldRefKeys(t, i, t.ent[i])) \cup RefKeys(t, i, c)
    BY DEF Saved, RefsAfterSave
  <1>3. <<r, s>> \in t.refs <=>
          t.ent[s] # NoEnt /\ t.ent[r] # NoEnt /\ r # s /\ r \in t.ent[s].refs
    BY DEF RefsExact, Live
  <1>4. <<r, s>> \in RefKeys(t, i, c) <=>
          s = i /\ r # i /\ r \in c.refs /\ t.ent[r] # NoEnt
    BY DEF RefKeys, Live
  <1>5. <<r, s>> \in OldRefKeys(t, i, t.ent[i]) <=>
          /\ t.ent[i] # NoEnt
          /\ s = i /\ r # i /\ r \in t.ent[i].refs /\ t.ent[r] # NoEnt
    BY DEF OldRefKeys, RefKeys, Live
  <1>6. CASE s = i
    <2>1. <<r, s>> \in n.refs <=> r # i /\ r \in c.refs /\ t.ent[r] # NoEnt
      BY <1>2, <1>3, <1>4, <1>5, <1>6
    <2>2. QED
      BY <2>1, <1>0, <1>1, <1>6 DEF Live
  <1>7. CASE s # i /\ r # i
    <2>1. <<r, s>> \in n.refs <=> <<r, s>> \in t.refs
      BY <1>2, <1>4, <1>5, <1>7
    <2>2. QED
      BY <2>1, <1>1, <1>3, <1>7 DEF Live
  <1>8. CASE s # i /\ r = i
    <2>1. <<r, s>> \in n.refs <=> <<r, s>> \in t.refs
      BY <1>2, <1>4, <1>5, <1>8
    <2>2. t.ent[i] = NoEnt /\ t.ent[s] # NoEnt => i \notin t.ent[s].refs
      BY DEF Unmentioned, Live
    <2>3. QED
      BY <2>1, <2>2, <1>0, <1>1, <1>3, <1>8 DEF Live
  <1>9. QED
    BY <1>6, <1>7, <1>8

(***************************************************************************)
(* A create the handlers let through, under a fresh random id, keeps both  *)
(* indexes exact.                                                          *)
(***************************************************************************)
LEMMA CreateConsistent ==
  ASSUME NEW t \in Tree, NEW i \in Id, NEW c \in Content,
         Consistent(t), CanCreate(t, i, c), Unmentioned(t, i)
  PROVE  Saved(t, i, c) \in Tree /\ Consistent(Saved(t, i, c))
  BY SavedType, SavedNames, SavedRefs DEF CanCreate, Consistent

(* So does an update, whatever revision the client named.                  *)
LEMMA UpdateConsistent ==
  ASSUME NEW t \in Tree, NEW i \in Id, NEW c \in Content, NEW rev,
         Consistent(t), CanUpdate(t, i, rev, c)
  PROVE  Saved(t, i, c) \in Tree /\ Consistent(Saved(t, i, c))
  BY SavedType, SavedNames, SavedRefs DEF CanUpdate, Consistent

(***************************************************************************)
(* A delete removes its own index files and no other's; an object it is    *)
(* allowed to delete is in no other object's references.                   *)
(***************************************************************************)
LEMMA DeleteConsistent ==
  ASSUME NEW t \in Tree, NEW i \in Id, NEW rev,
         Consistent(t), CanDelete(t, i, rev)
  PROVE  Deleted(t, i) \in Tree /\ Consistent(Deleted(t, i))
  <1> DEFINE n == Deleted(t, i)
  <1>1. n.ent[i] = NoEnt /\ \A x \in Id \ {i} : n.ent[x] = t.ent[x]
    BY DEF Deleted, Tree
  <1>2. NamesExact(n)
    <2> SUFFICES ASSUME NEW k \in Key, NEW j \in Id
                 PROVE  n.names[k] = j <=> j \in Live(n) /\ k \in NameKeys(n.ent[j])
      BY DEF NamesExact
    <2>1. \A x \in Id : t.names[k] = x <=> t.ent[x] # NoEnt /\ k \in NameKeys(t.ent[x])
      BY DEF Consistent, NamesExact, Live
    <2>2. n.names[k] = IF k \in NameKeys(t.ent[i]) THEN NoId ELSE t.names[k]
      BY DEF Deleted
    <2>3. k \in NameKeys(t.ent[i]) <=> t.names[k] = i
      BY <2>1 DEF CanDelete
    <2>4. QED
      BY <1>1, <2>1, <2>2, <2>3, TreeConstants DEF Live
  <1>3. RefsExact(n)
    <2> SUFFICES ASSUME NEW r \in Id, NEW s \in Id
                 PROVE  <<r, s>> \in n.refs <=>
                          s \in Live(n) /\ r \in Live(n) /\ r # s /\ r \in n.ent[s].refs
      BY DEF RefsExact
    <2>1. <<r, s>> \in t.refs <=>
            t.ent[s] # NoEnt /\ t.ent[r] # NoEnt /\ r # s /\ r \in t.ent[s].refs
      BY DEF Consistent, RefsExact, Live
    <2>2. <<r, s>> \in n.refs <=> <<r, s>> \in t.refs /\ <<r, s>> \notin RefKeys(t, i, t.ent[i])
      BY DEF Deleted
    <2>3. <<r, s>> \in RefKeys(t, i, t.ent[i]) <=>
            s = i /\ r # i /\ r \in t.ent[i].refs /\ t.ent[r] # NoEnt
      BY DEF RefKeys, Live
    <2>4. r = i => <<r, s>> \notin t.refs
      BY DEF CanDelete, IsReferenced
    <2>5. CASE s = i
      BY <2>5, <1>1, <2>1, <2>2, <2>3 DEF Live
    <2>6. CASE s # i
      BY <2>6, <1>1, <2>1, <2>2, <2>3, <2>4 DEF Live
    <2>7. QED
      BY <2>5, <2>6
  <1>4. QED
    BY <1>2, <1>3, DeletedType DEF Consistent

(* Two reference indexes with the same entries are the same index.         *)
LEMMA SameIndex ==
  ASSUME NEW P, NEW Q, P \subseteq Id \X Id, Q \subseteq Id \X Id,
         \A r, s \in Id : <<r, s>> \in P <=> <<r, s>> \in Q
  PROVE  P = Q
  <1>1. \A x \in Id \X Id : x = <<x[1], x[2]>> /\ x[1] \in Id /\ x[2] \in Id
    OBVIOUS
  <1>2. \A x \in Id \X Id : x \in P <=> x \in Q
    BY <1>1
  <1>3. QED
    BY <1>2

(***************************************************************************)
(* Rebuilding the index of a consistent tree is allowed and changes        *)
(* nothing: what the handlers maintain one save at a time is what reindex  *)
(* computes from the objects alone.                                        *)
(***************************************************************************)
THEOREM ReindexIdentity ==
  ASSUME NEW t \in Tree, Consistent(t)
  PROVE  CanReindex(t) /\ Reindexed(t) = t
  <1>1. ASSUME NEW i \in Live(t), NEW k \in NameKeys(t.ent[i])
        PROVE  k \in Key /\ t.names[k] = i
    <2>1. i \in Id /\ t.ent[i] \in Content
      BY DEF Live, Tree
    <2>2. k \in Key
      BY <2>1 DEF NameKeys, Key, Content
    <2>3. QED
      BY <2>1, <2>2, <1>1 DEF Consistent, NamesExact
  <1>2. CanReindex(t)
    BY <1>1 DEF CanReindex
  <1>3. Reindexed(t).names = t.names
    <2> DEFINE f(k) == IF \E i \in Live(t) : k \in NameKeys(t.ent[i])
                       THEN CHOOSE i \in Live(t) : k \in NameKeys(t.ent[i])
                       ELSE NoId
    <2>1. ASSUME NEW k \in Key PROVE f(k) = t.names[k]
      <3>1. CASE \E i \in Live(t) : k \in NameKeys(t.ent[i])
        <4>1. PICK i \in Live(t) : k \in NameKeys(t.ent[i]) /\ f(k) = i
          BY <3>1
        <4>2. QED
          BY <4>1, <1>1
      <3>2. CASE ~ \E i \in Live(t) : k \in NameKeys(t.ent[i])
        <4>1. t.names[k] \notin Id
          BY <3>2 DEF Consistent, NamesExact
        <4>2. t.names[k] = NoId
          BY <4>1 DEF Tree
        <4>3. QED
          BY <3>2, <4>2
      <3>3. QED
        BY <3>1, <3>2
    <2>2. Reindexed(t).names = [k \in Key |-> f(k)]
      BY DEF Reindexed
    <2>3. t.names = [k \in Key |-> t.names[k]]
      BY DEF Tree
    <2> HIDE DEF f
    <2>4. QED
      BY <2>1, <2>2, <2>3
  <1>4. Reindexed(t).refs = t.refs
    <2>1. Reindexed(t).refs \subseteq Id \X Id
      <3>1. \A i \in Live(t) : i \in Id /\ t.ent[i] \in Content
        BY DEF Live, Tree
      <3>2. QED
        BY <3>1 DEF Reindexed, RefKeys, Content
    <2>2. ASSUME NEW r \in Id, NEW s \in Id
          PROVE  <<r, s>> \in Reindexed(t).refs <=> <<r, s>> \in t.refs
      <3>1. <<r, s>> \in Reindexed(t).refs
              <=> \E i \in Live(t) : <<r, s>> \in RefKeys(t, i, t.ent[i])
        BY DEF Reindexed
      <3>2. <<r, s>> \in Reindexed(t).refs
              <=> s \in Live(t) /\ r \in Live(t) /\ r # s /\ r \in t.ent[s].refs
        BY <3>1 DEF RefKeys
      <3>3. QED
        BY <3>2 DEF Consistent, RefsExact
    <2>3. t.refs \subseteq Id \X Id
      BY DEF Tree
    <2>4. QED
      BY <2>1, <2>2, <2>3, SameIndex
  <1>5. Reindexed(t).ent = t.ent /\ DOMAIN Reindexed(t) = {"ent", "names", "refs"}
    BY DEF Reindexed
  <1>6. QED
    BY <1>2, <1>3, <1>4, <1>5 DEF Tree, Reindexed

-----------------------------------------------------------------------------

(* The phases of a transaction that has taken its lock.                    *)
Held == {"opening", "running", "resolving", "updating", "locked", "closing"}

(***************************************************************************)
(* The read-write lock: a transaction that has taken it holds it, and a    *)
(* thread that holds the write lock is the only one that holds anything.   *)
(***************************************************************************)
LocksHeld ==
    \A w \in Worker : tx[w].phase \in Held =>
        /\ tx[w].type = "WRITE" => rdHolds[w] > 0
        /\ tx[w].type = "EXCLUSIVE" => wrHolds[w] > 0

LocksExclude ==
    \A v, w \in Worker : v # w /\ wrHolds[w] > 0 => wrHolds[v] = 0 /\ rdHolds[v] = 0

(* A snapshot is a commit of the repository.                               *)
BasesExist == \A w \in Worker : tx[w].base \in 0 .. Len(hist)

(* Only the creation of a branch checks for one.                           *)
BranchingIsBranch == \A w \in Worker : tx[w].phase = "branching" => tx[w].type = "BRANCH"

LockInv == LocksHeld /\ LocksExclude /\ BasesExist /\ BranchingIsBranch

TypeInv == TypeOK /\ LockInv

-----------------------------------------------------------------------------
(* An idle transaction is a transaction.                                   *)
LEMMA IdleType == Idle \in Transaction
  BY EmptyTreeType, TransactionConstants DEF Idle, Transaction, Phase, Outcome

(* So is the first or a later attempt of a call.                           *)
LEMMA AttemptType ==
  ASSUME NEW b \in Branch, NEW type \in Type \cup {"BRANCH"}, NEW n \in Nat
  PROVE  Attempt(b, type, n) \in Transaction
  BY IdleType DEF Attempt, Transaction, Phase

(* What a client writes is the content of an object.                       *)
LEMMA NewContentType ==
  ASSUME used \subseteq Id, NEW shape \in Shape, NEW R \in RefSets, NEW v \in Nat
  PROVE  NewContent(shape, R, v) \in Content
  BY TransactionConstants DEF NewContent, RefSets, Content

(* The commits of the repository are commits.                              *)
LEMMA HistType ==
  ASSUME TypeOK
  PROVE  DOMAIN hist = 1 .. Len(hist) /\ Len(hist) \in Nat /\ \A n \in 1 .. Len(hist) : hist[n] \in Commit
  BY DEF TypeOK

(* A transaction moves to another phase.                                   *)
LEMMA PhaseType ==
  ASSUME NEW r \in Transaction, NEW phase \in Phase
  PROVE  LET q == [r EXCEPT !.phase = phase]
         IN  /\ q \in Transaction /\ q.phase = phase /\ q.type = r.type
             /\ q.branch = r.branch /\ q.base = r.base /\ q.tree = r.tree
             /\ q.expect = r.expect /\ q.outcome = r.outcome
  BY DEF Transaction

(* A transaction ends.                                                     *)
LEMMA EndType ==
  ASSUME NEW r \in Transaction, NEW outcome \in Outcome
  PROVE  LET q == [r EXCEPT !.phase = "closing", !.outcome = outcome]
         IN  /\ q \in Transaction /\ q.phase = "closing" /\ q.type = r.type
             /\ q.branch = r.branch /\ q.base = r.base /\ q.tree = r.tree
             /\ q.expect = r.expect /\ q.outcome = outcome
  BY DEF Transaction, Phase

(* A client's revision of an object is the content it had at some time.    *)
LEMMA RevisionType ==
  ASSUME TypeOK, NEW w \in Worker, NEW i \in used
  PROVE  i \in Id /\ Revisions(w, i) \subseteq Content
  <1>1. i \in Id /\ tx[w].tree \in Tree
    BY DEF TypeOK, Transaction
  <1>2. \A n \in DOMAIN hist : hist[n].tree \in Tree
    BY HistType DEF Commit
  <1>3. \A t \in Tree : t.ent[i] \in Content \cup {NoEnt}
    BY <1>1 DEF Tree
  <1>4. QED
    BY <1>1, <1>2, <1>3 DEF Revisions

(* The tree a rebuilt index gives is a tree.                               *)
LEMMA ReindexedType ==
  ASSUME NEW t \in Tree
  PROVE  Reindexed(t) \in Tree
  <1>1. \A i \in Live(t) : i \in Id /\ t.ent[i] \in Content
    BY DEF Live, Tree
  <1>2. Reindexed(t).names \in [Key -> Id \cup {NoId}]
    BY <1>1 DEF Reindexed
  <1>3. Reindexed(t).refs \subseteq Id \X Id
    BY <1>1 DEF Reindexed, RefKeys, Content
  <1>4. QED
    BY <1>2, <1>3 DEF Reindexed, Tree

(* The initial states.                                                     *)
LEMMA TypeInit == Init => TypeInv
  <1> SUFFICES ASSUME Init PROVE TypeInv
    OBVIOUS
  <1>1. PICK t \in InitialTrees :
           /\ hist = <<[parent |-> 0, past |-> {1}, tree |-> t, log |-> <<>>]>>
           /\ used = Live(t) \cup UNION {t.ent[i].refs : i \in Live(t)}
    BY DEF Init
  <1>2. t \in Tree
    BY TransactionConstants
  <1>3. hist \in Seq(Commit) /\ Len(hist) = 1
    BY <1>1, <1>2 DEF Commit
  <1>4. used \subseteq Id
    BY <1>1, <1>2 DEF Live, Tree, Content
  <1>5. head \in [Branch -> 0 .. Len(hist)]
    BY <1>3 DEF Init
  <1>6. tx \in [Worker -> Transaction]
    BY IdleType DEF Init
  <1>7. TypeOK
    BY <1>3, <1>4, <1>5, <1>6, TransactionConstants DEF Init, TypeOK
  <1>8. LockInv
    BY <1>3 DEF Init, LockInv, LocksHeld, LocksExclude, BasesExist, BranchingIsBranch, Idle, Held
  <1>9. QED
    BY <1>7, <1>8 DEF TypeInv

(***************************************************************************)
(* A step that changes one transaction and no lock, and does not pretend   *)
(* to hold one.                                                            *)
(***************************************************************************)
LEMMA TransactionStep ==
  ASSUME TypeInv, NEW w \in Worker, NEW r \in Transaction,
         tx' = [tx EXCEPT ![w] = r],
         UNCHANGED <<hist, rdHolds, wrHolds>>,
         r.base \in 0 .. Len(hist),
         r.phase \in Held => tx[w].phase \in Held /\ r.type = tx[w].type,
         r.phase = "branching" => r.type = "BRANCH"
  PROVE  tx' \in [Worker -> Transaction] /\ LockInv'
  <1>1. tx \in [Worker -> Transaction]
    BY DEF TypeInv, TypeOK
  <1>2. tx'[w] = r /\ \A v \in Worker \ {w} : tx'[v] = tx[v]
    BY <1>1
  <1> USE DEF TypeInv, LockInv
  <1>3. LocksHeld'
    BY <1>2 DEF LocksHeld
  <1>4. LocksExclude'
    BY DEF LocksExclude
  <1>5. BasesExist' /\ BranchingIsBranch'
    BY <1>2 DEF BasesExist, BranchingIsBranch
  <1>6. QED
    BY <1>1, <1>3, <1>4, <1>5

(* How a transaction ends.                                                 *)
LEMMA EndStep ==
  ASSUME TypeInv, NEW w \in Worker, NEW outcome \in Outcome, End(w, outcome),
         tx[w].phase \in Held, UNCHANGED <<hist, rdHolds, wrHolds>>
  PROVE  tx' \in [Worker -> Transaction] /\ LockInv'
  <1> DEFINE r == [tx[w] EXCEPT !.phase = "closing", !.outcome = outcome]
  <1>1. tx[w] \in Transaction /\ tx[w].base \in 0 .. Len(hist)
    BY DEF TypeInv, LockInv, TypeOK, BasesExist
  <1>2. r \in Transaction /\ r.base = tx[w].base /\ r.type = tx[w].type /\ r.phase = "closing"
    BY <1>1, EndType
  <1>3. tx' = [tx EXCEPT ![w] = r]
    BY DEF End, TypeInv, TypeOK
  <1>4. QED
    BY <1>1, <1>2, <1>3, TransactionStep

(***************************************************************************)
(* What f does to an object leaves the tree a tree and the log a log.      *)
(***************************************************************************)
LEMMA OperateStep ==
  ASSUME TypeInv, NEW w \in Worker, NEW op \in Op, NEW t \in Tree,
         Running(w), Operate(w, op, t)
  PROVE  tx' \in [Worker -> Transaction] /\ LockInv'
  <1> DEFINE r == [tx[w] EXCEPT !.tree = t, !.log = Append(@, op)]
  <1>1. tx[w] \in Transaction /\ tx[w].base \in 0 .. Len(hist)
    BY DEF TypeInv, LockInv, TypeOK, BasesExist
  <1>2. Append(tx[w].log, op) \in Seq(Op)
    BY <1>1 DEF Transaction
  <1>3. r \in Transaction /\ r.base = tx[w].base /\ r.type = tx[w].type /\ r.phase = tx[w].phase
    BY <1>1, <1>2 DEF Transaction
  <1>4. tx' = [tx EXCEPT ![w] = r]
    BY DEF Operate, TypeInv, TypeOK
  <1>5. UNCHANGED <<hist, rdHolds, wrHolds>> /\ tx[w].phase = "running"
    BY DEF Operate, Running
  <1>6. QED
    BY <1>1, <1>3, <1>4, <1>5, TransactionStep DEF Held

(***************************************************************************)
(* Every step keeps the types and the lock.  Only the steps of the lock    *)
(* itself, and the commit, are more than a change of one transaction.      *)
(***************************************************************************)
LEMMA TypeNext == TypeInv /\ [Next]_vars => TypeInv'
  <1> SUFFICES ASSUME TypeInv, [Next]_vars PROVE TypeInv'
    OBVIOUS
  <1> USE DEF TypeInv, LockInv
  <1>0. /\ tx \in [Worker -> Transaction] /\ hist \in Seq(Commit)
        /\ rdHolds \in [Worker -> Nat] /\ wrHolds \in [Worker -> Nat]
        /\ head \in [Branch -> 0 .. Len(hist)] /\ used \subseteq Id
        /\ refLock \subseteq Branch /\ calls \in 0 .. MaxCalls /\ Len(hist) \in Nat
    BY DEF TypeOK
  <1>1. CASE UNCHANGED vars
    BY <1>1 DEF vars, TypeOK, LocksHeld, LocksExclude, BasesExist, BranchingIsBranch
  <1>2. ASSUME NEW w \in Worker, NEW b \in Branch, NEW type \in Type, Call(w, b, type)
        PROVE  TypeInv'
    <2>1. Attempt(b, type, 1) \in Transaction
      BY AttemptType
    <2>2. Attempt(b, type, 1).base = 0 /\ Attempt(b, type, 1).phase = "locking"
      BY DEF Attempt, Idle
    <2>3. 0 \in 0 .. Len(hist)
      BY <1>0
    <2>4. tx' \in [Worker -> Transaction] /\ LockInv'
      BY <1>2, <2>1, <2>2, <2>3, TransactionStep DEF Call, Held
    <2>5. QED
      BY <1>0, <1>2, <2>4, TransactionConstants DEF Call, TypeOK
  <1>3. ASSUME NEW w \in Worker, NEW b \in Branch, NEW from \in Branch,
               CallCreateBranch(w, b, from)
        PROVE  TypeInv'
    <2> DEFINE r == [Idle EXCEPT !.phase = "branching", !.branch = b, !.base = head[from]]
    <2>0. head[from] \in 0 .. Len(hist) /\ head[from] \in Nat
      BY <1>0
    <2>1. /\ r \in Transaction /\ r.phase = "branching" /\ r.type = "BRANCH"
          /\ r.base \in 0 .. Len(hist)
      <3>1. Idle \in Transaction /\ Idle.type = "BRANCH"
        BY IdleType DEF Idle
      <3>2. QED
        BY <2>0, <3>1 DEF Transaction, Phase
    <2>2. tx' \in [Worker -> Transaction] /\ LockInv'
      BY <1>0, <1>3, <2>1, TransactionStep DEF CallCreateBranch, Held
    <2>3. QED
      BY <1>0, <1>3, <2>2, TransactionConstants, SMTT(20) DEF CallCreateBranch, TypeOK
  <1>4. ASSUME NEW w \in Worker, Lock(w)
        PROVE  TypeInv'
    <2> DEFINE r == [tx[w] EXCEPT !.phase = "opening"]
    <2>1. r \in Transaction /\ r.base = tx[w].base /\ r.type = tx[w].type
      BY <1>0, ZenonT(40) DEF Transaction, Phase
    <2>2. tx' = [tx EXCEPT ![w] = r]
      BY <1>0, <1>4 DEF Lock
    <2>3. tx'[w] = r /\ \A v \in Worker \ {w} : tx'[v] = tx[v]
      BY <1>0, <2>2
    <2>4. tx' \in [Worker -> Transaction] /\ BasesExist' /\ BranchingIsBranch'
      BY <1>0, <1>4, <2>1, <2>2, <2>3 DEF Lock, BasesExist, BranchingIsBranch
    <2>5. /\ rdHolds' \in [Worker -> Nat] /\ wrHolds' \in [Worker -> Nat]
          /\ \A v \in Worker \ {w} : rdHolds'[v] = rdHolds[v] /\ wrHolds'[v] = wrHolds[v]
          /\ rdHolds'[w] >= rdHolds[w] /\ wrHolds'[w] >= wrHolds[w]
          /\ tx[w].type = "WRITE" => rdHolds'[w] > 0 /\ wrHolds' = wrHolds /\ CanRead(w)
          /\ tx[w].type = "EXCLUSIVE" => wrHolds'[w] > 0 /\ rdHolds' = rdHolds /\ CanWrite(w)
          /\ tx[w].type \notin {"WRITE", "EXCLUSIVE"} => UNCHANGED <<rdHolds, wrHolds>>
      <3>1. CASE tx[w].type = "READ" /\ UNCHANGED <<rdHolds, wrHolds>>
        BY <1>0, <3>1
      <3>2. CASE /\ tx[w].type = "WRITE" /\ CanRead(w) /\ UNCHANGED wrHolds
                 /\ rdHolds' = [rdHolds EXCEPT ![w] = @ + 1]
        BY <1>0, <3>2
      <3>3. CASE /\ tx[w].type = "EXCLUSIVE" /\ CanWrite(w) /\ UNCHANGED rdHolds
                 /\ wrHolds' = [wrHolds EXCEPT ![w] = @ + 1]
        BY <1>0, <3>3
      <3>4. QED
        BY <1>4, <3>1, <3>2, <3>3 DEF Lock
    <2>6. LocksHeld'
      BY <1>0, <2>1, <2>3, <2>5 DEF LocksHeld
    <2>7. LocksExclude'
      <3>1. CASE tx[w].type = "WRITE"
        BY <1>0, <2>5, <3>1 DEF LocksExclude, CanRead
      <3>2. CASE tx[w].type = "EXCLUSIVE"
        BY <1>0, <2>5, <3>2 DEF LocksExclude, CanWrite
      <3>3. CASE tx[w].type \notin {"WRITE", "EXCLUSIVE"}
        BY <1>0, <2>5, <3>3 DEF LocksExclude
      <3>4. QED
        BY <3>1, <3>2, <3>3
    <2>8. QED
      BY <1>0, <1>4, <2>4, <2>5, <2>6, <2>7 DEF Lock, TypeOK
  <1>5. ASSUME NEW w \in Worker, Open(w)
        PROVE  TypeInv'
    <2> DEFINE n == head[tx[w].branch]
    <2> DEFINE r == [tx[w] EXCEPT !.phase = "running", !.base = n, !.tree = TreeOf(n), !.log = <<>>]
    <2>1. n \in 0 .. Len(hist)
      BY <1>0 DEF Transaction
    <2>2. TreeOf(n) \in Tree
      <3>1. n # 0 => hist[n] \in Commit
        BY <1>0, <2>1
      <3>2. QED
        BY <3>1, EmptyTreeType DEF TreeOf, Commit
    <2> HIDE DEF n
    <2>3. r \in Transaction /\ r.base = n /\ r.type = tx[w].type /\ r.phase = "running"
      <3>1. tx[w] \in Transaction /\ n \in Nat /\ <<>> \in Seq(Op)
        BY <1>0, <2>1
      <3>2. QED
        BY <2>2, <3>1 DEF Transaction, Phase
    <2>4. tx' = [tx EXCEPT ![w] = r]
      BY <1>0, <1>5 DEF Open, n
    <2>5. tx' \in [Worker -> Transaction] /\ LockInv'
      BY <1>5, <2>1, <2>3, <2>4, TransactionStep, ZenonT(40) DEF Open, Held
    <2>6. QED
      BY <1>0, <1>5, <2>5 DEF Open, TypeOK
  <1>6. ASSUME NEW w \in Worker, OpenThrows(w)
        PROVE  TypeInv'
    <2>1. tx' \in [Worker -> Transaction] /\ LockInv'
      <3>1. Idle.base = 0 /\ Idle.phase = "idle" /\ 0 \in 0 .. Len(hist)
        BY <1>0 DEF Idle
      <3>2. QED
        BY <1>6, <3>1, IdleType, TransactionStep DEF OpenThrows, Held
    <2>2. QED
      BY <1>0, <1>6, <2>1 DEF OpenThrows, TypeOK
  <1>7. ASSUME NEW w \in Worker, NEW op \in Op, NEW t \in Tree,
               Running(w), Operate(w, op, t), used' \subseteq Id
        PROVE  TypeInv'
    <2>1. tx' \in [Worker -> Transaction] /\ LockInv'
      BY <1>7, OperateStep
    <2>2. QED
      BY <1>0, <1>7, <2>1 DEF Operate, TypeOK
  <1>8. ASSUME NEW w \in Worker, CreateObject(w)
        PROVE  TypeInv'
    <2>1. PICK i \in Id \ used, shape \in Shape, R \in RefSets :
             /\ Operate(w, [kind |-> "create", id |-> i, rev |-> NoEnt,
                            new |-> NewContent(shape, R, 0)],
                        Saved(tx[w].tree, i, NewContent(shape, R, 0)))
             /\ used' = used \cup {i}
      BY <1>8 DEF CreateObject
    <2>2. NewContent(shape, R, 0) \in Content
      BY <1>0, NewContentType
    <2>3. Saved(tx[w].tree, i, NewContent(shape, R, 0)) \in Tree
      BY <1>0, <2>2, SavedType DEF Transaction
    <2>4. [kind |-> "create", id |-> i, rev |-> NoEnt, new |-> NewContent(shape, R, 0)] \in Op
      BY <2>2 DEF Op
    <2>5. Running(w) /\ used' \subseteq Id
      BY <1>0, <1>8, <2>1 DEF CreateObject, MayOperate
    <2>6. QED
      BY <1>7, <2>1, <2>3, <2>4, <2>5
  <1>9. ASSUME NEW w \in Worker, UpdateObject(w)
        PROVE  TypeInv'
    <2>0. PICK i \in used : \E rev \in Revisions(w, i), shape \in Shape, R \in RefSets :
             Operate(w, [kind |-> "update", id |-> i, rev |-> rev,
                         new |-> NewContent(shape, R, rev.val + 1)],
                     Saved(tx[w].tree, i, NewContent(shape, R, rev.val + 1)))
      BY <1>9 DEF UpdateObject
    <2>1. PICK rev \in Revisions(w, i), shape \in Shape, R \in RefSets :
             Operate(w, [kind |-> "update", id |-> i, rev |-> rev,
                         new |-> NewContent(shape, R, rev.val + 1)],
                     Saved(tx[w].tree, i, NewContent(shape, R, rev.val + 1)))
      BY <2>0
    <2>2. i \in Id /\ rev \in Content
      BY <1>0, RevisionType
    <2>3. NewContent(shape, R, rev.val + 1) \in Content
      <3>1. rev.val + 1 \in Nat
        BY <2>2 DEF Content
      <3>2. QED
        BY <1>0, <3>1, NewContentType
    <2>4. Saved(tx[w].tree, i, NewContent(shape, R, rev.val + 1)) \in Tree
      BY <1>0, <2>2, <2>3, SavedType DEF Transaction
    <2>5. [kind |-> "update", id |-> i, rev |-> rev, new |-> NewContent(shape, R, rev.val + 1)] \in Op
      BY <2>2, <2>3 DEF Op
    <2>6. Running(w) /\ used' \subseteq Id
      BY <1>0, <1>9 DEF UpdateObject, MayOperate
    <2>7. QED
      BY <1>7, <2>1, <2>4, <2>5, <2>6
  <1>10. ASSUME NEW w \in Worker, DeleteObject(w)
         PROVE  TypeInv'
    <2>0. PICK i \in used : \E rev \in Revisions(w, i) :
             Operate(w, [kind |-> "delete", id |-> i, rev |-> rev, new |-> NoEnt],
                     Deleted(tx[w].tree, i))
      BY <1>10 DEF DeleteObject
    <2>1. PICK rev \in Revisions(w, i) :
             Operate(w, [kind |-> "delete", id |-> i, rev |-> rev, new |-> NoEnt],
                     Deleted(tx[w].tree, i))
      BY <2>0
    <2>2. i \in Id /\ rev \in Content
      BY <1>0, RevisionType
    <2>3. Deleted(tx[w].tree, i) \in Tree
      BY <1>0, <2>2, DeletedType DEF Transaction
    <2>4. [kind |-> "delete", id |-> i, rev |-> rev, new |-> NoEnt] \in Op
      BY <2>2 DEF Op
    <2>5. Running(w) /\ used' \subseteq Id
      BY <1>0, <1>10 DEF DeleteObject, MayOperate
    <2>6. QED
      BY <1>7, <2>1, <2>3, <2>4, <2>5
  <1>11. ASSUME NEW w \in Worker, Reindex(w)
         PROVE  TypeInv'
    <2>1. Reindexed(tx[w].tree) \in Tree
      BY <1>0, ReindexedType DEF Transaction
    <2>2. [kind |-> "reindex", id |-> NoId, rev |-> NoEnt, new |-> NoEnt] \in Op
      BY DEF Op
    <2>3. QED
      BY <1>0, <1>7, <1>11, <2>1, <2>2 DEF Reindex, MayOperate
  <1>12. ASSUME NEW w \in Worker, Throw(w) \/ Return(w)
         PROVE  TypeInv'
    <2>1. \E outcome \in Outcome : End(w, outcome)
      BY <1>12 DEF Throw, Return, Outcome
    <2>2. /\ tx[w].phase \in Held
          /\ UNCHANGED <<hist, head, refLock, rdHolds, wrHolds, used, calls>>
      BY <1>12 DEF Throw, Return, Running, Held
    <2>3. tx' \in [Worker -> Transaction] /\ LockInv'
      BY <2>1, <2>2, EndStep
    <2>4. QED
      BY <1>0, <2>2, <2>3 DEF TypeOK
  <1>13. ASSUME NEW w \in Worker, CommitTree(w)
         PROVE  TypeInv'
    <2> DEFINE r == [tx[w] EXCEPT !.phase = "resolving"]
    <2>1. /\ r \in Transaction /\ r.base = tx[w].base /\ r.type = tx[w].type
          /\ r.base \in 0 .. Len(hist) /\ r.phase = "resolving"
      <3>1. "resolving" \in Phase
        BY DEF Phase
      <3>2. QED
        BY <1>0, <3>1, PhaseType DEF BasesExist
    <2>2. tx' = [tx EXCEPT ![w] = r] /\ tx[w].phase \in Held
      BY <1>0, <1>13 DEF CommitTree, Running, Held
    <2>3. tx' \in [Worker -> Transaction] /\ LockInv'
      BY <1>13, <2>1, <2>2, TransactionStep DEF CommitTree
    <2>4. QED
      BY <1>0, <1>13, <2>3 DEF CommitTree, TypeOK
  <1>14. ASSUME NEW w \in Worker, Resolve(w)
         PROVE  TypeInv'
    <2> DEFINE r == [tx[w] EXCEPT !.phase = "updating", !.expect = head[tx[w].branch]]
    <2>1. head[tx[w].branch] \in Nat
      BY <1>0 DEF Transaction
    <2>2. /\ r \in Transaction /\ r.base = tx[w].base /\ r.type = tx[w].type
          /\ r.base \in 0 .. Len(hist) /\ r.phase = "updating"
      BY <1>0, <2>1, ZenonT(40) DEF Transaction, Phase, BasesExist
    <2>3. tx' = [tx EXCEPT ![w] = r] /\ tx[w].phase \in Held
      BY <1>0, <1>14 DEF Resolve, Held
    <2>4. tx' \in [Worker -> Transaction] /\ LockInv'
      BY <1>14, <2>2, <2>3, TransactionStep DEF Resolve
    <2>5. QED
      BY <1>0, <1>14, <2>4 DEF Resolve, TypeOK
  <1>15. ASSUME NEW w \in Worker, LockRef(w)
         PROVE  TypeInv'
    <2>1. UNCHANGED <<hist, head, rdHolds, wrHolds, used, calls>> /\ tx[w].phase \in Held
      BY <1>15 DEF LockRef, Held
    <2>2. CASE Refuse(w) /\ UNCHANGED refLock
      <3>1. \E outcome \in Outcome : End(w, outcome)
        BY <2>2 DEF Refuse, Outcome
      <3>2. QED
        BY <1>0, <2>1, <2>2, <3>1, EndStep DEF TypeOK
    <2>3. CASE /\ refLock' = refLock \cup {tx[w].branch}
               /\ tx' = [tx EXCEPT ![w].phase = "locked"]
      <3> DEFINE r == [tx[w] EXCEPT !.phase = "locked"]
      <3>1. /\ r \in Transaction /\ r.base = tx[w].base /\ r.type = tx[w].type
            /\ r.base \in 0 .. Len(hist) /\ r.phase = "locked"
        <4>1. "locked" \in Phase
          BY DEF Phase
        <4>2. QED
          BY <1>0, <4>1, PhaseType DEF BasesExist
      <3>5. tx[w].branch \in Branch
        BY <1>0 DEF Transaction
      <3>2. tx' = [tx EXCEPT ![w] = r]
        BY <1>0, <2>3
      <3>3. tx' \in [Worker -> Transaction] /\ LockInv'
        BY <2>1, <3>1, <3>2, TransactionStep
      <3>4. QED
        BY <1>0, <2>1, <2>3, <3>5, <3>3 DEF TypeOK
    <2>4. QED
      BY <1>15, <2>2, <2>3 DEF LockRef
  <1>16. ASSUME NEW w \in Worker, UpdateRef(w)
         PROVE  TypeInv'
    <2>1. PICK outcome \in Outcome : End(w, outcome)
      BY <1>16 DEF UpdateRef, Refuse, Outcome
    <2>2. /\ UNCHANGED <<rdHolds, wrHolds, used, calls>> /\ tx[w].phase = "locked"
          /\ refLock' \subseteq refLock
      BY <1>16 DEF UpdateRef
    <2>3. /\ tx[w] \in Transaction /\ tx[w].base \in 0 .. Len(hist)
      BY <1>0 DEF BasesExist
    <2>4. NewCommit(w) \in Commit
      <3>1. tx[w].base # 0 => hist[tx[w].base] \in Commit
        BY <1>0, <2>3
      <3>2. Reachable(tx[w].base) \subseteq Nat
        BY <3>1 DEF Reachable, Commit
      <3>3. QED
        BY <1>0, <2>3, <3>2 DEF NewCommit, Commit, Transaction
    <2>5. /\ hist' \in Seq(Commit) /\ Len(hist') \in Nat /\ Len(hist) <= Len(hist')
          /\ head' \in [Branch -> 0 .. Len(hist')]
      <3>1. CASE UNCHANGED <<hist, head>>
        BY <1>0, <3>1
      <3>2. CASE UNCHANGED hist /\ head' = [head EXCEPT ![tx[w].branch] = tx[w].base]
        <4>1. \A b \in Branch : head'[b] = IF b = tx[w].branch THEN tx[w].base ELSE head[b]
          BY <1>0, <3>2
        <4>2. head' \in [Branch -> 0 .. Len(hist)]
          BY <1>0, <2>3, <3>2
        <4>3. QED
          BY <1>0, <3>2, <4>2
      <3>3. CASE /\ hist' = Append(hist, NewCommit(w))
                 /\ head' = [head EXCEPT ![tx[w].branch] = Len(hist) + 1]
        <4>1. hist' \in Seq(Commit) /\ Len(hist') = Len(hist) + 1
          BY <1>0, <2>4, <3>3
        <4>2. /\ Len(hist) + 1 \in 0 .. Len(hist')
              /\ \A b \in Branch : head[b] \in 0 .. Len(hist')
          BY <1>0, <4>1
        <4>3. head' \in [Branch -> 0 .. Len(hist')]
          BY <1>0, <3>3, <4>2
        <4>4. QED
          BY <1>0, <4>1, <4>3
      <3>4. QED
        BY <1>16, <3>1, <3>2, <3>3 DEF UpdateRef
    <2>6. /\ tx' = [tx EXCEPT ![w] = [tx[w] EXCEPT !.phase = "closing", !.outcome = outcome]]
          /\ tx' \in [Worker -> Transaction]
      BY <1>0, <2>1, EndType DEF End
    <2>7. /\ \A v \in Worker : tx'[v].base = tx[v].base /\ tx'[v].type = tx[v].type
          /\ \A v \in Worker : tx'[v].phase \in Held => tx[v].phase \in Held
          /\ \A v \in Worker : tx'[v].phase = "branching" => tx[v].phase = "branching"
      <3>1. /\ tx'[w].base = tx[w].base /\ tx'[w].type = tx[w].type
            /\ tx'[w].phase = "closing"
        <4> DEFINE q == [tx[w] EXCEPT !.phase = "closing", !.outcome = outcome]
        <4>1. q.base = tx[w].base /\ q.type = tx[w].type /\ q.phase = "closing"
          BY <1>0, <2>1 DEF Transaction
        <4>2. tx'[w] = q
          BY <1>0, <2>6
        <4> HIDE DEF q
        <4>3. QED
          BY <4>1, <4>2
      <3>2. \A v \in Worker \ {w} : tx'[v] = tx[v]
        BY <1>0, <2>6
      <3>3. QED
        BY <2>2, <3>1, <3>2 DEF Held
    <2>8. LocksHeld' /\ LocksExclude' /\ BasesExist' /\ BranchingIsBranch'
      <3>1. LocksHeld'
        BY <2>2, <2>7 DEF LocksHeld
      <3>2. LocksExclude'
        BY <2>2 DEF LocksExclude
      <3>3. BasesExist'
        BY <1>0, <2>5, <2>7 DEF BasesExist
      <3>4. BranchingIsBranch'
        BY <2>7 DEF BranchingIsBranch
      <3>5. QED
        BY <3>1, <3>2, <3>3, <3>4
    <2>9. QED
      BY <1>0, <2>2, <2>5, <2>6, <2>8 DEF TypeOK
  <1>17. ASSUME NEW w \in Worker, Close(w)
         PROVE  TypeInv'
    <2>1. /\ tx[w].type = "EXCLUSIVE" => wrHolds[w] > 0
          /\ tx[w].type = "WRITE" => rdHolds[w] > 0
      BY <1>17 DEF Close, LocksHeld, Held
    <2>2. /\ rdHolds' \in [Worker -> Nat] /\ wrHolds' \in [Worker -> Nat]
          /\ \A v \in Worker : rdHolds'[v] <= rdHolds[v] /\ wrHolds'[v] <= wrHolds[v]
          /\ \A v \in Worker \ {w} : rdHolds'[v] = rdHolds[v] /\ wrHolds'[v] = wrHolds[v]
      BY <1>0, <1>17, <2>1 DEF Close, Releases
    <2>3. PICK r \in Transaction :
             /\ tx' = [tx EXCEPT ![w] = r]
             /\ r.phase \notin Held \cup {"branching"}
             /\ r.base = 0
      <3>1. tx[w] \in Transaction /\ tx[w].attempt + 1 \in Nat
        BY <1>0 DEF Transaction
      <3>2. Attempt(tx[w].branch, tx[w].type, tx[w].attempt + 1) \in Transaction
        BY <3>1, AttemptType DEF Transaction
      <3>3. \A b, type, n : /\ Attempt(b, type, n).phase = "locking"
                            /\ Attempt(b, type, n).base = 0
        BY DEF Attempt, Idle
      <3>4. Idle.phase = "idle" /\ Idle.base = 0
        BY DEF Idle
      <3>5. QED
        <4>1. PICK r \in {Idle, Attempt(tx[w].branch, tx[w].type, tx[w].attempt + 1)} :
                 tx' = [tx EXCEPT ![w] = r]
          BY <1>17 DEF Close
        <4>2. QED
          BY <3>2, <3>3, <3>4, <4>1, IdleType DEF Held
    <2>4. tx'[w] = r /\ \A v \in Worker \ {w} : tx'[v] = tx[v]
      BY <1>0, <2>3
    <2>5. LocksHeld' /\ BasesExist' /\ BranchingIsBranch'
      BY <1>0, <1>17, <2>2, <2>3, <2>4 DEF Close, LocksHeld, BasesExist, BranchingIsBranch
    <2>6. LocksExclude'
      BY <1>0, <2>2 DEF LocksExclude
    <2>7. QED
      BY <1>0, <1>17, <2>2, <2>3, <2>5, <2>6 DEF Close, TypeOK
  <1>18. ASSUME NEW w \in Worker, CheckBranch(w)
         PROVE  TypeInv'
    <2>1. PICK r \in Transaction :
             tx' = [tx EXCEPT ![w] = r] /\ r.base = tx[w].base /\ r.type = tx[w].type
             /\ r.phase # "branching"
      <3>1. CASE End(w, "failed")
        <4> DEFINE r == [tx[w] EXCEPT !.phase = "closing", !.outcome = "failed"]
        <4>1. /\ r \in Transaction /\ r.base = tx[w].base /\ r.type = tx[w].type
              /\ r.phase = "closing"
          BY <1>0, EndType DEF Outcome
        <4>2. tx' = [tx EXCEPT ![w] = r]
          BY <3>1 DEF End
        <4>3. QED
          BY <4>1, <4>2
      <3>2. CASE tx' = [tx EXCEPT ![w].phase = "resolving"]
        <4> DEFINE r == [tx[w] EXCEPT !.phase = "resolving"]
        <4>1. /\ r \in Transaction /\ r.base = tx[w].base /\ r.type = tx[w].type
              /\ r.phase = "resolving"
          <5>1. "resolving" \in Phase
            BY DEF Phase
          <5>2. QED
            BY <1>0, <5>1, PhaseType
        <4>2. tx' = [tx EXCEPT ![w] = r]
          BY <3>2
        <4>3. QED
          BY <4>1, <4>2
      <3>3. QED
        BY <1>18, <3>1, <3>2 DEF CheckBranch
    <2>2. tx'[w] = r /\ \A v \in Worker \ {w} : tx'[v] = tx[v]
      BY <1>0, <2>1
    <2>3. LocksHeld'
      BY <1>0, <1>18, <2>1, <2>2 DEF CheckBranch, LocksHeld, BranchingIsBranch
    <2>4. LocksExclude' /\ BasesExist' /\ BranchingIsBranch'
      BY <1>0, <1>18, <2>1, <2>2 DEF CheckBranch, LocksExclude, BasesExist, BranchingIsBranch
    <2>5. QED
      BY <1>0, <1>18, <2>1, <2>3, <2>4 DEF CheckBranch, TypeOK
  <1>19. QED
    BY <1>1, <1>2, <1>3, <1>4, <1>5, <1>6, <1>8, <1>9, <1>10, <1>11, <1>12, <1>13,
       <1>14, <1>15, <1>16, <1>17, <1>18 DEF Next, Step, Quiescent

(***************************************************************************)
(* Every reachable state has the types, and the lock is held as it should  *)
(* be: with the lock, a release never takes a count below zero.            *)
(***************************************************************************)
THEOREM TypeCorrect == Spec => []TypeOK
  <1>1. Spec => []TypeInv
    BY TypeInit, TypeNext, PTL DEF Spec
  <1>2. TypeInv => TypeOK
    BY DEF TypeInv
  <1>3. QED
    BY <1>1, <1>2, PTL

-----------------------------------------------------------------------------
(***************************************************************************)
(* The indexes.  A fresh id is one no object refers to, because objects    *)
(* refer to ids that were used before: that is the strengthening.          *)
(***************************************************************************)
GoodTree(t, ids) == Consistent(t) /\ \A s \in Live(t) : t.ent[s].refs \subseteq ids

TreesInv ==
    /\ \A n \in 1 .. Len(hist) : GoodTree(hist[n].tree, used)
    /\ \A w \in Worker : GoodTree(tx[w].tree, used)

(* A transaction starts from a good tree.                                  *)
LEMMA EmptyTreeGood == ASSUME NEW ids PROVE GoodTree(EmptyTree, ids)
  BY EmptyTreeConsistent DEF GoodTree, Live, EmptyTree

(* More ids may be used later.                                             *)
LEMMA GoodTreeGrows ==
  ASSUME NEW t, NEW ids, NEW more, ids \subseteq more, GoodTree(t, ids)
  PROVE  GoodTree(t, more)
  BY DEF GoodTree

(* The initial repository is good.                                         *)
LEMMA TreesInit == Init => TreesInv
  <1> SUFFICES ASSUME Init PROVE TreesInv
    OBVIOUS
  <1>1. PICK t \in InitialTrees :
           /\ hist = <<[parent |-> 0, past |-> {1}, tree |-> t, log |-> <<>>]>>
           /\ used = Live(t) \cup UNION {t.ent[i].refs : i \in Live(t)}
    BY DEF Init
  <1>2. Len(hist) = 1 /\ hist[1].tree = t
    BY <1>1
  <1>3. GoodTree(t, used)
    BY <1>1, TransactionConstants DEF GoodTree
  <1>4. \A w \in Worker : tx[w].tree = EmptyTree
    BY DEF Init, Idle
  <1>5. \A n \in 1 .. Len(hist) : n = 1
    BY <1>2
  <1>6. QED
    BY <1>2, <1>3, <1>4, <1>5, EmptyTreeGood DEF TreesInv

(***************************************************************************)
(* A step that makes no commit and gives one transaction a good tree.      *)
(***************************************************************************)
LEMMA TreeStep ==
  ASSUME TypeInv, TreesInv, NEW w \in Worker, UNCHANGED hist, used \subseteq used',
         NEW r, tx' = [tx EXCEPT ![w] = r], GoodTree(r.tree, used')
  PROVE  TreesInv'
  <1>1. tx \in [Worker -> Transaction]
    BY DEF TypeInv, TypeOK
  <1>2. tx'[w] = r /\ \A v \in Worker \ {w} : tx'[v] = tx[v]
    BY <1>1
  <1>3. \A v \in Worker : GoodTree(tx'[v].tree, used')
    BY <1>2, GoodTreeGrows DEF TreesInv
  <1>4. \A n \in 1 .. Len(hist) : GoodTree(hist[n].tree, used')
    BY GoodTreeGrows DEF TreesInv
  <1>5. QED
    BY <1>3, <1>4 DEF TreesInv

(* What a client writes refers to used ids only.                           *)
LEMMA SavedGood ==
  ASSUME NEW t \in Tree, NEW i \in Id, NEW c \in Content, NEW ids, NEW more,
         GoodTree(t, ids), ids \subseteq more, c.refs \subseteq more,
         Consistent(Saved(t, i, c))
  PROVE  GoodTree(Saved(t, i, c), more)
  <1>1. \A s \in Live(Saved(t, i, c)) :
           s \in Id /\ Saved(t, i, c).ent[s] = IF s = i THEN c ELSE t.ent[s]
    BY DEF Live, Saved, Tree
  <1>2. \A s \in Live(Saved(t, i, c)) : s # i => s \in Live(t)
    BY <1>1 DEF Live
  <1>3. QED
    BY <1>1, <1>2 DEF GoodTree

(* A delete leaves the other objects as they are.                          *)
LEMMA DeletedGood ==
  ASSUME NEW t \in Tree, NEW i \in Id, NEW ids, GoodTree(t, ids),
         Consistent(Deleted(t, i))
  PROVE  GoodTree(Deleted(t, i), ids)
  <1>1. \A s \in Live(Deleted(t, i)) : s \in Live(t) /\ Deleted(t, i).ent[s] = t.ent[s]
    BY DEF Live, Deleted, Tree
  <1>2. QED
    BY <1>1 DEF GoodTree

(* An operation gives the transaction the tree it makes.                   *)
LEMMA OperateTree ==
  ASSUME TypeInv, TreesInv, NEW w \in Worker, NEW op, NEW t, Operate(w, op, t),
         used \subseteq used', GoodTree(t, used')
  PROVE  TreesInv'
  <1> DEFINE r == [tx[w] EXCEPT !.tree = t, !.log = Append(@, op)]
  <1>1. tx[w] \in Transaction
    BY DEF TypeInv, TypeOK
  <1>2. r.tree = t
    BY <1>1 DEF Transaction
  <1>3. tx' = [tx EXCEPT ![w] = r]
    BY DEF Operate
  <1>4. UNCHANGED hist
    BY DEF Operate
  <1>5. QED
    BY <1>2, <1>3, <1>4, TreeStep

(***************************************************************************)
(* Every operation of f keeps the indexes exact, a snapshot and a commit   *)
(* only copy a tree, and nothing else touches one.                         *)
(***************************************************************************)
LEMMA TreesNext == TypeInv /\ TreesInv /\ [Next]_vars => TreesInv'
  <1> SUFFICES ASSUME TypeInv, TreesInv, [Next]_vars PROVE TreesInv'
    OBVIOUS
  <1>0. /\ tx \in [Worker -> Transaction] /\ used \subseteq Id /\ TypeOK
        /\ head \in [Branch -> 0 .. Len(hist)] /\ hist \in Seq(Commit)
        /\ \A w \in Worker : tx[w].tree \in Tree /\ tx[w].branch \in Branch
        /\ \A w \in Worker : GoodTree(tx[w].tree, used)
    BY DEF TypeInv, TypeOK, Transaction, TreesInv
  <1>1. CASE UNCHANGED vars
    BY <1>1 DEF vars, TreesInv
  <1>2. ASSUME NEW w \in Worker, NEW r, tx' = [tx EXCEPT ![w] = r], r.tree = EmptyTree,
               UNCHANGED <<hist, used>>
        PROVE  TreesInv'
    BY <1>2, EmptyTreeGood, TreeStep
  <1>3. Idle.tree = EmptyTree
    BY DEF Idle
  <1>4. \A b, type, n : Attempt(b, type, n).tree = EmptyTree
    BY DEF Attempt, Idle
  <1>5. ASSUME NEW w \in Worker, NEW b \in Branch, NEW type \in Type, Call(w, b, type)
        PROVE  TreesInv'
    BY <1>2, <1>4, <1>5, ZenonT(40) DEF Call
  <1>6. ASSUME NEW w \in Worker, NEW b \in Branch, NEW from \in Branch,
               CallCreateBranch(w, b, from)
        PROVE  TreesInv'
    <2>1. [Idle EXCEPT !.phase = "branching", !.branch = b, !.base = head[from]].tree = EmptyTree
      BY <1>3 DEF Idle
    <2>2. QED
      BY <1>2, <1>6, <2>1 DEF CallCreateBranch
  <1>7. ASSUME NEW w \in Worker, OpenThrows(w)
        PROVE  TreesInv'
    BY <1>2, <1>3, <1>7 DEF OpenThrows
  <1>8. ASSUME NEW w \in Worker, Close(w)
        PROVE  TreesInv'
    <2>1. PICK r \in {Idle, Attempt(tx[w].branch, tx[w].type, tx[w].attempt + 1)} :
             tx' = [tx EXCEPT ![w] = r] /\ UNCHANGED <<hist, used>>
      BY <1>8 DEF Close
    <2>2. r.tree = EmptyTree
      BY <1>3, <1>4, <2>1
    <2>3. QED
      BY <1>2, <2>1, <2>2
  <1>9. ASSUME NEW w \in Worker, Open(w)
        PROVE  TreesInv'
    <2> DEFINE n == head[tx[w].branch]
    <2> DEFINE r == [tx[w] EXCEPT !.phase = "running", !.base = n, !.tree = TreeOf(n), !.log = <<>>]
    <2>1. GoodTree(TreeOf(n), used)
      BY <1>0, EmptyTreeGood DEF TreeOf, TreesInv
    <2>2. r.tree = TreeOf(n)
      BY <1>0 DEF Transaction
    <2>3. tx' = [tx EXCEPT ![w] = r] /\ UNCHANGED <<hist, used>>
      BY <1>9 DEF Open
    <2>4. QED
      BY <2>1, <2>2, <2>3, TreeStep
  <1>10. ASSUME NEW w \in Worker, CreateObject(w)
         PROVE  TreesInv'
    <2>1. PICK i \in Id \ used, shape \in Shape, R \in RefSets :
             /\ CanCreate(tx[w].tree, i, NewContent(shape, R, 0))
             /\ Operate(w, [kind |-> "create", id |-> i, rev |-> NoEnt,
                            new |-> NewContent(shape, R, 0)],
                        Saved(tx[w].tree, i, NewContent(shape, R, 0)))
             /\ used' = used \cup {i}
      BY <1>10 DEF CreateObject
    <2> DEFINE c == NewContent(shape, R, 0)
    <2>2. c \in Content /\ c.refs \subseteq used
      BY <1>0, NewContentType DEF NewContent, RefSets
    <2>3. Unmentioned(tx[w].tree, i)
      BY <1>0 DEF GoodTree, Unmentioned
    <2> HIDE DEF c
    <2>4. Consistent(Saved(tx[w].tree, i, c))
      BY <1>0, <2>1, <2>2, <2>3, CreateConsistent DEF GoodTree, c
    <2>5. GoodTree(Saved(tx[w].tree, i, c), used')
      BY <1>0, <2>1, <2>2, <2>4, SavedGood
    <2>6. QED
      BY <2>1, <2>5, OperateTree DEF c
  <1>11. ASSUME NEW w \in Worker, UpdateObject(w)
         PROVE  TreesInv'
    <2>0. PICK i \in used : \E rev \in Revisions(w, i), shape \in Shape, R \in RefSets :
             /\ CanUpdate(tx[w].tree, i, rev, NewContent(shape, R, rev.val + 1))
             /\ Operate(w, [kind |-> "update", id |-> i, rev |-> rev,
                            new |-> NewContent(shape, R, rev.val + 1)],
                        Saved(tx[w].tree, i, NewContent(shape, R, rev.val + 1)))
      BY <1>11 DEF UpdateObject
    <2>1. PICK rev \in Revisions(w, i), shape \in Shape, R \in RefSets :
             /\ CanUpdate(tx[w].tree, i, rev, NewContent(shape, R, rev.val + 1))
             /\ Operate(w, [kind |-> "update", id |-> i, rev |-> rev,
                            new |-> NewContent(shape, R, rev.val + 1)],
                        Saved(tx[w].tree, i, NewContent(shape, R, rev.val + 1)))
      BY <2>0
    <2> DEFINE c == NewContent(shape, R, rev.val + 1)
    <2>2. rev.val + 1 \in Nat /\ i \in Id
      BY <1>0, RevisionType DEF Content
    <2>3. c \in Content /\ c.refs \subseteq used
      BY <1>0, <2>2, NewContentType DEF NewContent, RefSets
    <2> HIDE DEF c
    <2>4. Consistent(Saved(tx[w].tree, i, c))
      BY <1>0, <2>1, <2>2, <2>3, UpdateConsistent DEF GoodTree, c
    <2>5. used' = used
      BY <1>11 DEF UpdateObject
    <2>6. GoodTree(Saved(tx[w].tree, i, c), used')
      BY <1>0, <2>2, <2>3, <2>4, <2>5, SavedGood
    <2>7. QED
      BY <2>1, <2>5, <2>6, OperateTree DEF c
  <1>12. ASSUME NEW w \in Worker, DeleteObject(w)
         PROVE  TreesInv'
    <2>0. PICK i \in used : \E rev \in Revisions(w, i) :
             /\ CanDelete(tx[w].tree, i, rev)
             /\ Operate(w, [kind |-> "delete", id |-> i, rev |-> rev, new |-> NoEnt],
                        Deleted(tx[w].tree, i))
      BY <1>12 DEF DeleteObject
    <2>1. PICK rev \in Revisions(w, i) :
             /\ CanDelete(tx[w].tree, i, rev)
             /\ Operate(w, [kind |-> "delete", id |-> i, rev |-> rev, new |-> NoEnt],
                        Deleted(tx[w].tree, i))
      BY <2>0
    <2>2. i \in Id
      BY <1>0
    <2>3. Consistent(Deleted(tx[w].tree, i))
      BY <1>0, <2>1, <2>2, DeleteConsistent DEF GoodTree
    <2>4. used' = used
      BY <1>12 DEF DeleteObject
    <2>5. GoodTree(Deleted(tx[w].tree, i), used')
      BY <1>0, <2>2, <2>3, <2>4, DeletedGood
    <2>6. QED
      BY <2>1, <2>4, <2>5, OperateTree
  <1>13. ASSUME NEW w \in Worker, Reindex(w)
         PROVE  TreesInv'
    <2>1. Reindexed(tx[w].tree) = tx[w].tree
      BY <1>0, ReindexIdentity DEF GoodTree
    <2>2. QED
      BY <1>0, <1>13, <2>1, OperateTree DEF Reindex
  <1>14. ASSUME NEW w \in Worker, UNCHANGED <<hist, used>>,
                \A v \in Worker : tx'[v].tree = tx[v].tree
         PROVE  TreesInv'
    BY <1>14 DEF TreesInv
  <1>15. ASSUME NEW w \in Worker,
                \/ Lock(w) \/ Throw(w) \/ Return(w) \/ CommitTree(w)
                \/ Resolve(w) \/ LockRef(w) \/ CheckBranch(w)
         PROVE  TreesInv'
    <2>1. UNCHANGED <<hist, used>>
      BY <1>15 DEF Lock, Throw, Return, CommitTree, Resolve, LockRef, CheckBranch
    <2>2. \A v \in Worker : tx'[v].tree = tx[v].tree
      <3>1. \/ \E outcome \in Outcome : End(w, outcome)
            \/ \E phase \in Phase : tx' = [tx EXCEPT ![w].phase = phase]
            \/ tx' = [tx EXCEPT ![w].phase = "updating", ![w].expect = head[tx[w].branch]]
        BY <1>15 DEF Lock, Throw, Return, CommitTree, Resolve, LockRef, CheckBranch, Refuse,
                     Outcome, Phase
      <3>2. \A v \in Worker : tx[v] \in Transaction
        BY <1>0
      <3>3. CASE \E outcome \in Outcome : End(w, outcome)
        <4>1. PICK outcome : End(w, outcome)
          BY <3>3
        <4>2. QED
          BY <1>0, <4>1 DEF End, Transaction
      <3>4. CASE \E phase \in Phase : tx' = [tx EXCEPT ![w].phase = phase]
        BY <1>0, <3>2, <3>4, PhaseType
      <3>5. CASE tx' = [tx EXCEPT ![w].phase = "updating", ![w].expect = head[tx[w].branch]]
        BY <1>0, <3>2, <3>5 DEF Transaction
      <3>6. QED
        BY <3>1, <3>3, <3>4, <3>5
    <2>3. QED
      BY <1>14, <2>1, <2>2
  <1>16. ASSUME NEW w \in Worker, UpdateRef(w)
         PROVE  TreesInv'
    <2>1. PICK outcome : End(w, outcome)
      BY <1>16 DEF UpdateRef, Refuse
    <2>2. \A v \in Worker : tx'[v].tree = tx[v].tree
      BY <1>0, <2>1 DEF End, Transaction
    <2>3. hist' = hist \/ hist' = Append(hist, NewCommit(w))
      BY <1>16 DEF UpdateRef
    <2>4. used' = used
      BY <1>16 DEF UpdateRef
    <2>5. NewCommit(w).tree = tx[w].tree
      BY DEF NewCommit
    <2>6. \A n \in 1 .. Len(hist') :
             \/ n \in 1 .. Len(hist) /\ hist'[n] = hist[n]
             \/ hist'[n] = NewCommit(w)
      BY <1>0, <2>3
    <2>7. QED
      BY <1>0, <2>2, <2>4, <2>5, <2>6 DEF TreesInv
  <1>17. QED
    BY <1>1, <1>5, <1>6, <1>7, <1>8, <1>9, <1>10, <1>11, <1>12, <1>13, <1>15, <1>16
       DEF Next, Step, Quiescent

(***************************************************************************)
(* The indexes of every commit and of every tree in use agree with the     *)
(* objects: lookups by name find what is there and only that, and the      *)
(* dependency check before a delete misses no reference.                   *)
(***************************************************************************)
THEOREM IndexesCorrect == Spec => []TreesConsistent
  <1>1. Spec => [](TypeInv /\ TreesInv)
    <2>1. Init => TypeInv /\ TreesInv
      BY TypeInit, TreesInit
    <2>2. (TypeInv /\ TreesInv) /\ [Next]_vars => (TypeInv /\ TreesInv)'
      BY TypeNext, TreesNext
    <2>3. QED
      BY <2>1, <2>2, PTL DEF Spec
  <1>2. TypeInv /\ TreesInv => TreesConsistent
    <2> SUFFICES ASSUME TypeInv, TreesInv PROVE TreesConsistent
      OBVIOUS
    <2>1. DOMAIN hist = 1 .. Len(hist)
      BY HistType DEF TypeInv
    <2>2. QED
      BY <2>1 DEF TreesInv, GoodTree, TreesConsistent
  <1>3. QED
    BY <1>1, <1>2, PTL

-----------------------------------------------------------------------------
(***************************************************************************)
(* Exclusive transactions.  Three things could move a branch under one: a  *)
(* write transaction and another exclusive one, which the lock keeps out;  *)
(* and the creation of the branch, which takes no lock but only goes on    *)
(* while the branch does not exist.  Two creations of one branch can       *)
(* overtake each other's check, so this needs that one thread creates      *)
(* branches.                                                               *)
(***************************************************************************)
Moving == {"resolving", "updating", "locked"}

OneCreator == \A v, w \in Creator : v = w

(* What holds of one transaction while the heads of the branches are h.    *)
Orderly(w, r, h) ==
    /\ r.type = "BRANCH" => r.phase \notin {"locking", "opening", "running"}
    /\ r.type = "BRANCH" /\ r.phase \in Moving \cup {"branching"} => w \in Creator
    /\ r.phase \in Moving \cup {"branching"} => r.base # 0 /\ r.type # "READ"
    /\ r.type = "BRANCH" /\ r.phase \in Moving => h[r.branch] = 0
    /\ r.type # "BRANCH" /\ r.phase \in Moving \cup {"running"} /\ r.base # 0
          => h[r.branch] # 0
    /\ r.type = "EXCLUSIVE" /\ r.phase \in Moving \cup {"running"} /\ r.base # 0
          => h[r.branch] = r.base
    /\ r.type = "EXCLUSIVE" /\ r.phase \in {"updating", "locked"} => r.expect = r.base
    /\ r.type \in {"EXCLUSIVE", "BRANCH"} => r.outcome # "retry"

(* A lock file exists while a thread updates the ref.                      *)
RefLocksHeld ==
    \A b \in refLock : \E v \in Worker : tx[v].phase = "locked" /\ tx[v].branch = b

(* A commit is in its own past.                                            *)
PastReflexive == \A n \in 1 .. Len(hist) : n \in hist[n].past

RaceInv ==
    /\ \A w \in Worker : Orderly(w, tx[w], head)
    /\ RefLocksHeld
    /\ PastReflexive

(* The initial state is orderly.                                           *)
LEMMA RaceInit == Init => RaceInv
  <1> SUFFICES ASSUME Init PROVE RaceInv
    OBVIOUS
  <1>1. \A w \in Worker : Orderly(w, tx[w], head)
    BY DEF Init, Orderly, Idle, Moving
  <1>2. RefLocksHeld
    BY DEF Init, RefLocksHeld
  <1>3. PastReflexive
    BY DEF Init, PastReflexive
  <1>4. QED
    BY <1>1, <1>2, <1>3 DEF RaceInv

(* The database's lock keeps everybody else out of an exclusive            *)
(* transaction.                                                            *)
LEMMA ExclusiveKeepsOut ==
  ASSUME TypeInv, NEW v \in Worker, NEW w \in Worker, v # w,
         tx[v].type = "EXCLUSIVE", tx[v].phase \in Held,
         tx[w].type \in {"WRITE", "EXCLUSIVE"}, tx[w].phase \in Held
  PROVE  FALSE
  <1>1. rdHolds[w] \in Nat /\ wrHolds[w] \in Nat
    BY DEF TypeInv, TypeOK
  <1>2. wrHolds[v] > 0 /\ (rdHolds[w] > 0 \/ wrHolds[w] > 0)
    BY DEF TypeInv, LockInv, LocksHeld
  <1>3. wrHolds[w] = 0 /\ rdHolds[w] = 0
    BY <1>2 DEF TypeInv, LockInv, LocksExclude
  <1>4. QED
    BY <1>1, <1>2, <1>3

(* A step that changes one transaction, in an orderly way, and no ref.     *)
LEMMA OrderlyStep ==
  ASSUME TypeInv, RaceInv, NEW w \in Worker, NEW r, tx' = [tx EXCEPT ![w] = r],
         tx[w].phase # "locked", UNCHANGED <<hist, head, refLock>>,
         Orderly(w, r, head)
  PROVE  RaceInv'
  <1>1. tx \in [Worker -> Transaction]
    BY DEF TypeInv, TypeOK
  <1>2. tx'[w] = r /\ \A v \in Worker \ {w} : tx'[v] = tx[v]
    BY <1>1
  <1>3. \A v \in Worker : Orderly(v, tx'[v], head')
    BY <1>2 DEF RaceInv
  <1>4. RefLocksHeld'
    BY <1>2 DEF RaceInv, RefLocksHeld
  <1>5. PastReflexive'
    BY DEF RaceInv, PastReflexive
  <1>6. QED
    BY <1>3, <1>4, <1>5 DEF RaceInv

(***************************************************************************)
(* An exclusive transaction finds the ref free, at the head it expects,    *)
(* which is its snapshot.                                                  *)
(***************************************************************************)
LEMMA ExclusiveFindsRefFree ==
  ASSUME TypeInv, RaceInv, NEW w \in Worker, tx[w].type = "EXCLUSIVE", tx[w].phase = "updating"
  PROVE  tx[w].branch \notin refLock
  <1> SUFFICES ASSUME tx[w].branch \in refLock PROVE FALSE
    OBVIOUS
  <1>1. PICK v \in Worker : tx[v].phase = "locked" /\ tx[v].branch = tx[w].branch
    BY DEF RaceInv, RefLocksHeld
  <1>2. v # w /\ tx[v].phase \in Held /\ tx[w].phase \in Held
    BY <1>1 DEF Held
  <1>3. tx[v].type \in {"READ", "WRITE", "EXCLUSIVE", "BRANCH"}
    BY TransactionConstants DEF TypeInv, TypeOK, Transaction
  <1>4. Orderly(v, tx[v], head) /\ Orderly(w, tx[w], head)
    BY DEF RaceInv
  <1>5. tx[v].type \notin {"READ", "BRANCH"}
    BY <1>1, <1>4 DEF Orderly, Moving
  <1>6. QED
    BY <1>2, <1>3, <1>5, ExclusiveKeepsOut

(* ... so that the update of the ref succeeds.                             *)
LEMMA ExclusiveIsExpected ==
  ASSUME TypeInv, RaceInv, NEW w \in Worker, tx[w].type = "EXCLUSIVE", tx[w].phase = "locked"
  PROVE  HeadIsExpected(w) /\ IsFastForward(w)
  <1>1. /\ tx[w].base # 0 /\ head[tx[w].branch] = tx[w].base /\ tx[w].expect = tx[w].base
    BY DEF RaceInv, Orderly, Moving
  <1>2. tx[w].base \in 0 .. Len(hist) /\ Len(hist) \in Nat
    BY HistType DEF TypeInv, LockInv, BasesExist
  <1>3. tx[w].base \in hist[tx[w].base].past
    BY <1>1, <1>2 DEF RaceInv, PastReflexive
  <1>4. QED
    BY <1>1, <1>3 DEF HeadIsExpected, IsFastForward, Reachable

(***************************************************************************)
(* Commits are only appended, each with itself in its past.                *)
(***************************************************************************)
LEMMA PastNext == TypeInv /\ PastReflexive /\ [Next]_vars => PastReflexive'
  <1> SUFFICES ASSUME TypeInv, PastReflexive, [Next]_vars PROVE PastReflexive'
    OBVIOUS
  <1>1. hist \in Seq(Commit) /\ Len(hist) \in Nat
    BY DEF TypeInv, TypeOK
  <1>2. CASE UNCHANGED hist
    BY <1>2 DEF PastReflexive
  <1>3. CASE \E w \in Worker : hist' = Append(hist, NewCommit(w))
    <2>1. PICK w \in Worker : hist' = Append(hist, NewCommit(w))
      BY <1>3
    <2>2. Len(hist) + 1 \in NewCommit(w).past
      BY DEF NewCommit
    <2>3. \A n \in 1 .. Len(hist') :
             \/ n \in 1 .. Len(hist) /\ hist'[n] = hist[n]
             \/ n = Len(hist) + 1 /\ hist'[n] = NewCommit(w)
      BY <1>1, <2>1
    <2>4. QED
      BY <2>2, <2>3 DEF PastReflexive
  <1>4. ASSUME NEW w \in Worker, Step(w)
        PROVE  UNCHANGED hist \/ hist' = Append(hist, NewCommit(w))
    BY <1>4 DEF Step, Lock, Open, OpenThrows, CreateObject, UpdateObject, DeleteObject, Reindex,
                Operate, Throw, Return, CommitTree, Resolve, LockRef, UpdateRef, Close, CheckBranch
  <1>5. QED
    BY <1>2, <1>3, <1>4 DEF Next, Call, CallCreateBranch, Quiescent, vars

(* The past of a commit has the pasts of the commits in it.                *)
PastClosed ==
    \A n \in 1 .. Len(hist) : \A m \in hist[n].past :
        m \in 1 .. Len(hist) /\ hist[m].past \subseteq hist[n].past

PastInv == PastReflexive /\ PastClosed

LEMMA PastInit == Init => PastClosed /\ NoCommitLost
  <1> SUFFICES ASSUME Init PROVE PastClosed /\ NoCommitLost
    OBVIOUS
  <1>1. Len(hist) = 1 /\ DOMAIN hist = {1} /\ hist[1].past = {1}
    BY DEF Init
  <1>2. 1 \in Reachable(head[Master])
    BY <1>1, TransactionConstants DEF Init, Reachable
  <1>3. QED
    BY <1>1, <1>2, TransactionConstants DEF PastClosed, NoCommitLost

LEMMA ClosedNext == TypeInv /\ PastClosed /\ [Next]_vars => PastClosed'
  <1> SUFFICES ASSUME TypeInv, PastClosed, [Next]_vars PROVE PastClosed'
    OBVIOUS
  <1>1. hist \in Seq(Commit) /\ Len(hist) \in Nat
    BY DEF TypeInv, TypeOK
  <1>2. CASE UNCHANGED hist
    BY <1>2 DEF PastClosed
  <1>3. ASSUME NEW w \in Worker, hist' = Append(hist, NewCommit(w))
        PROVE  PastClosed'
    <2> DEFINE new == Len(hist) + 1
    <2>1. Len(hist') = new /\ hist'[new] = NewCommit(w)
          /\ \A n \in 1 .. Len(hist) : hist'[n] = hist[n]
      BY <1>1, <1>3
    <2>2. tx[w].base \in 0 .. Len(hist)
      BY DEF TypeInv, LockInv, BasesExist
    <2>3. \A m \in Reachable(tx[w].base) :
             m \in 1 .. Len(hist) /\ hist[m].past \subseteq Reachable(tx[w].base)
      BY <1>1, <2>2 DEF PastClosed, Reachable
    <2>4. NewCommit(w).past = Reachable(tx[w].base) \cup {new}
      BY DEF NewCommit
    <2>5. ASSUME NEW n \in 1 .. new, NEW m \in hist'[n].past
          PROVE  m \in 1 .. new /\ hist'[m].past \subseteq hist'[n].past
      <3>1. CASE n = new /\ m = new
        BY <1>1, <3>1
      <3>2. CASE n = new /\ m # new
        BY <1>1, <2>1, <2>3, <2>4, <3>2
      <3>3. CASE n # new
        <4>1. n \in 1 .. Len(hist) /\ m \in hist[n].past
          BY <1>1, <2>1, <2>5, <3>3
        <4>2. m \in 1 .. Len(hist) /\ hist[m].past \subseteq hist[n].past
          BY <4>1 DEF PastClosed
        <4>3. QED
          BY <1>1, <2>1, <4>1, <4>2
      <3>4. QED
        BY <3>1, <3>2, <3>3
    <2>6. QED
      BY <2>1, <2>5 DEF PastClosed
  <1>4. ASSUME NEW w \in Worker, Step(w)
        PROVE  UNCHANGED hist \/ hist' = Append(hist, NewCommit(w))
    BY <1>4 DEF Step, Lock, Open, OpenThrows, CreateObject, UpdateObject, DeleteObject, Reindex,
                Operate, Throw, Return, CommitTree, Resolve, LockRef, UpdateRef, Close, CheckBranch
  <1>5. QED
    BY <1>2, <1>3, <1>4 DEF Next, Call, CallCreateBranch, Quiescent, vars

(***************************************************************************)
(* The update of a ref: nobody else can rely on the head it replaces.      *)
(***************************************************************************)
LEMMA UpdateIsOrderly ==
  ASSUME OneCreator, TypeInv, RaceInv, NEW w \in Worker, UpdateRef(w)
  PROVE  /\ \A v \in Worker : Orderly(v, tx'[v], head')
         /\ RefLocksHeld'
  <1> DEFINE b == tx[w].branch
  <1>1. /\ tx \in [Worker -> Transaction] /\ head \in [Branch -> 0 .. Len(hist)]
        /\ Len(hist) \in Nat /\ tx[w] \in Transaction /\ b \in Branch
        /\ tx[w].phase = "locked" /\ refLock' = refLock \ {b}
    BY DEF TypeInv, TypeOK, Transaction, UpdateRef
  <1>2. PICK outcome \in Outcome :
           /\ End(w, outcome)
           /\ outcome = "retry" => tx[w].type \notin {"EXCLUSIVE", "BRANCH"}
    BY ExclusiveIsExpected DEF UpdateRef, Refuse, Outcome
  <1>3. /\ tx'[w].phase = "closing" /\ tx'[w].type = tx[w].type /\ tx'[w].branch = b
        /\ tx'[w].outcome = outcome
        /\ \A v \in Worker \ {w} : tx'[v] = tx[v]
    <2> DEFINE r == [tx[w] EXCEPT !.phase = "closing", !.outcome = outcome]
    <2>1. tx' = [tx EXCEPT ![w] = r]
      BY <1>1, <1>2 DEF End
    <2>2. tx'[w] = r /\ \A v \in Worker \ {w} : tx'[v] = tx[v]
      BY <1>1, <2>1
    <2>3. r.phase = "closing" /\ r.type = tx[w].type /\ r.branch = b /\ r.outcome = outcome
      BY <1>1, EndType, ZenonT(40)
    <2>4. QED
      BY <2>2, <2>3
  <1>4. Orderly(w, tx[w], head)
    BY DEF RaceInv
  <1>5. /\ head'[b] = head[b] \/ head'[b] # 0
        /\ \A c \in Branch \ {b} : head'[c] = head[c]
    BY <1>1, <1>4 DEF UpdateRef, Orderly, Moving
  <1>6. Orderly(w, tx'[w], head')
    BY <1>2, <1>3 DEF Orderly, Moving
  <1>7. ASSUME NEW v \in Worker \ {w} PROVE Orderly(v, tx[v], head')
    <2>1. Orderly(v, tx[v], head) /\ tx[v] \in Transaction
      BY <1>1 DEF RaceInv
    <2>2. CASE tx[v].branch # b
      <3>1. tx[v].branch \in Branch
        BY <2>1 DEF Transaction
      <3>2. head'[tx[v].branch] = head[tx[v].branch]
        BY <1>5, <2>2, <3>1
      <3>3. QED
        BY <2>1, <3>2 DEF Orderly
    <2>3. CASE tx[v].branch = b
      <3>1. ~ (tx[v].type = "BRANCH" /\ tx[v].phase \in Moving)
        <4> SUFFICES ASSUME tx[v].type = "BRANCH", tx[v].phase \in Moving PROVE FALSE
          OBVIOUS
        <4>1. v \in Creator /\ head[b] = 0
          BY <2>1, <2>3 DEF Orderly
        <4>2. tx[w].type = "BRANCH" => w \in Creator
          BY <1>1, <1>4 DEF Orderly, Moving
        <4>3. tx[w].type # "BRANCH" => head[b] # 0
          BY <1>1, <1>4 DEF Orderly, Moving
        <4>4. QED
          BY <1>7, <4>1, <4>2, <4>3 DEF OneCreator
      <3>2. ~ (tx[v].type = "EXCLUSIVE" /\ tx[v].phase \in Moving \cup {"running"} /\ tx[v].base # 0)
        <4> SUFFICES ASSUME tx[v].type = "EXCLUSIVE", tx[v].phase \in Moving \cup {"running"},
                            tx[v].base # 0
                     PROVE  FALSE
          OBVIOUS
        <4>1. head[b] # 0
          BY <2>1, <2>3 DEF Orderly
        <4>2. tx[w].type \in {"READ", "WRITE", "EXCLUSIVE", "BRANCH"}
          BY <1>1, TransactionConstants DEF Transaction
        <4>3. tx[w].type \notin {"READ", "BRANCH"}
          BY <1>1, <1>4, <4>1 DEF Orderly, Moving
        <4>4. tx[v].phase \in Held /\ tx[w].phase \in Held
          BY <1>1 DEF Moving, Held
        <4>5. QED
          BY <1>7, <4>2, <4>3, <4>4, ExclusiveKeepsOut
      <3>3. head[b] # 0 => head'[b] # 0
        BY <1>5
      <3>4. QED
        BY <2>1, <2>3, <3>1, <3>2, <3>3 DEF Orderly
    <2>4. QED
      BY <2>2, <2>3
  <1>8. \A v \in Worker : Orderly(v, tx'[v], head')
    BY <1>3, <1>6, <1>7
  <1>9. RefLocksHeld'
    <2>1. ASSUME NEW c \in refLock \ {b}
          PROVE  \E v \in Worker : tx'[v].phase = "locked" /\ tx'[v].branch = c
      <3>1. PICK v \in Worker : tx[v].phase = "locked" /\ tx[v].branch = c
        BY <2>1 DEF RaceInv, RefLocksHeld
      <3>2. v # w
        BY <2>1, <3>1
      <3>3. QED
        BY <1>3, <3>1, <3>2
    <2>2. QED
      BY <1>1, <2>1 DEF RefLocksHeld
  <1>10. QED
    BY <1>8, <1>9

(***************************************************************************)
(* Every step keeps the order.  All but three change one transaction only. *)
(***************************************************************************)
LEMMA RaceNext ==
  ASSUME OneCreator, TypeInv, RaceInv, [Next]_vars
  PROVE  RaceInv'
  <1>0. /\ tx \in [Worker -> Transaction] /\ \A w \in Worker : tx[w] \in Transaction
        /\ \A w \in Worker : Orderly(w, tx[w], head)
        /\ head \in [Branch -> 0 .. Len(hist)]
    BY DEF TypeInv, TypeOK, RaceInv
  <1>1. PastReflexive'
    BY PastNext DEF RaceInv
  <1>2. CASE UNCHANGED vars
    BY <1>0, <1>1, <1>2 DEF vars, RaceInv, RefLocksHeld
  <1>3. ASSUME NEW w \in Worker, NEW b \in Branch, NEW type \in Type, Call(w, b, type)
        PROVE  RaceInv'
    <2>1. type # "BRANCH"
      BY TransactionConstants
    <2>2. Orderly(w, Attempt(b, type, 1), head)
      BY <2>1 DEF Orderly, Attempt, Idle, Moving
    <2>3. QED
      BY <1>3, <2>2, OrderlyStep DEF Call
  <1>4. ASSUME NEW w \in Worker, NEW b \in Branch, NEW from \in Branch,
               CallCreateBranch(w, b, from)
        PROVE  RaceInv'
    <2> DEFINE r == [Idle EXCEPT !.phase = "branching", !.branch = b, !.base = head[from]]
    <2>1. Orderly(w, r, head)
      BY <1>4 DEF CallCreateBranch, Orderly, Idle, Moving
    <2>2. QED
      BY <1>4, <2>1, OrderlyStep DEF CallCreateBranch
  <1>5. ASSUME NEW w \in Worker, Lock(w)
        PROVE  RaceInv'
    <2> DEFINE r == [tx[w] EXCEPT !.phase = "opening"]
    <2>1. tx' = [tx EXCEPT ![w] = r] /\ tx[w].type # "BRANCH"
      BY <1>0, <1>5 DEF Lock
    <2>2. "opening" \in Phase
      BY DEF Phase
    <2>3. r.type = tx[w].type /\ r.phase = "opening" /\ r.outcome = tx[w].outcome
      BY <1>0, <2>2, PhaseType
    <2>4. Orderly(w, r, head)
      BY <1>0, <2>1, <2>3 DEF Orderly, Moving
    <2>5. QED
      BY <1>5, <2>1, <2>4, OrderlyStep DEF Lock
  <1>6. ASSUME NEW w \in Worker, Open(w)
        PROVE  RaceInv'
    <2> DEFINE r == [tx[w] EXCEPT !.phase = "running", !.base = head[tx[w].branch],
                                  !.tree = TreeOf(head[tx[w].branch]), !.log = <<>>]
    <2>1. tx' = [tx EXCEPT ![w] = r]
      BY <1>0, <1>6 DEF Open
    <2>2. /\ r.type = tx[w].type /\ r.phase = "running" /\ r.branch = tx[w].branch
          /\ r.base = head[tx[w].branch] /\ r.outcome = tx[w].outcome
      BY <1>0 DEF Transaction
    <2>3. Orderly(w, r, head)
      BY <1>0, <1>6, <2>2 DEF Open, Orderly, Moving
    <2>4. QED
      BY <1>6, <2>1, <2>3, OrderlyStep DEF Open
  <1>7. ASSUME NEW w \in Worker, OpenThrows(w)
        PROVE  RaceInv'
    <2>1. Orderly(w, Idle, head)
      BY DEF Orderly, Idle, Moving
    <2>2. QED
      BY <1>7, <2>1, OrderlyStep DEF OpenThrows
  <1>8. ASSUME NEW w \in Worker, NEW op, NEW t, Running(w), Operate(w, op, t)
        PROVE  RaceInv'
    <2> DEFINE r == [tx[w] EXCEPT !.tree = t, !.log = Append(@, op)]
    <2>1. tx' = [tx EXCEPT ![w] = r]
      BY <1>0, <1>8 DEF Operate
    <2>2. /\ r.type = tx[w].type /\ r.phase = tx[w].phase /\ r.branch = tx[w].branch
          /\ r.base = tx[w].base /\ r.expect = tx[w].expect /\ r.outcome = tx[w].outcome
      BY <1>0 DEF Transaction
    <2>3. Orderly(w, r, head)
      BY <1>0, <2>2 DEF Orderly
    <2>4. QED
      BY <1>8, <2>1, <2>3, OrderlyStep DEF Operate, Running
  <1>9. ASSUME NEW w \in Worker,
               CreateObject(w) \/ UpdateObject(w) \/ DeleteObject(w) \/ Reindex(w)
        PROVE  RaceInv'
    <2>1. Running(w) /\ \E op, t : Operate(w, op, t)
      BY <1>9 DEF CreateObject, UpdateObject, DeleteObject, Reindex, MayOperate
    <2>2. QED
      BY <1>8, <2>1
  <1>10. ASSUME NEW w \in Worker, NEW outcome \in Outcome, End(w, outcome),
                outcome = "retry" => tx[w].type \notin {"EXCLUSIVE", "BRANCH"},
                tx[w].phase # "locked", UNCHANGED <<hist, head, refLock>>
         PROVE  RaceInv'
    <2> DEFINE r == [tx[w] EXCEPT !.phase = "closing", !.outcome = outcome]
    <2>1. tx' = [tx EXCEPT ![w] = r]
      BY <1>0, <1>10 DEF End
    <2>2. r.type = tx[w].type /\ r.phase = "closing" /\ r.outcome = outcome
      BY <1>0, EndType, ZenonT(40)
    <2>3. Orderly(w, r, head)
      BY <1>10, <2>2 DEF Orderly, Moving
    <2>4. QED
      BY <1>10, <2>1, <2>3, OrderlyStep
  <1>11. ASSUME NEW w \in Worker, Throw(w) \/ Return(w)
         PROVE  RaceInv'
    <2>1. PICK outcome \in {"failed", "returned"} : End(w, outcome)
      BY <1>11 DEF Throw, Return
    <2>2. tx[w].phase # "locked" /\ UNCHANGED <<hist, head, refLock>>
      BY <1>11 DEF Throw, Return, Running
    <2>3. QED
      BY <1>10, <2>1, <2>2 DEF Outcome
  <1>12. ASSUME NEW w \in Worker, CommitTree(w)
         PROVE  RaceInv'
    <2> DEFINE r == [tx[w] EXCEPT !.phase = "resolving"]
    <2>1. tx' = [tx EXCEPT ![w] = r]
      BY <1>0, <1>12 DEF CommitTree
    <2>2. "resolving" \in Phase
      BY DEF Phase
    <2>3. /\ r.type = tx[w].type /\ r.phase = "resolving" /\ r.branch = tx[w].branch
          /\ r.base = tx[w].base /\ r.outcome = tx[w].outcome
      BY <1>0, <2>2, PhaseType
    <2>4. Orderly(w, r, head)
      BY <1>0, <1>12, <2>3 DEF CommitTree, Running, Orderly, Moving
    <2>5. QED
      BY <1>12, <2>1, <2>4, OrderlyStep DEF CommitTree, Running
  <1>13. ASSUME NEW w \in Worker, Resolve(w)
         PROVE  RaceInv'
    <2> DEFINE r == [tx[w] EXCEPT !.phase = "updating", !.expect = head[tx[w].branch]]
    <2>1. tx' = [tx EXCEPT ![w] = r]
      BY <1>0, <1>13 DEF Resolve
    <2>2. /\ r.type = tx[w].type /\ r.phase = "updating" /\ r.branch = tx[w].branch
          /\ r.base = tx[w].base /\ r.expect = head[tx[w].branch] /\ r.outcome = tx[w].outcome
      BY <1>0 DEF Transaction
    <2>3. Orderly(w, r, head)
      BY <1>0, <1>13, <2>2 DEF Resolve, Orderly, Moving
    <2>4. QED
      BY <1>13, <2>1, <2>3, OrderlyStep DEF Resolve
  <1>14. ASSUME NEW w \in Worker, LockRef(w)
         PROVE  RaceInv'
    <2>1. UNCHANGED <<hist, head>> /\ tx[w].phase = "updating"
      BY <1>14 DEF LockRef
    <2>2. CASE tx[w].branch \in refLock /\ Refuse(w) /\ UNCHANGED refLock
      <3>1. PICK outcome \in Outcome :
               End(w, outcome) /\ (outcome = "retry" => tx[w].type # "BRANCH")
        BY <2>2 DEF Refuse, Outcome
      <3>2. tx[w].type # "EXCLUSIVE"
        BY <2>1, <2>2, ExclusiveFindsRefFree
      <3>3. QED
        BY <1>10, <2>1, <2>2, <3>1, <3>2
    <2>3. CASE /\ refLock' = refLock \cup {tx[w].branch}
               /\ tx' = [tx EXCEPT ![w].phase = "locked"]
      <3> DEFINE r == [tx[w] EXCEPT !.phase = "locked"]
      <3>1. tx' = [tx EXCEPT ![w] = r]
        BY <1>0, <2>3
      <3>2. "locked" \in Phase
        BY DEF Phase
      <3>3. /\ r.type = tx[w].type /\ r.phase = "locked" /\ r.branch = tx[w].branch
            /\ r.base = tx[w].base /\ r.expect = tx[w].expect /\ r.outcome = tx[w].outcome
        BY <1>0, <3>2, PhaseType
      <3>4. tx'[w] = r /\ \A v \in Worker \ {w} : tx'[v] = tx[v]
        BY <1>0, <3>1
      <3>5. Orderly(w, r, head)
        BY <1>0, <2>1, <3>3 DEF Orderly, Moving
      <3>6. \A v \in Worker : Orderly(v, tx'[v], head')
        BY <1>0, <2>1, <3>4, <3>5
      <3>7. RefLocksHeld'
        <4>1. ASSUME NEW c \in refLock
              PROVE  \E v \in Worker : tx'[v].phase = "locked" /\ tx'[v].branch = c
          BY <2>1, <3>4 DEF RaceInv, RefLocksHeld
        <4>2. tx'[w].phase = "locked" /\ tx'[w].branch = tx[w].branch
          BY <3>3, <3>4
        <4>3. QED
          BY <2>3, <4>1, <4>2 DEF RefLocksHeld
      <3>8. QED
        BY <1>1, <3>6, <3>7 DEF RaceInv
    <2>4. QED
      BY <1>14, <2>2, <2>3 DEF LockRef
  <1>15. ASSUME NEW w \in Worker, UpdateRef(w)
         PROVE  RaceInv'
    BY <1>1, <1>15, UpdateIsOrderly DEF RaceInv
  <1>16. ASSUME NEW w \in Worker, Close(w)
         PROVE  RaceInv'
    <2>1. PICK r : tx' = [tx EXCEPT ![w] = r]
                   /\ (\/ r = Idle
                       \/ /\ r = Attempt(tx[w].branch, tx[w].type, tx[w].attempt + 1)
                          /\ tx[w].outcome = "retry")
      BY <1>16 DEF Close
    <2>2. Orderly(w, r, head)
      <3>1. CASE r = Idle
        BY <3>1 DEF Orderly, Idle, Moving
      <3>2. CASE /\ r = Attempt(tx[w].branch, tx[w].type, tx[w].attempt + 1)
                 /\ tx[w].outcome = "retry"
        <4>1. r.type = tx[w].type /\ r.phase = "locking" /\ r.outcome = "none"
          BY <3>2 DEF Attempt, Idle
        <4>2. tx[w].type # "BRANCH"
          BY <1>0, <3>2 DEF Orderly
        <4>3. QED
          BY <4>1, <4>2 DEF Orderly, Moving
      <3>3. QED
        BY <2>1, <3>1, <3>2
    <2>3. QED
      BY <1>16, <2>1, <2>2, OrderlyStep DEF Close
  <1>17. ASSUME NEW w \in Worker, CheckBranch(w)
         PROVE  RaceInv'
    <2>1. tx[w].phase = "branching" /\ UNCHANGED <<hist, head, refLock>>
      BY <1>17 DEF CheckBranch
    <2>2. CASE End(w, "failed")
      BY <1>10, <2>1, <2>2 DEF Outcome
    <2>3. CASE head[tx[w].branch] = 0 /\ tx' = [tx EXCEPT ![w].phase = "resolving"]
      <3> DEFINE r == [tx[w] EXCEPT !.phase = "resolving"]
      <3>1. tx' = [tx EXCEPT ![w] = r]
        BY <1>0, <2>3
      <3>2. "resolving" \in Phase
        BY DEF Phase
      <3>3. /\ r.type = tx[w].type /\ r.phase = "resolving" /\ r.branch = tx[w].branch
            /\ r.base = tx[w].base /\ r.outcome = tx[w].outcome
        BY <1>0, <3>2, PhaseType
      <3>4. tx[w].type = "BRANCH"
        BY <2>1 DEF TypeInv, LockInv, BranchingIsBranch
      <3>5. Orderly(w, r, head)
        BY <1>0, <2>1, <2>3, <3>3, <3>4 DEF Orderly, Moving
      <3>6. QED
        BY <2>1, <3>1, <3>5, OrderlyStep
    <2>4. QED
      BY <1>17, <2>2, <2>3 DEF CheckBranch
  <1>18. QED
    BY <1>2, <1>3, <1>4, <1>5, <1>6, <1>7, <1>9, <1>11, <1>12, <1>13, <1>14, <1>15, <1>16, <1>17
       DEF Next, Step, Quiescent

(***************************************************************************)
(* While a worker has an exclusive transaction open on a branch, nobody    *)
(* moves the branch and its commit is never refused, if one thread creates *)
(* the branches.                                                           *)
(***************************************************************************)
THEOREM ExclusiveCorrect ==
  ASSUME OneCreator
  PROVE  Spec => []ExclusiveIsAlone
  <1>1. TypeInv /\ RaceInv => ExclusiveIsAlone
    BY DEF RaceInv, Orderly, ExclusiveIsAlone, InSnapshot, Moving
  <1>2. Init => TypeInv /\ RaceInv
    BY TypeInit, RaceInit
  <1>3. (TypeInv /\ RaceInv) /\ [Next]_vars => (TypeInv /\ RaceInv)'
    BY OneCreator, TypeNext, RaceNext
  <1>4. QED
    BY <1>1, <1>2, <1>3, PTL DEF Spec

-----------------------------------------------------------------------------
(***************************************************************************)
(* A branch only moves forward.  The head that is replaced is the one the  *)
(* update expects, and the update is refused unless that head is in the    *)
(* past of what replaces it.                                               *)
(***************************************************************************)
LEMMA ForwardStep ==
  ASSUME TypeInv, PastReflexive, [Next]_vars
  PROVE  \A b \in Branch : \A n \in {head[b]} : n # 0 => (n \in Reachable(head[b]))'
  <1>0. /\ tx \in [Worker -> Transaction] /\ hist \in Seq(Commit) /\ Len(hist) \in Nat
        /\ head \in [Branch -> 0 .. Len(hist)]
    BY DEF TypeInv, TypeOK
  <1>1. SUFFICES ASSUME NEW b \in Branch, head[b] # 0
                 PROVE  head[b] \in Reachable(head[b])'
    OBVIOUS
  <1>2. head[b] \in 1 .. Len(hist) /\ head[b] \in Reachable(head[b])
    BY <1>0, <1>1 DEF PastReflexive, Reachable
  <1>3. CASE UNCHANGED <<hist, head>>
    BY <1>1, <1>2, <1>3 DEF Reachable
  <1>4. ASSUME NEW w \in Worker, UpdateRef(w)
        PROVE  head[b] \in Reachable(head[b])'
    <2> DEFINE x == tx[w]
    <2>1. x.base \in 0 .. Len(hist)
      BY DEF TypeInv, LockInv, BasesExist
    <2>2. CASE UNCHANGED hist /\ head' = [head EXCEPT ![x.branch] = x.base]
               /\ HeadIsExpected(w) /\ IsFastForward(w)
      <3>1. CASE b = x.branch
        <4>1. head[b] \in Reachable(x.base)
          BY <1>1, <2>2, <3>1 DEF HeadIsExpected, IsFastForward
        <4>2. head'[b] = x.base
          BY <1>0, <2>2, <3>1
        <4>3. QED
          BY <2>2, <4>1, <4>2 DEF Reachable
      <3>2. CASE b # x.branch
        <4>1. head'[b] = head[b]
          BY <1>0, <2>2, <3>2
        <4>2. QED
          BY <1>2, <2>2, <4>1 DEF Reachable
      <3>3. QED
        BY <3>1, <3>2
    <2>3. CASE /\ hist' = Append(hist, NewCommit(w))
               /\ head' = [head EXCEPT ![x.branch] = Len(hist) + 1]
               /\ HeadIsExpected(w) /\ IsFastForward(w)
      <3>1. CASE b = x.branch
        <4>1. head[b] \in Reachable(x.base)
          BY <1>1, <2>3, <3>1 DEF HeadIsExpected, IsFastForward
        <4>2. head'[b] = Len(hist) + 1 /\ hist'[Len(hist) + 1] = NewCommit(w)
          BY <1>0, <2>3, <3>1
        <4>3. Reachable(head[b])' = NewCommit(w).past
          BY <1>0, <4>2 DEF Reachable
        <4>4. Reachable(x.base) \subseteq NewCommit(w).past
          BY DEF NewCommit
        <4>5. QED
          BY <4>1, <4>3, <4>4
      <3>2. CASE b # x.branch
        <4>1. head'[b] = head[b] /\ hist'[head[b]] = hist[head[b]]
          BY <1>0, <1>2, <2>3, <3>2
        <4>2. QED
          BY <1>1, <1>2, <4>1 DEF Reachable
      <3>3. QED
        BY <3>1, <3>2
    <2>4. QED
      BY <1>3, <1>4, <2>2, <2>3 DEF UpdateRef
  <1>5. ASSUME NEW w \in Worker, Step(w), ~ UpdateRef(w)
        PROVE  UNCHANGED <<hist, head>>
    BY <1>5 DEF Step, Lock, Open, OpenThrows, CreateObject, UpdateObject, DeleteObject, Reindex,
                Operate, Throw, Return, CommitTree, Resolve, LockRef, Close, CheckBranch
  <1>6. QED
    BY <1>3, <1>4, <1>5 DEF Next, Call, CallCreateBranch, Quiescent, vars

(* A commit stays in the past of some head: heads move forward, and a new  *)
(* commit becomes one.                                                     *)
LEMMA CommitsStay ==
  ASSUME TypeInv, PastInv, PastInv', NoCommitLost, [Next]_vars
  PROVE  NoCommitLost'
  <1>0. /\ hist \in Seq(Commit) /\ Len(hist) \in Nat /\ DOMAIN hist = 1 .. Len(hist)
        /\ tx \in [Worker -> Transaction] /\ head \in [Branch -> 0 .. Len(hist)]
    BY DEF TypeInv, TypeOK
  <1>1. \A b \in Branch : head[b] # 0 => head[b] \in Reachable(head[b])'
    BY ForwardStep DEF PastInv
  <1>2. /\ UNCHANGED hist \/ \E w \in Worker : hist' = Append(hist, NewCommit(w))
        /\ UNCHANGED hist \/ \E b \in Branch : head'[b] = Len(hist) + 1
    <2>1. ASSUME NEW w \in Worker, UpdateRef(w)
          PROVE  UNCHANGED hist \/ (hist' = Append(hist, NewCommit(w))
                                   /\ \E b \in Branch : head'[b] = Len(hist) + 1)
      <3>1. tx[w].branch \in Branch
        BY <2>1, <1>0 DEF UpdateRef, Transaction
      <3>2. QED
        BY <1>0, <2>1, <3>1 DEF UpdateRef
    <2>2. ASSUME NEW w \in Worker, Step(w), ~ UpdateRef(w)
          PROVE  UNCHANGED hist
      BY <2>2 DEF Step, Lock, Open, OpenThrows, CreateObject, UpdateObject, DeleteObject, Reindex,
                  Operate, Throw, Return, CommitTree, Resolve, LockRef, Close, CheckBranch
    <2>3. QED
      BY <2>1, <2>2 DEF Next, Call, CallCreateBranch, Quiescent, vars
  <1>3. \A n \in 1 .. Len(hist) : n \in 1 .. Len(hist') /\ hist'[n] = hist[n]
    BY <1>0, <1>2
  <1>4. ASSUME NEW n \in 1 .. Len(hist)
        PROVE  \E b \in Branch : n \in Reachable(head[b])'
    <2>1. PICK b \in Branch : n \in Reachable(head[b])
      BY <1>0, <1>4 DEF NoCommitLost
    <2>2. head[b] \in 1 .. Len(hist) /\ n \in hist[head[b]].past
      BY <1>0, <2>1 DEF Reachable
    <2>3. head[b] \in Reachable(head[b])' /\ n \in hist'[head[b]].past
      BY <1>1, <1>3, <2>2
    <2>4. head'[b] # 0 /\ head[b] \in hist'[head'[b]].past
      BY <2>3 DEF Reachable
    <2>5. head'[b] \in 1 .. Len(hist')
      BY TypeNext, <2>4 DEF TypeInv, TypeOK
    <2>6. hist'[head[b]].past \subseteq hist'[head'[b]].past
      BY <2>4, <2>5 DEF PastInv, PastClosed
    <2>7. QED
      BY <2>3, <2>4, <2>6 DEF Reachable
  <1>5. ASSUME NEW w \in Worker, hist' = Append(hist, NewCommit(w)),
               NEW b \in Branch, head'[b] = Len(hist) + 1
        PROVE  Len(hist) + 1 \in Reachable(head[b])'
    BY <1>0, <1>5 DEF Reachable, PastInv, PastReflexive
  <1>6. CASE UNCHANGED hist
    BY <1>0, <1>4, <1>6 DEF NoCommitLost
  <1>7. CASE /\ \E w \in Worker : hist' = Append(hist, NewCommit(w))
             /\ \E b \in Branch : head'[b] = Len(hist) + 1
    <2>1. \A n \in DOMAIN hist' : n \in 1 .. Len(hist) \/ n = Len(hist) + 1
      BY <1>0, <1>7
    <2>2. \E b \in Branch : Len(hist) + 1 \in Reachable(head[b])'
      BY <1>5, <1>7
    <2>3. QED
      BY <1>4, <2>1, <2>2 DEF NoCommitLost
  <1>8. QED
    BY <1>2, <1>6, <1>7

(***************************************************************************)
(* What was once committed on a branch stays in its history, whoever       *)
(* commits, and whoever creates branches.                                  *)
(***************************************************************************)
THEOREM BranchesForward == Spec => BranchesMoveForward
  <1>1. Init => TypeInv /\ PastReflexive
    BY TypeInit, RaceInit DEF RaceInv
  <1>2. (TypeInv /\ PastReflexive) /\ [Next]_vars => (TypeInv /\ PastReflexive)'
    BY TypeNext, PastNext
  <1>3. TypeInv /\ PastReflexive /\ [Next]_vars
          => [\A b \in Branch : \A n \in {head[b]} : n # 0 => (n \in Reachable(head[b]))']_vars
    BY ForwardStep
  <1>4. QED
    BY <1>1, <1>2, <1>3, PTL DEF Spec, BranchesMoveForward

-----------------------------------------------------------------------------
(***************************************************************************)
(* What a transaction has done so far to the tree o it started from: its   *)
(* log accounts for the value of every object, and the references that an  *)
(* object has kept in all it was saved as still have their targets.  ids   *)
(* are the ids in use, from which a new object takes none.                 *)
(***************************************************************************)
Before(o, i) == IF o.ent[i] = NoEnt THEN 0 ELSE o.ent[i].val

Accounted(t, o, log) == \A i \in Live(t) : t.ent[i].val = Before(o, i) + Changes(log, i)

Referring(t, o, log) ==
    \A s \in Live(o) \cap Live(t) : \A r \in o.ent[s].refs \cap AlwaysReferred(log, s) :
        r \in t.ent[s].refs /\ (r \in Live(o) => r \in Live(t))

Logged(log, ids) == \A k \in DOMAIN log : log[k].kind = "update" => log[k].id \in ids

Delta(t, o, log, ids) == Accounted(t, o, log) /\ Referring(t, o, log) /\ Logged(log, ids)

(* What TreeOf is of a repository with the commits h.                      *)
TreeIn(h, n) == IF n = 0 THEN EmptyTree ELSE h[n].tree

Writing(w) == InSnapshot(w) /\ tx[w].type # "BRANCH"

DeltaInv ==
    /\ \A n \in 1 .. Len(hist) : Live(hist[n].tree) \subseteq used /\ hist[n].parent \in 0 .. Len(hist)
    /\ \A n \in 2 .. Len(hist) : Delta(hist[n].tree, TreeIn(hist, hist[n].parent), hist[n].log, used)
    /\ \A w \in Worker : Writing(w) =>
          Live(tx[w].tree) \subseteq used /\ Delta(tx[w].tree, TreeIn(hist, tx[w].base), tx[w].log, used)

(* Nothing is changed by an empty log.                                     *)
LEMMA NoChanges == ASSUME NEW i PROVE Changes(<<>>, i) = 0
  <1>1. {k \in DOMAIN <<>> : <<>>[k].kind = "update" /\ <<>>[k].id = i} = {}
    BY EmptySeq
  <1>2. QED
    BY <1>1, FS_EmptySet DEF Changes

(* What one more operation adds to the account of an object.               *)
LEMMA ChangesAppend ==
  ASSUME NEW log \in Seq(Op), NEW op \in Op, NEW i
  PROVE  /\ Changes(log, i) \in Nat
         /\ Changes(Append(log, op), i)
               = Changes(log, i) + (IF op.kind = "update" /\ op.id = i THEN 1 ELSE 0)
  <1> DEFINE ups(l) == {k \in DOMAIN l : l[k].kind = "update" /\ l[k].id = i}
             n == Len(log)
             more == Append(log, op)
  <1>1. /\ n \in Nat /\ DOMAIN log = 1 .. n /\ DOMAIN more = 1 .. (n + 1)
        /\ \A k \in 1 .. n : more[k] = log[k]
        /\ more[n + 1] = op
    BY AppendProperties, LenProperties
  <1>2. IsFiniteSet(ups(log)) /\ Cardinality(ups(log)) \in Nat /\ n + 1 \notin ups(log)
    <2>1. IsFiniteSet(1 .. n) /\ ups(log) \in SUBSET (1 .. n)
      BY <1>1, FS_Interval
    <2>2. IsFiniteSet(ups(log))
      BY <2>1, FS_Subset
    <2>3. QED
      BY <1>1, <2>1, <2>2, FS_CardinalityType
  <1>3. CASE op.kind = "update" /\ op.id = i
    <2>1. ups(more) = ups(log) \cup {n + 1}
      BY <1>1, <1>3
    <2>2. Cardinality(ups(more)) = Cardinality(ups(log)) + 1
      BY <1>2, <2>1, FS_AddElement
    <2>3. QED
      BY <1>2, <1>3, <2>2 DEF Changes
  <1>4. CASE ~(op.kind = "update" /\ op.id = i)
    <2>1. ups(more) = ups(log)
      BY <1>1, <1>4
    <2>2. Changes(more, i) = Changes(log, i) /\ Changes(log, i) \in Nat
      BY <1>2, <2>1 DEF Changes
    <2>3. QED
      BY <1>4, <2>2
  <1>5. QED
    BY <1>3, <1>4

(* What an object refers to in all versions is what it did before, and     *)
(* does in the new version.                                                *)
LEMMA ReferredAppend ==
  ASSUME NEW log \in Seq(Op), NEW op \in Op, NEW s, NEW r \in AlwaysReferred(Append(log, op), s)
  PROVE  /\ r \in AlwaysReferred(log, s)
         /\ op.kind = "update" /\ op.id = s => r \in op.new.refs
  <1>1. /\ Len(log) \in Nat /\ DOMAIN log = 1 .. Len(log)
        /\ DOMAIN Append(log, op) = 1 .. (Len(log) + 1)
        /\ \A k \in 1 .. Len(log) : Append(log, op)[k] = log[k]
        /\ Append(log, op)[Len(log) + 1] = op
    BY AppendProperties, LenProperties
  <1>2. QED
    BY <1>1 DEF AlwaysReferred

LEMMA LoggedAppend ==
  ASSUME NEW log \in Seq(Op), NEW op \in Op, NEW ids, NEW more, ids \subseteq more,
         Logged(log, ids), op.kind = "update" => op.id \in more
  PROVE  Logged(Append(log, op), more)
  <1>1. /\ Len(log) \in Nat /\ DOMAIN log = 1 .. Len(log)
        /\ DOMAIN Append(log, op) = 1 .. (Len(log) + 1)
        /\ \A k \in 1 .. Len(log) : Append(log, op)[k] = log[k]
        /\ Append(log, op)[Len(log) + 1] = op
    BY AppendProperties, LenProperties
  <1>2. QED
    BY <1>1 DEF Logged

(* An object whose id was in use nowhere has not been changed.             *)
LEMMA FreshUnchanged ==
  ASSUME NEW log, NEW ids, NEW i, Logged(log, ids), i \notin ids
  PROVE  Changes(log, i) = 0
  <1>1. {k \in DOMAIN log : log[k].kind = "update" /\ log[k].id = i} = {}
    BY DEF Logged
  <1>2. QED
    BY <1>1, FS_EmptySet DEF Changes

(* The snapshot itself: nothing is done yet.                               *)
LEMMA DeltaOpen ==
  ASSUME NEW o \in Tree, NEW ids
  PROVE  Delta(o, o, <<>>, ids)
  <1>1. \A i \in Live(o) : o.ent[i] # NoEnt /\ o.ent[i].val \in Nat
    BY DEF Live, Tree, Content
  <1>2. Accounted(o, o, <<>>)
    BY <1>1, NoChanges DEF Accounted, Before
  <1>3. Logged(<<>>, ids)
    BY EmptySeq DEF Logged
  <1>4. QED
    BY <1>2, <1>3 DEF Delta, Referring

(* More ids may be used later.                                             *)
LEMMA DeltaGrows ==
  ASSUME NEW t, NEW o, NEW log, NEW ids, NEW more, ids \subseteq more, Delta(t, o, log, ids)
  PROVE  Delta(t, o, log, more)
  BY DEF Delta, Logged

LEMMA DeltaCreate ==
  ASSUME NEW t \in Tree, NEW o \in Tree, NEW log \in Seq(Op), NEW ids, NEW op \in Op,
         NEW i \in Id, NEW c \in Content, Delta(t, o, log, ids),
         i \notin ids, i \notin Live(o), c.val = 0, op.kind = "create"
  PROVE  Delta(Saved(t, i, c), o, Append(log, op), ids \cup {i})
  <1> DEFINE n == Saved(t, i, c)
  <1>1. /\ n.ent[i] = c /\ \A x \in Id \ {i} : n.ent[x] = t.ent[x]
        /\ Live(n) = Live(t) \cup {i}
    BY TreeConstants DEF Saved, Live, Tree
  <1> HIDE DEF n
  <1>2. Accounted(n, o, Append(log, op))
    <2> SUFFICES ASSUME NEW x \in Live(n)
                 PROVE  n.ent[x].val = Before(o, x) + Changes(Append(log, op), x)
      BY DEF Accounted
    <2>1. Changes(Append(log, op), x) = Changes(log, x) /\ Changes(log, x) \in Nat
      BY ChangesAppend
    <2>2. CASE x = i
      <3>1. Changes(log, i) = 0
        BY FreshUnchanged DEF Delta
      <3>2. Before(o, i) = 0
        BY DEF Before, Live
      <3>3. QED
        BY <1>1, <2>1, <2>2, <3>1, <3>2
    <2>3. CASE x # i
      BY <1>1, <2>1, <2>3 DEF Delta, Accounted, Live
    <2>4. QED
      BY <2>2, <2>3
  <1>3. Referring(n, o, Append(log, op))
    <2> SUFFICES ASSUME NEW s \in Live(o) \cap Live(n),
                        NEW r \in o.ent[s].refs \cap AlwaysReferred(Append(log, op), s)
                 PROVE  r \in n.ent[s].refs /\ (r \in Live(o) => r \in Live(n))
      BY DEF Referring
    <2>1. s \in Live(t) /\ s # i /\ s \in Id
      BY <1>1 DEF Live
    <2>2. r \in AlwaysReferred(log, s)
      BY ReferredAppend
    <2>3. QED
      BY <1>1, <2>1, <2>2 DEF Delta, Referring
  <1>4. Logged(Append(log, op), ids \cup {i})
    BY LoggedAppend DEF Delta
  <1>5. QED
    BY <1>2, <1>3, <1>4 DEF Delta, n

LEMMA DeltaUpdate ==
  ASSUME NEW t \in Tree, NEW o \in Tree, NEW log \in Seq(Op), NEW ids, NEW op \in Op,
         NEW i \in ids, i \in Live(t), NEW c \in Content, Delta(t, o, log, ids),
         c.val = t.ent[i].val + 1, op.kind = "update", op.id = i, op.new = c
  PROVE  Delta(Saved(t, i, c), o, Append(log, op), ids)
  <1> DEFINE n == Saved(t, i, c)
  <1>0. i \in Id
    BY DEF Live
  <1>1. /\ n.ent[i] = c /\ \A x \in Id \ {i} : n.ent[x] = t.ent[x]
        /\ Live(n) = Live(t)
    BY <1>0, TreeConstants DEF Saved, Live, Tree
  <1> HIDE DEF n
  <1>2. Accounted(n, o, Append(log, op))
    <2> SUFFICES ASSUME NEW x \in Live(n)
                 PROVE  n.ent[x].val = Before(o, x) + Changes(Append(log, op), x)
      BY DEF Accounted
    <2>1. /\ Changes(Append(log, op), x) = Changes(log, x) + (IF x = i THEN 1 ELSE 0)
          /\ Changes(log, x) \in Nat
      BY ChangesAppend
    <2>2. Before(o, x) \in Nat
      BY <1>1 DEF Before, Live, Tree, Content
    <2>3. t.ent[x].val = Before(o, x) + Changes(log, x)
      BY <1>1 DEF Delta, Accounted
    <2>4. CASE x = i
      BY <1>1, <2>1, <2>2, <2>3, <2>4
    <2>5. CASE x # i
      BY <1>1, <2>1, <2>3, <2>5 DEF Live
    <2>6. QED
      BY <2>4, <2>5
  <1>3. Referring(n, o, Append(log, op))
    <2> SUFFICES ASSUME NEW s \in Live(o) \cap Live(n),
                        NEW r \in o.ent[s].refs \cap AlwaysReferred(Append(log, op), s)
                 PROVE  r \in n.ent[s].refs /\ (r \in Live(o) => r \in Live(n))
      BY DEF Referring
    <2>1. s \in Live(t) /\ s \in Id
      BY <1>1 DEF Live
    <2>2. r \in AlwaysReferred(log, s) /\ (s = i => r \in c.refs)
      BY ReferredAppend
    <2>3. r \in t.ent[s].refs /\ (r \in Live(o) => r \in Live(t))
      BY <2>1, <2>2 DEF Delta, Referring
    <2>4. QED
      BY <1>1, <2>1, <2>2, <2>3
  <1>4. Logged(Append(log, op), ids)
    BY LoggedAppend DEF Delta
  <1>5. QED
    BY <1>2, <1>3, <1>4 DEF Delta, n

(* The index of references tells a delete of every object that refers to   *)
(* the one it takes away.                                                  *)
LEMMA DeltaDelete ==
  ASSUME NEW t \in Tree, NEW o \in Tree, NEW log \in Seq(Op), NEW ids, NEW op \in Op,
         NEW i \in Live(t), Delta(t, o, log, ids),
         RefsExact(t), ~IsReferenced(t, i), op.kind = "delete"
  PROVE  Delta(Deleted(t, i), o, Append(log, op), ids)
  <1> DEFINE n == Deleted(t, i)
  <1>0. i \in Id
    BY DEF Live
  <1>1. /\ \A x \in Id \ {i} : n.ent[x] = t.ent[x]
        /\ Live(n) = Live(t) \ {i}
    BY <1>0 DEF Deleted, Live, Tree
  <1> HIDE DEF n
  <1>2. Accounted(n, o, Append(log, op))
    <2> SUFFICES ASSUME NEW x \in Live(n)
                 PROVE  n.ent[x].val = Before(o, x) + Changes(Append(log, op), x)
      BY DEF Accounted
    <2>1. Changes(Append(log, op), x) = Changes(log, x) /\ Changes(log, x) \in Nat
      BY ChangesAppend
    <2>2. QED
      BY <1>1, <2>1 DEF Delta, Accounted, Live
  <1>3. Referring(n, o, Append(log, op))
    <2> SUFFICES ASSUME NEW s \in Live(o) \cap Live(n),
                        NEW r \in o.ent[s].refs \cap AlwaysReferred(Append(log, op), s)
                 PROVE  r \in n.ent[s].refs /\ (r \in Live(o) => r \in Live(n))
      BY DEF Referring
    <2>1. s \in Live(t) /\ s # i /\ s \in Id
      BY <1>1 DEF Live
    <2>2. r \in AlwaysReferred(log, s)
      BY ReferredAppend
    <2>3. r \in t.ent[s].refs /\ (r \in Live(o) => r \in Live(t))
      BY <2>1, <2>2 DEF Delta, Referring
    <2>4. r # i
      BY <1>0, <2>1, <2>3 DEF RefsExact, IsReferenced
    <2>5. QED
      BY <1>1, <2>1, <2>3, <2>4
  <1>4. Logged(Append(log, op), ids)
    BY LoggedAppend DEF Delta
  <1>5. QED
    BY <1>2, <1>3, <1>4 DEF Delta, n

LEMMA DeltaReindex ==
  ASSUME NEW t \in Tree, NEW o \in Tree, NEW log \in Seq(Op), NEW ids, NEW op \in Op,
         Delta(t, o, log, ids), op.kind = "reindex"
  PROVE  Delta(t, o, Append(log, op), ids)
  <1>1. Accounted(t, o, Append(log, op))
    <2>1. \A x : Changes(Append(log, op), x) = Changes(log, x)
      BY ChangesAppend
    <2>2. QED
      BY <2>1 DEF Delta, Accounted
  <1>2. Referring(t, o, Append(log, op))
    <2>1. \A s : \A r \in AlwaysReferred(Append(log, op), s) : r \in AlwaysReferred(log, s)
      BY ReferredAppend
    <2>2. QED
      BY <2>1 DEF Delta, Referring
  <1>3. Logged(Append(log, op), ids)
    BY LoggedAppend DEF Delta
  <1>4. QED
    BY <1>1, <1>2, <1>3 DEF Delta

-----------------------------------------------------------------------------
LEMMA DeltaInit == Init => DeltaInv
  <1> SUFFICES ASSUME Init PROVE DeltaInv
    OBVIOUS
  <1>1. PICK t \in InitialTrees :
           /\ hist = <<[parent |-> 0, past |-> {1}, tree |-> t, log |-> <<>>]>>
           /\ used = Live(t) \cup UNION {t.ent[i].refs : i \in Live(t)}
    BY DEF Init
  <1>2. Len(hist) = 1 /\ hist[1].tree = t /\ hist[1].parent = 0
    BY <1>1
  <1>3. \A w \in Worker : ~Writing(w)
    BY DEF Init, Idle, Writing, InSnapshot
  <1>4. QED
    BY <1>1, <1>2, <1>3 DEF DeltaInv

(* The commits that are there stay as they are.                            *)
LEMMA TreesStay ==
  ASSUME TypeInv, NEW c, hist' = hist \/ hist' = Append(hist, c)
  PROVE  /\ \A n \in 1 .. Len(hist) : hist'[n] = hist[n]
         /\ \A n \in 0 .. Len(hist) : TreeIn(hist', n) = TreeIn(hist, n)
  <1>1. hist \in Seq(Commit) /\ Len(hist) \in Nat
    BY DEF TypeInv, TypeOK
  <1>2. \A n \in 1 .. Len(hist) : hist'[n] = hist[n]
    BY <1>1
  <1>3. QED
    BY <1>1, <1>2 DEF TreeIn

(* A step that makes no commit, after which one transaction has done what  *)
(* its log says.                                                           *)
LEMMA DeltaStep ==
  ASSUME TypeInv, DeltaInv, NEW w \in Worker, UNCHANGED hist, used \subseteq used',
         NEW r, tx' = [tx EXCEPT ![w] = r],
         r.phase \in {"running", "resolving", "updating", "locked"} /\ r.type # "BRANCH"
            => Live(r.tree) \subseteq used' /\ Delta(r.tree, TreeIn(hist, r.base), r.log, used')
  PROVE  DeltaInv'
  <1>1. tx \in [Worker -> Transaction]
    BY DEF TypeInv, TypeOK
  <1>2. tx'[w] = r /\ \A v \in Worker \ {w} : tx'[v] = tx[v]
    BY <1>1
  <1>4. \A n \in 2 .. Len(hist) :
           Delta(hist[n].tree, TreeIn(hist, hist[n].parent), hist[n].log, used')
    BY DeltaGrows DEF DeltaInv
  <1>5. \A v \in Worker : Writing(v)' =>
           Live(tx'[v].tree) \subseteq used' /\ Delta(tx'[v].tree, TreeIn(hist', tx'[v].base), tx'[v].log, used')
    <2> SUFFICES ASSUME NEW v \in Worker, Writing(v)'
                 PROVE  /\ Live(tx'[v].tree) \subseteq used'
                        /\ Delta(tx'[v].tree, TreeIn(hist', tx'[v].base), tx'[v].log, used')
      OBVIOUS
    <2>1. CASE v = w
      BY <1>2, <2>1 DEF Writing, InSnapshot
    <2>2. CASE v # w
      <3>1. tx'[v] = tx[v] /\ Writing(v)
        BY <1>2, <2>2 DEF Writing, InSnapshot
      <3>2. Delta(tx[v].tree, TreeIn(hist, tx[v].base), tx[v].log, used) /\ Live(tx[v].tree) \subseteq used
        BY <3>1 DEF DeltaInv
      <3>3. QED
        BY <3>1, <3>2, DeltaGrows
    <2>3. QED
      BY <2>1, <2>2
  <1>6. QED
    BY <1>4, <1>5 DEF DeltaInv

(* An operation gives the transaction the tree it makes, and logs itself.  *)
LEMMA OperateDelta ==
  ASSUME TypeInv, DeltaInv, NEW w \in Worker, NEW op \in Op, NEW t, Operate(w, op, t),
         used \subseteq used', Live(t) \subseteq used',
         Delta(t, TreeIn(hist, tx[w].base), Append(tx[w].log, op), used')
  PROVE  DeltaInv'
  <1> DEFINE r == [tx[w] EXCEPT !.tree = t, !.log = Append(@, op)]
  <1>1. tx[w] \in Transaction
    BY DEF TypeInv, TypeOK
  <1>2. r.tree = t /\ r.log = Append(tx[w].log, op) /\ r.base = tx[w].base
    BY <1>1 DEF Transaction
  <1>3. tx' = [tx EXCEPT ![w] = r] /\ UNCHANGED hist
    BY DEF Operate
  <1> HIDE DEF r
  <1>4. QED
    BY <1>2, <1>3, DeltaStep

LEMMA DeltaNext ==
  TypeInv /\ TreesInv /\ DeltaInv /\ [Next]_vars => DeltaInv'
  <1> SUFFICES ASSUME TypeInv, TreesInv, DeltaInv, [Next]_vars PROVE DeltaInv'
    OBVIOUS
  <1>0. /\ tx \in [Worker -> Transaction] /\ used \subseteq Id /\ TypeOK
        /\ head \in [Branch -> 0 .. Len(hist)] /\ hist \in Seq(Commit) /\ Len(hist) \in Nat
        /\ \A w \in Worker : /\ tx[w].tree \in Tree /\ tx[w].branch \in Branch
                             /\ tx[w].log \in Seq(Op) /\ tx[w].base \in 0 .. Len(hist)
                             /\ Consistent(tx[w].tree)
    BY DEF TypeInv, LockInv, BasesExist, TypeOK, Transaction, TreesInv, GoodTree
  <1>a. \A n \in 0 .. Len(hist) : TreeIn(hist, n) \in Tree /\ Live(TreeIn(hist, n)) \subseteq used
    <2>1. Live(EmptyTree) = {}
      BY DEF Live, EmptyTree
    <2>2. \A n \in 1 .. Len(hist) : hist[n].tree \in Tree
      BY <1>0, HistType DEF Commit
    <2>3. \A n \in 1 .. Len(hist) : Live(hist[n].tree) \subseteq used
      BY DEF DeltaInv
    <2> SUFFICES ASSUME NEW n \in 0 .. Len(hist)
                 PROVE  TreeIn(hist, n) \in Tree /\ Live(TreeIn(hist, n)) \subseteq used
      OBVIOUS
    <2>4. CASE n = 0
      BY <2>1, <2>4, EmptyTreeType DEF TreeIn
    <2>5. CASE n # 0
      <3>1. n \in 1 .. Len(hist) /\ TreeIn(hist, n) = hist[n].tree
        BY <1>0, <2>5 DEF TreeIn
      <3>2. QED
        BY <2>2, <2>3, <3>1
    <2>6. QED
      BY <2>4, <2>5
  <1>b. \A w \in Worker : Running(w) =>
           /\ Delta(tx[w].tree, TreeIn(hist, tx[w].base), tx[w].log, used)
           /\ Live(tx[w].tree) \subseteq used
           /\ TreeIn(hist, tx[w].base) \in Tree
    BY <1>0, <1>a DEF Running, Writing, InSnapshot, DeltaInv
  <1>1. CASE UNCHANGED vars
    <2>1. UNCHANGED <<hist, used, tx>>
      BY <1>1 DEF vars
    <2>2. QED
      BY <2>1 DEF DeltaInv, Writing, InSnapshot
  <1>2. ASSUME NEW w \in Worker, NEW r, tx' = [tx EXCEPT ![w] = r],
               r.phase \notin {"running", "resolving", "updating", "locked"},
               UNCHANGED <<hist, used>>
        PROVE  DeltaInv'
    BY <1>2, DeltaStep
  <1>3. Idle.phase = "idle" /\ \A b, type, n : Attempt(b, type, n).phase = "locking"
    BY DEF Idle, Attempt
  <1>4. ASSUME NEW w \in Worker, NEW b \in Branch, NEW type \in Type, Call(w, b, type)
        PROVE  DeltaInv'
    BY <1>2, <1>3, <1>4 DEF Call
  <1>5. ASSUME NEW w \in Worker, NEW b \in Branch, NEW from \in Branch,
               CallCreateBranch(w, b, from)
        PROVE  DeltaInv'
    <2>1. [Idle EXCEPT !.phase = "branching", !.branch = b, !.base = head[from]].phase = "branching"
      BY DEF Idle
    <2>2. QED
      BY <1>2, <1>5, <2>1 DEF CallCreateBranch
  <1>6. ASSUME NEW w \in Worker, OpenThrows(w)
        PROVE  DeltaInv'
    BY <1>2, <1>3, <1>6 DEF OpenThrows
  <1>7. ASSUME NEW w \in Worker, Close(w)
        PROVE  DeltaInv'
    <2>1. PICK r \in {Idle, Attempt(tx[w].branch, tx[w].type, tx[w].attempt + 1)} :
             tx' = [tx EXCEPT ![w] = r] /\ UNCHANGED <<hist, used>>
      BY <1>7 DEF Close
    <2>2. r.phase \in {"idle", "locking"}
      BY <1>3, <2>1
    <2>3. QED
      BY <1>2, <2>1, <2>2
  <1>8. ASSUME NEW w \in Worker, Open(w)
        PROVE  DeltaInv'
    <2> DEFINE n == head[tx[w].branch]
    <2> DEFINE r == [tx[w] EXCEPT !.phase = "running", !.base = n, !.tree = TreeIn(hist, n), !.log = <<>>]
    <2>1. r.tree = TreeIn(hist, n) /\ r.base = n /\ r.log = <<>>
      BY <1>0 DEF Transaction
    <2>2. tx' = [tx EXCEPT ![w] = r] /\ UNCHANGED <<hist, used>>
      BY <1>8 DEF Open, TreeOf, TreeIn
    <2>3. n \in 0 .. Len(hist)
      BY <1>0
    <2>4. Live(TreeIn(hist, n)) \subseteq used /\ Delta(TreeIn(hist, n), TreeIn(hist, n), <<>>, used)
      BY <1>a, <2>3, DeltaOpen
    <2> HIDE DEF r, n
    <2>5. QED
      BY <2>1, <2>2, <2>4, DeltaStep
  <1>9. ASSUME NEW w \in Worker, CreateObject(w)
        PROVE  DeltaInv'
    <2>1. PICK i \in Id \ used, shape \in Shape, R \in RefSets :
             /\ Operate(w, [kind |-> "create", id |-> i, rev |-> NoEnt,
                            new |-> NewContent(shape, R, 0)],
                        Saved(tx[w].tree, i, NewContent(shape, R, 0)))
             /\ used' = used \cup {i}
      BY <1>9 DEF CreateObject
    <2> DEFINE c == NewContent(shape, R, 0)
               op == [kind |-> "create", id |-> i, rev |-> NoEnt, new |-> c]
    <2>2. c \in Content /\ c.val = 0
      BY <1>0, NewContentType DEF NewContent
    <2>3. op \in Op /\ op.kind = "create"
      BY <2>2 DEF Op
    <2>4. Operate(w, op, Saved(tx[w].tree, i, c))
      BY <2>1
    <2> HIDE DEF op, c
    <2>5. Running(w)
      BY <1>9 DEF CreateObject, MayOperate
    <2>6. i \notin Live(TreeIn(hist, tx[w].base))
      BY <1>0, <1>a
    <2>7. Delta(Saved(tx[w].tree, i, c), TreeIn(hist, tx[w].base), Append(tx[w].log, op), used')
      BY <1>0, <1>b, <2>1, <2>2, <2>3, <2>5, <2>6, DeltaCreate
    <2>8. Live(Saved(tx[w].tree, i, c)) \subseteq used'
      BY <1>0, <1>b, <2>1, <2>5 DEF Live, Saved, Tree
    <2>9. QED
      BY <2>1, <2>3, <2>4, <2>7, <2>8, OperateDelta
  <1>10. ASSUME NEW w \in Worker, UpdateObject(w)
         PROVE  DeltaInv'
    <2>0. PICK i \in used : \E rev \in Revisions(w, i), shape \in Shape, R \in RefSets :
             /\ CanUpdate(tx[w].tree, i, rev, NewContent(shape, R, rev.val + 1))
             /\ Operate(w, [kind |-> "update", id |-> i, rev |-> rev,
                            new |-> NewContent(shape, R, rev.val + 1)],
                        Saved(tx[w].tree, i, NewContent(shape, R, rev.val + 1)))
      BY <1>10 DEF UpdateObject
    <2>1. PICK rev \in Revisions(w, i), shape \in Shape, R \in RefSets :
             /\ CanUpdate(tx[w].tree, i, rev, NewContent(shape, R, rev.val + 1))
             /\ Operate(w, [kind |-> "update", id |-> i, rev |-> rev,
                            new |-> NewContent(shape, R, rev.val + 1)],
                        Saved(tx[w].tree, i, NewContent(shape, R, rev.val + 1)))
      BY <2>0
    <2> DEFINE c == NewContent(shape, R, rev.val + 1)
               op == [kind |-> "update", id |-> i, rev |-> rev, new |-> c]
    <2>2. i \in Id /\ rev \in Content /\ rev = tx[w].tree.ent[i] /\ i \in Live(tx[w].tree)
      BY <1>0, <2>1, RevisionType DEF CanUpdate, RevisionMatches, Live
    <2>3. c \in Content /\ c.val = tx[w].tree.ent[i].val + 1
      <3>1. rev.val + 1 \in Nat
        BY <2>2 DEF Content
      <3>2. QED
        BY <1>0, <2>2, <3>1, NewContentType DEF NewContent
    <2>4. op \in Op /\ op.kind = "update" /\ op.id = i /\ op.new = c
      BY <2>2, <2>3 DEF Op
    <2>5. Operate(w, op, Saved(tx[w].tree, i, c))
      BY <2>1
    <2> HIDE DEF op, c
    <2>6. Running(w) /\ used' = used
      BY <1>10 DEF UpdateObject, MayOperate
    <2>7. Delta(Saved(tx[w].tree, i, c), TreeIn(hist, tx[w].base), Append(tx[w].log, op), used)
      BY <1>0, <1>b, <2>2, <2>3, <2>4, <2>6, DeltaUpdate
    <2>8. Live(Saved(tx[w].tree, i, c)) \subseteq used
      BY <1>0, <1>b, <2>6 DEF Live, Saved, Tree
    <2>9. QED
      BY <2>4, <2>5, <2>6, <2>7, <2>8, OperateDelta
  <1>11. ASSUME NEW w \in Worker, DeleteObject(w)
         PROVE  DeltaInv'
    <2>0. PICK i \in used : \E rev \in Revisions(w, i) :
             /\ CanDelete(tx[w].tree, i, rev)
             /\ Operate(w, [kind |-> "delete", id |-> i, rev |-> rev, new |-> NoEnt],
                        Deleted(tx[w].tree, i))
      BY <1>11 DEF DeleteObject
    <2>1. PICK rev \in Revisions(w, i) :
             /\ CanDelete(tx[w].tree, i, rev)
             /\ Operate(w, [kind |-> "delete", id |-> i, rev |-> rev, new |-> NoEnt],
                        Deleted(tx[w].tree, i))
      BY <2>0
    <2> DEFINE op == [kind |-> "delete", id |-> i, rev |-> rev, new |-> NoEnt]
    <2>2. i \in Id /\ rev \in Content /\ i \in Live(tx[w].tree) /\ ~IsReferenced(tx[w].tree, i)
      BY <1>0, <2>1, RevisionType DEF CanDelete, Live
    <2>3. op \in Op /\ op.kind = "delete"
      BY <2>2 DEF Op
    <2>4. Operate(w, op, Deleted(tx[w].tree, i))
      BY <2>1
    <2> HIDE DEF op
    <2>5. Running(w) /\ used' = used
      BY <1>11 DEF DeleteObject, MayOperate
    <2>6. RefsExact(tx[w].tree)
      BY <1>0 DEF Consistent
    <2>7. Delta(Deleted(tx[w].tree, i), TreeIn(hist, tx[w].base), Append(tx[w].log, op), used)
      BY <1>0, <1>b, <2>2, <2>3, <2>5, <2>6, DeltaDelete
    <2>8. Live(Deleted(tx[w].tree, i)) \subseteq used
      BY <1>0, <1>b, <2>5 DEF Live, Deleted, Tree
    <2>9. QED
      BY <2>3, <2>4, <2>5, <2>7, <2>8, OperateDelta
  <1>12. ASSUME NEW w \in Worker, Reindex(w)
         PROVE  DeltaInv'
    <2> DEFINE op == [kind |-> "reindex", id |-> NoId, rev |-> NoEnt, new |-> NoEnt]
    <2>1. Reindexed(tx[w].tree) = tx[w].tree
      BY <1>0, ReindexIdentity
    <2>2. op \in Op /\ op.kind = "reindex"
      BY DEF Op
    <2>3. Operate(w, op, tx[w].tree) /\ used' = used /\ Running(w)
      BY <1>12, <2>1 DEF Reindex, MayOperate
    <2> HIDE DEF op
    <2>4. Delta(tx[w].tree, TreeIn(hist, tx[w].base), Append(tx[w].log, op), used)
      BY <1>0, <1>b, <2>2, <2>3, DeltaReindex
    <2>5. QED
      BY <1>b, <2>2, <2>3, <2>4, OperateDelta
  <1>14. ASSUME NEW w \in Worker,
                \/ Lock(w) \/ Throw(w) \/ Return(w) \/ CommitTree(w)
                \/ Resolve(w) \/ LockRef(w) \/ CheckBranch(w)
         PROVE  DeltaInv'
    <2>1. UNCHANGED <<hist, used>>
      BY <1>14 DEF Lock, Throw, Return, CommitTree, Resolve, LockRef, CheckBranch
    <2> DEFINE Kept(r) ==
                 /\ tx' = [tx EXCEPT ![w] = r]
                 /\ r.tree = tx[w].tree /\ r.log = tx[w].log /\ r.base = tx[w].base
                 /\ r.type = tx[w].type
                 /\ r.phase \in {"resolving", "updating", "locked", "running"} =>
                       \/ tx[w].phase \in {"running", "resolving", "updating", "locked"}
                       \/ r.type = "BRANCH"
    <2>2. \E r : Kept(r)
      <3> DEFINE moved(phase) == [tx[w] EXCEPT !.phase = phase]
                 ended(outcome) == [tx[w] EXCEPT !.phase = "closing", !.outcome = outcome]
                 resolved == [tx[w] EXCEPT !.phase = "updating", !.expect = head[tx[w].branch]]
      <3>1. \/ \E outcome : tx' = [tx EXCEPT ![w] = ended(outcome)]
            \/ tx' = [tx EXCEPT ![w] = moved("opening")]
            \/ /\ tx[w].phase \in {"running", "updating"} \/ tx[w].type = "BRANCH"
               /\ \E phase \in {"resolving", "locked"} : tx' = [tx EXCEPT ![w] = moved(phase)]
            \/ tx[w].phase = "resolving" /\ tx' = [tx EXCEPT ![w] = resolved]
        <4>1. CASE Lock(w)
          BY <4>1 DEF Lock
        <4>2. CASE Throw(w) \/ Return(w)
          BY <4>2 DEF Throw, Return, End
        <4>3. CASE CommitTree(w)
          BY <4>3 DEF CommitTree, Running
        <4>4. CASE Resolve(w)
          BY <4>4 DEF Resolve
        <4>5. CASE LockRef(w)
          BY <4>5, ZenonT(40) DEF LockRef, Refuse, End
        <4>6. CASE CheckBranch(w)
          BY <4>6 DEF CheckBranch, End, TypeInv, LockInv, BranchingIsBranch
        <4>7. QED
          BY <1>14, <4>1, <4>2, <4>3, <4>4, <4>5, <4>6
      <3>2. tx[w] \in Transaction
        BY <1>0
      <3>3. ASSUME NEW outcome, tx' = [tx EXCEPT ![w] = ended(outcome)]
            PROVE  \E r : Kept(r)
        <4>1. Kept(ended(outcome))
          BY <3>2, <3>3 DEF Transaction
        <4>2. QED
          BY <4>1
      <3>4. ASSUME NEW phase, tx' = [tx EXCEPT ![w] = moved(phase)],
                   \/ phase = "opening"
                   \/ tx[w].phase \in {"running", "updating"} \/ tx[w].type = "BRANCH"
            PROVE  \E r : Kept(r)
        <4>1. Kept(moved(phase))
          BY <3>2, <3>4 DEF Transaction
        <4>2. QED
          BY <4>1
      <3>5. ASSUME tx[w].phase = "resolving", tx' = [tx EXCEPT ![w] = resolved]
            PROVE  \E r : Kept(r)
        <4>1. Kept(resolved)
          BY <3>2, <3>5 DEF Transaction
        <4>2. QED
          BY <4>1
      <3>6. QED
        BY ONLY <3>1, <3>3, <3>4, <3>5
    <2>3. Writing(w) =>
            /\ Delta(tx[w].tree, TreeIn(hist, tx[w].base), tx[w].log, used)
            /\ Live(tx[w].tree) \subseteq used
      BY DEF DeltaInv
    <2>4. PICK r : Kept(r)
      BY <2>2
    <2>5. QED
      BY <2>1, <2>3, <2>4, DeltaStep DEF Writing, InSnapshot
  <1>15. ASSUME NEW w \in Worker, UpdateRef(w)
         PROVE  DeltaInv'
    <2>1. PICK outcome : End(w, outcome)
      BY <1>15 DEF UpdateRef, Refuse
    <2>2. tx'[w].phase = "closing" /\ \A v \in Worker \ {w} : tx'[v] = tx[v]
      BY <1>0, <2>1 DEF End, Transaction
    <2>3. \/ hist' = hist
          \/ hist' = Append(hist, NewCommit(w)) /\ tx[w].phase = "locked" /\ tx[w].type # "BRANCH"
      BY <1>15 DEF UpdateRef
    <2>4. used' = used
      BY <1>15 DEF UpdateRef
    <2> DEFINE c == NewCommit(w)
    <2>5. c.parent = tx[w].base /\ c.tree = tx[w].tree /\ c.log = tx[w].log
      BY DEF NewCommit
    <2> HIDE DEF c
    <2>6. /\ \A n \in 1 .. Len(hist) : hist'[n] = hist[n]
          /\ \A n \in 0 .. Len(hist) : TreeIn(hist', n) = TreeIn(hist, n)
      BY <2>3, TreesStay DEF c
    <2>7. \A v \in Worker : Writing(v)' => Writing(v) /\ tx'[v] = tx[v]
      BY <2>2 DEF Writing, InSnapshot
    <2>8. \A v \in Worker : Writing(v)' =>
             /\ Live(tx'[v].tree) \subseteq used'
             /\ Delta(tx'[v].tree, TreeIn(hist', tx'[v].base), tx'[v].log, used')
      BY <1>0, <2>4, <2>6, <2>7 DEF DeltaInv
    <2>9. \A n \in 1 .. Len(hist) : /\ Live(hist'[n].tree) \subseteq used'
                                    /\ hist'[n].parent \in 0 .. Len(hist)
                                    /\ TreeIn(hist', hist'[n].parent) = TreeIn(hist, hist[n].parent)
      BY <2>4, <2>6 DEF DeltaInv
    <2>10. \A n \in 2 .. Len(hist) : Delta(hist'[n].tree, TreeIn(hist', hist'[n].parent), hist'[n].log, used')
      BY <1>0, <2>4, <2>6, <2>9 DEF DeltaInv
    <2>11. CASE hist' = hist
      BY <2>8, <2>9, <2>10, <2>11 DEF DeltaInv
    <2>12. CASE hist' = Append(hist, c) /\ Writing(w)
      <3>1. Len(hist') = Len(hist) + 1 /\ hist'[Len(hist) + 1] = c
        BY <1>0, <2>12
      <3>2. Live(c.tree) \subseteq used' /\ c.parent \in 0 .. Len(hist)
        BY <1>0, <2>4, <2>5, <2>12 DEF DeltaInv
      <3>3. Delta(c.tree, TreeIn(hist', c.parent), c.log, used')
        BY <1>0, <2>4, <2>5, <2>6, <2>12 DEF DeltaInv
      <3>4. \A n \in 1 .. Len(hist') : n \in 1 .. Len(hist) \/ n = Len(hist) + 1
        BY <1>0, <3>1
      <3>5. \A n \in 1 .. Len(hist') : /\ Live(hist'[n].tree) \subseteq used'
                                       /\ hist'[n].parent \in 0 .. Len(hist')
        BY <1>0, <2>9, <3>1, <3>2, <3>4, SMTT(20)
      <3>6. \A n \in 2 .. Len(hist') : Delta(hist'[n].tree, TreeIn(hist', hist'[n].parent), hist'[n].log, used')
        <4>1. \A n \in 2 .. Len(hist') : n \in 2 .. Len(hist) \/ n = Len(hist) + 1
          BY <1>0, <3>1
        <4>2. QED
          BY <2>10, <3>1, <3>3, <4>1
      <3>7. QED
        BY <2>8, <3>5, <3>6 DEF DeltaInv
    <2>13. QED
      BY <2>3, <2>11, <2>12 DEF c, Writing, InSnapshot
  <1>16. QED
    BY <1>1, <1>4, <1>5, <1>6, <1>7, <1>8, <1>9, <1>10, <1>11, <1>12, <1>14, <1>15
       DEF Next, Step, Quiescent

LEMMA DeltaCorrect == Spec => [](TypeInv /\ DeltaInv)
  <1>1. Init => TypeInv /\ TreesInv /\ DeltaInv
    BY TypeInit, TreesInit, DeltaInit
  <1>2. (TypeInv /\ TreesInv /\ DeltaInv) /\ [Next]_vars => (TypeInv /\ TreesInv /\ DeltaInv)'
    BY TypeNext, TreesNext, DeltaNext
  <1>3. QED
    BY <1>1, <1>2, PTL DEF Spec

(***************************************************************************)
(* Every commit holds what its parent held plus the changes its            *)
(* transaction made to what it had read: no change is lost, for any number *)
(* of workers, branches, retries and operations of a transaction.          *)
(***************************************************************************)
THEOREM NothingLost == Spec => []NoLostUpdate
  <1>1. TypeInv /\ DeltaInv => ChangesAddUp
    <2> SUFFICES ASSUME TypeInv, DeltaInv PROVE ChangesAddUp
      OBVIOUS
    <2>1. DOMAIN hist \ {1} = 2 .. Len(hist)
      BY HistType DEF TypeInv
    <2>2. QED
      BY <2>1 DEF DeltaInv, Delta, Accounted, Before, ChangesAddUp, TreeOf, TreeIn
  <1>2. Init => TypeInv /\ PastInv /\ NoCommitLost
    BY TypeInit, RaceInit, PastInit DEF RaceInv, PastInv
  <1>3. (TypeInv /\ PastInv /\ NoCommitLost) /\ [Next]_vars
           => (TypeInv /\ PastInv /\ NoCommitLost)'
    BY TypeNext, PastNext, ClosedNext, CommitsStay DEF PastInv
  <1>4. QED
    BY <1>1, <1>2, <1>3, DeltaCorrect, PTL DEF Spec, NoLostUpdate

(***************************************************************************)
(* No commit takes the target of a reference away that an object has had   *)
(* since the parent commit.  The inductive invariant also says that the    *)
(* tree the transaction works on still has the reference, which is what    *)
(* the index of references finds before a delete.                          *)
(***************************************************************************)
THEOREM TargetsKept == Spec => []ReferencesKept
  <1>1. TypeInv /\ DeltaInv => ReferencesKept
    <2> SUFFICES ASSUME TypeInv, DeltaInv PROVE ReferencesKept
      OBVIOUS
    <2>1. DOMAIN hist \ {1} = 2 .. Len(hist)
      BY HistType DEF TypeInv
    <2>2. QED
      BY <2>1 DEF DeltaInv, Delta, Referring, ReferencesKept, TreeOf, TreeIn
  <1>2. QED
    BY <1>1, DeltaCorrect, PTL

-----------------------------------------------------------------------------
(* EmfTransactions implements EmfStore, if one thread creates the          *)
(* branches.                                                               *)

(* The effect of a log: PerformAll is a recursive function, which exists   *)
(* by induction and does to a longer log one operation more.               *)

(* There is a least number in every set of them. *)
LEMMA LeastOf ==
  ASSUME NEW T, T \subseteq Nat, T # {}
  PROVE  \E m \in T : \A k \in T : m <= k
<1> DEFINE R == OpToRel(<, Nat)
<1>1. IsWellFoundedOn(R, Nat)
  BY NatLessThanWellFounded
<1>2. \A x, y \in Nat : <<x, y>> \in R <=> x < y
  BY DEF OpToRel
<1> HIDE DEF R
<1>3. PICK m \in T : \A k \in T : <<k, m>> \notin R
  BY ONLY <1>1, T \subseteq Nat, T # {}, WFMin
<1>4. \A k \in T : m \in Nat /\ k \in Nat /\ ~ (k < m)
  BY <1>2, <1>3
<1>5. QED
  BY <1>4

AfterOne(f, log, n) ==
    IF f[n - 1] = NoTree THEN NoTree ELSE Store!Perform(f[n - 1], log[n])

(* f goes through the trees that the first m operations make of t. *)
Runs(f, t, log, m) == f = [n \in 0 .. m |-> IF n = 0 THEN t ELSE AfterOne(f, log, n)]

LEMMA RunExists ==
  ASSUME NEW t, NEW log, NEW m \in Nat
  PROVE  \E f : Runs(f, t, log, m)
<1> DEFINE T == {k \in Nat : ~ \E f : Runs(f, t, log, k)}
<1> SUFFICES ASSUME T # {} PROVE FALSE
  OBVIOUS
<1>1. PICK k \in T : \A j \in T : k <= j
  BY LeastOf
<1>2. k # 0
  <2> DEFINE f == [n \in 0 .. 0 |-> t]
  <2>1. Runs(f, t, log, 0)
    BY DEF Runs
  <2>2. QED
    BY <2>1
<1>3. k - 1 \in Nat /\ k - 1 \notin T
  BY <1>1, <1>2
<1>4. PICK g : Runs(g, t, log, k - 1)
  BY <1>3
<1> DEFINE f == [n \in 0 .. k |-> IF n = k THEN AfterOne(g, log, k) ELSE g[n]]
<1>5. \A n \in 0 .. k - 1 : f[n] = g[n]
  BY <1>3
<1>6. ASSUME NEW n \in 0 .. k PROVE f[n] = IF n = 0 THEN t ELSE AfterOne(f, log, n)
  <2>1. CASE n = k
    BY <1>2, <1>3, <1>5, <2>1 DEF AfterOne
  <2>2. CASE n # k
    <3>1. n \in 0 .. k - 1 /\ (n # 0 => n - 1 \in 0 .. k - 1)
      BY <1>3, <2>2
    <3>2. g[n] = IF n = 0 THEN t ELSE AfterOne(g, log, n)
      BY <1>4, <3>1 DEF Runs
    <3>3. QED
      BY <1>5, <3>1, <3>2 DEF AfterOne
  <2>3. QED
    BY <2>1, <2>2
<1>7. f = [n \in 0 .. k |-> f[n]]
  OBVIOUS
<1> HIDE DEF f
<1>8. Runs(f, t, log, k)
  BY <1>6, <1>7 DEF Runs
<1>9. QED
  BY <1>1, <1>8

(* Two of them agree as far as the operations do. *)
LEMMA RunsAgree ==
  ASSUME NEW t, NEW log, NEW more, NEW m \in Nat, NEW k \in Nat, m <= k,
         \A n \in 1 .. m : log[n] = more[n],
         NEW f, Runs(f, t, log, m), NEW g, Runs(g, t, more, k)
  PROVE  \A n \in 0 .. m : f[n] = g[n]
<1> DEFINE T == {n \in 0 .. m : f[n] # g[n]}
<1> SUFFICES ASSUME T # {} PROVE FALSE
  OBVIOUS
<1>1. PICK n \in T : \A j \in T : n <= j
  <2>1. T \subseteq Nat
    OBVIOUS
  <2> HIDE DEF T
  <2>2. QED
    BY <2>1, LeastOf
<1>0. n \in 0 .. m /\ n \in 0 .. k
  BY <1>1
<1>2. /\ f[n] = IF n = 0 THEN t ELSE AfterOne(f, log, n)
      /\ g[n] = IF n = 0 THEN t ELSE AfterOne(g, more, n)
  BY <1>0 DEF Runs
<1>3. n # 0 => n - 1 \in 0 .. m /\ n - 1 \notin T /\ n \in 1 .. m
  BY <1>1
<1>4. QED
  BY <1>1, <1>2, <1>3 DEF AfterOne

LEMMA PerformAllRuns ==
  ASSUME NEW t, NEW log, Len(log) \in Nat
  PROVE  \E f : Runs(f, t, log, Len(log)) /\ Store!PerformAll(t, log) = f[Len(log)]
<1> DEFINE f == CHOOSE f : Runs(f, t, log, Len(log))
<1>1. Runs(f, t, log, Len(log))
  BY RunExists
<1>2. Store!PerformAll(t, log) = f[Len(log)]
  BY DEF Store!PerformAll, Runs, AfterOne
<1>3. QED
  BY <1>1, <1>2

(* Nothing is done, and nothing happens. *)
LEMMA PerformNone ==
  ASSUME NEW t
  PROVE  Store!PerformAll(t, <<>>) = t
<1>1. PICK f : Runs(f, t, <<>>, 0) /\ Store!PerformAll(t, <<>>) = f[0]
  BY PerformAllRuns
<1>2. QED
  BY <1>1 DEF Runs

(* What is done next, is done to what there is by then. *)
LEMMA PerformOneMore ==
  ASSUME NEW S, NEW t, NEW log \in Seq(S), NEW op \in S, Store!PerformAll(t, log) # NoTree
  PROVE  Store!PerformAll(t, Append(log, op)) = Store!Perform(Store!PerformAll(t, log), op)
<1> DEFINE more == Append(log, op)
           m == Len(log)
<1>1. /\ m \in Nat /\ Len(more) = m + 1 /\ more[m + 1] = op
      /\ \A n \in 1 .. m : log[n] = more[n]
  OBVIOUS
<1> HIDE DEF more
<1>2. PICK f : Runs(f, t, log, m) /\ Store!PerformAll(t, log) = f[m]
  BY <1>1, PerformAllRuns
<1>3. PICK g : Runs(g, t, more, m + 1) /\ Store!PerformAll(t, more) = g[m + 1]
  <2>1. Len(more) \in Nat
    BY <1>1
  <2>2. QED
    BY <1>1, <2>1, PerformAllRuns
<1> HIDE DEF m
<1>4. f[m] = g[m]
  <2>1. m + 1 \in Nat /\ m <= m + 1 /\ m \in 0 .. m
    BY <1>1
  <2>2. \A n \in 0 .. m : f[n] = g[n]
    BY <1>1, <1>2, <1>3, <2>1, RunsAgree
  <2>3. QED
    BY <2>1, <2>2
<1>5. g[m + 1] = AfterOne(g, more, m + 1)
  BY <1>1, <1>3 DEF Runs
<1>6. AfterOne(g, more, m + 1) = Store!Perform(g[m], op)
  BY <1>1, <1>2, <1>4 DEF AfterOne
<1>7. QED
  BY <1>2, <1>3, <1>4, <1>5, <1>6 DEF more

-----------------------------------------------------------------------------
(* The operations of the two modules are the same.                         *)

LEMMA SameOperations ==
  ASSUME NEW t, NEW i, NEW c, NEW rev
  PROVE  /\ Store!CanCreate(t, i, c) = CanCreate(t, i, c)
         /\ Store!CanUpdate(t, i, rev, c) = CanUpdate(t, i, rev, c)
         /\ Store!CanDelete(t, i, rev) = CanDelete(t, i, rev)
         /\ Store!CanReindex(t) = CanReindex(t)
         /\ Store!Saved(t, i, c) = Saved(t, i, c)
         /\ Store!Deleted(t, i) = Deleted(t, i)
         /\ Store!Reindexed(t) = Reindexed(t)
<1>1. Store!Live(t) = Live(t) /\ Store!Key = Key
  BY DEF Store!Live, Live, Store!Key, Key
<1>2. \A d : Store!NameKeys(d) = NameKeys(d)
  BY DEF Store!NameKeys, NameKeys
<1>3. \A j, d : Store!RefKeys(t, j, d) = RefKeys(t, j, d)
  BY <1>1 DEF Store!RefKeys, RefKeys
<1>4. \A old : /\ Store!OldNameKeys(old) = OldNameKeys(old)
               /\ Store!OldRefKeys(t, i, old) = OldRefKeys(t, i, old)
  BY <1>2, <1>3 DEF Store!OldNameKeys, OldNameKeys, Store!OldRefKeys, OldRefKeys
<1>5. \A old : Store!CanUpdateIndexes(t, i, old, c) = CanUpdateIndexes(t, i, old, c)
  BY <1>2, <1>3, <1>4 DEF Store!CanUpdateIndexes, CanUpdateIndexes, Store!HasName, HasName
<1>6. \A old : Store!QNameIsUnique(t, old, c) = QNameIsUnique(t, old, c)
  BY DEF Store!QNameIsUnique, QNameIsUnique
<1>7. Store!RevisionMatches(t, i, rev) = RevisionMatches(t, i, rev)
  BY DEF Store!RevisionMatches, RevisionMatches
<1>8. Store!CanCreate(t, i, c) = CanCreate(t, i, c)
  BY <1>5, <1>6 DEF Store!CanCreate, CanCreate
<1>9. Store!CanUpdate(t, i, rev, c) = CanUpdate(t, i, rev, c)
  BY <1>5, <1>6, <1>7 DEF Store!CanUpdate, CanUpdate
<1>10. Store!CanDelete(t, i, rev) = CanDelete(t, i, rev)
  BY <1>2, <1>3, <1>7 DEF Store!CanDelete, CanDelete, Store!IsReferenced, IsReferenced
<1>11. Store!CanReindex(t) = CanReindex(t)
  BY <1>1, <1>2 DEF Store!CanReindex, CanReindex
<1>12. \A old : /\ Store!NamesAfterSave(t, i, old, c) = NamesAfterSave(t, i, old, c)
                /\ Store!RefsAfterSave(t, i, old, c) = RefsAfterSave(t, i, old, c)
  BY <1>1, <1>2, <1>3, <1>4
     DEF Store!NamesAfterSave, NamesAfterSave, Store!RefsAfterSave, RefsAfterSave
<1>13. Store!Saved(t, i, c) = Saved(t, i, c)
  BY <1>12 DEF Store!Saved, Saved
<1>14. Store!Deleted(t, i) = Deleted(t, i)
  BY <1>1, <1>2, <1>3 DEF Store!Deleted, Deleted
<1>15. Store!Reindexed(t) = Reindexed(t)
  BY <1>1, <1>2, <1>3 DEF Store!Reindexed, Reindexed
<1>16. QED
  BY <1>8, <1>9, <1>10, <1>11, <1>13, <1>14, <1>15

(* So are their effects. *)
LEMMA SameEffect ==
  ASSUME NEW t, NEW i, NEW c, NEW rev, NEW x
  PROVE  /\ CanCreate(t, i, c) =>
              Store!Perform(t, [kind |-> "create", id |-> i, rev |-> x, new |-> c]) = Saved(t, i, c)
         /\ CanUpdate(t, i, rev, c) =>
              Store!Perform(t, [kind |-> "update", id |-> i, rev |-> rev, new |-> c]) = Saved(t, i, c)
         /\ CanDelete(t, i, rev) =>
              Store!Perform(t, [kind |-> "delete", id |-> i, rev |-> rev, new |-> x]) = Deleted(t, i)
         /\ CanReindex(t) =>
              Store!Perform(t, [kind |-> "reindex", id |-> i, rev |-> rev, new |-> x]) = Reindexed(t)
  BY SameOperations DEF Store!Perform

-----------------------------------------------------------------------------
(* The inductive invariant: what a transaction works on is the effect of   *)
(* its log on its snapshot; no head is behind the snapshots of its branch; *)
(* and the past of a commit are commits before it.  So when the head that  *)
(* an update expects is in the past of the snapshot, it is the snapshot.   *)

Snapping == {"running", "resolving", "updating", "locked"}

Performed(r) ==
    /\ Store!PerformAll(TreeIn(hist, r.base), r.log) = r.tree
    /\ r.base # 0 => r.base <= head[r.branch]
    /\ r.phase \in {"updating", "locked"} => r.base <= r.expect

Fits(r) ==
    /\ r.phase # "closing" => r.outcome = "none"
    /\ r.phase \in Snapping /\ r.type # "BRANCH" => Performed(r)

PastBefore == \A n \in 1 .. Len(hist) : hist[n].past \subseteq 1 .. n

RefineInv == (\A w \in Worker : Fits(tx[w])) /\ PastBefore

StoreInv == TypeInv /\ RaceInv /\ RefineInv

(* A call as EmfStore sees it. *)
Entry(r) ==
    IF r.phase = "idle" THEN [state |-> "none", branch |-> NoTree, log |-> <<>>]
    ELSE [state  |-> IF r.outcome = "committed" THEN "done" ELSE "open",
          branch |-> r.branch,
          log    |-> r.log]

(* What EmfStore lets a call do that does not touch the store. *)
Moves(old, new) ==
    \/ new = old
    \/ /\ old.state = "none"
       /\ \E b \in Branch : new = [state |-> "open", branch |-> b, log |-> <<>>]
    \/ /\ old.state = "open"
       /\ \/ new.log = <<>>
          \/ new.log = Append(old.log, new.log[Len(new.log)])
       /\ new = [old EXCEPT !.log = new.log]
    \/ old.state \in {"open", "done"} /\ new = Store!NoCall

LEMMA StoreInvInit == Init => StoreInv /\ Store!Init
<1> SUFFICES ASSUME Init PROVE StoreInv /\ Store!Init
  OBVIOUS
<1>1. TypeInv /\ RaceInv
  BY TypeInit, RaceInit
<1>2. \A w \in Worker : tx[w] = Idle
  BY DEF Init
<1>3. \A w \in Worker : Fits(tx[w])
  BY <1>2 DEF Fits, Idle, Snapping
<1>4. PastBefore
  BY DEF Init, PastBefore
<1>5. CallOf = [w \in Worker |-> Store!NoCall]
  BY <1>2 DEF CallOf, Store!NoCall, Idle
<1>6. ASSUME NEW b \in Branch PROVE StoreOf[b] \in Tree \cup {NoTree}
  <2>1. head[b] \in 0 .. Len(hist)
    BY <1>1 DEF TypeInv, TypeOK
  <2>2. head[b] # 0 => hist[head[b]].tree \in Tree
    BY <1>1, <2>1, HistType DEF TypeInv, Commit
  <2>3. QED
    BY <2>2 DEF StoreOf
<1>7. Store!Tree = Tree
  BY DEF Store!Tree, Tree, Store!Content, Content, Store!Key, Key
<1>8. StoreOf \in [Branch -> Store!Tree \cup {NoTree}]
  BY <1>6, <1>7 DEF StoreOf
<1>9. QED
  BY <1>1, <1>3, <1>4, <1>5, <1>8 DEF StoreInv, RefineInv, Store!Init

(* A step of a transaction that moves no branch. *)
LEMMA StepMaps ==
  ASSUME StoreInv, NEW w \in Worker, NEW r, tx' = [tx EXCEPT ![w] = r],
         UNCHANGED <<hist, head>>, Fits(r), Moves(Entry(tx[w]), Entry(r))
  PROVE  RefineInv' /\ [Store!Next]_<<StoreOf, CallOf>>
<1>1. tx \in [Worker -> Transaction]
  BY DEF StoreInv, TypeInv, TypeOK
<1>2. tx'[w] = r /\ \A v \in Worker \ {w} : tx'[v] = tx[v]
  BY <1>1
<1>3. ASSUME NEW v \in Worker PROVE Fits(tx[v])'
  <2>1. Fits(tx'[v])
    BY <1>2 DEF StoreInv, RefineInv
  <2>2. QED
    BY <2>1 DEF Fits, Performed
<1>4. PastBefore'
  BY DEF StoreInv, RefineInv, PastBefore
<1>5. StoreOf' = StoreOf
  BY DEF StoreOf
<1>6. CallOf = [v \in Worker |-> Entry(tx[v])] /\ CallOf' = [v \in Worker |-> Entry(tx'[v])]
  BY DEF CallOf, Entry
<1>7. CallOf' = [CallOf EXCEPT ![w] = Entry(r)] /\ CallOf[w] = Entry(tx[w])
  BY <1>2, <1>6
<1> DEFINE old == Entry(tx[w])
           new == Entry(r)
<1> HIDE DEF old, new
<1>8. [Store!Next]_<<StoreOf, CallOf>>
  <2>0. Moves(old, new) /\ CallOf' = [CallOf EXCEPT ![w] = new] /\ CallOf[w] = old
        /\ CallOf'[w] = new
    BY <1>6, <1>7 DEF old, new
  <2>1. CASE new = old
    BY <1>5, <1>6, <2>0, <2>1
  <2>2. ASSUME old.state = "none", NEW b \in Branch,
               new = [state |-> "open", branch |-> b, log |-> <<>>]
        PROVE  Store!Next
    BY <1>5, <2>0, <2>2 DEF Store!Begin, Store!Next
  <2>3. CASE /\ old.state = "open"
             /\ \/ new.log = <<>>
                \/ new.log = Append(old.log, new.log[Len(new.log)])
             /\ new = [old EXCEPT !.log = new.log]
    <3>1. CallOf' = [CallOf EXCEPT ![w].log = new.log]
      BY <2>0, <2>3
    <3>2. Store!Gather(w)
      BY <1>5, <2>0, <2>3, <3>1 DEF Store!Gather
    <3>3. QED
      BY <3>2 DEF Store!Next
  <2>4. CASE old.state \in {"open", "done"} /\ new = Store!NoCall
    BY <1>5, <2>0, <2>4 DEF Store!Finish, Store!Next
  <2>5. QED
    BY <2>0, <2>1, <2>2, <2>3, <2>4 DEF Moves
<1>9. QED
  BY <1>3, <1>4, <1>8 DEF RefineInv

(* An operation is gathered; the tree of the transaction shows its effect. *)
LEMMA OperateMaps ==
  ASSUME StoreInv, NEW w \in Worker, Running(w), NEW op \in Op, NEW t, Operate(w, op, t),
         t = Store!Perform(tx[w].tree, op)
  PROVE  RefineInv' /\ [Store!Next]_<<StoreOf, CallOf>>
<1> DEFINE x == tx[w]
           r == [x EXCEPT !.tree = t, !.log = Append(@, op)]
<1>1. x \in Transaction
  BY DEF StoreInv, TypeInv, TypeOK
<1>2. /\ r.tree = t /\ r.log = Append(x.log, op) /\ r.base = x.base /\ r.phase = "running"
      /\ r.outcome = x.outcome /\ r.branch = x.branch /\ r.type = x.type /\ r.type # "BRANCH"
      /\ x.log \in Seq(Op) /\ x.tree \in Tree /\ x.phase = "running"
  BY <1>1 DEF Transaction, Running
<1>3. tx' = [tx EXCEPT ![w] = r] /\ UNCHANGED <<hist, head>>
  BY DEF Operate
<1> HIDE DEF r
<1>4. x.outcome = "none" /\ Performed(x)
  BY <1>2 DEF StoreInv, RefineInv, Fits, Snapping
<1>5. Store!PerformAll(TreeIn(hist, x.base), r.log) = t
  <2>1. Store!PerformAll(TreeIn(hist, x.base), x.log) = x.tree /\ x.tree # NoTree
    BY <1>2, <1>4, NoTreeIsNone DEF Performed
  <2>2. QED
    BY <1>2, <2>1, PerformOneMore
<1>6. Fits(r)
  BY <1>2, <1>4, <1>5 DEF Fits, Performed
<1>7. Moves(Entry(x), Entry(r))
  <2>1. Len(r.log) = Len(x.log) + 1 /\ r.log[Len(x.log) + 1] = op
    BY <1>2
  <2>2. /\ Entry(x) = [state |-> "open", branch |-> x.branch, log |-> x.log]
        /\ Entry(r) = [state |-> "open", branch |-> x.branch, log |-> r.log]
    BY <1>2, <1>4 DEF Entry
  <2>3. r.log = Append(x.log, r.log[Len(r.log)])
    BY <1>2, <2>1
  <2>4. QED
    BY <2>2, <2>3 DEF Moves
<1>8. QED
  BY <1>3, <1>6, <1>7, StepMaps

(* A step that leaves what the transaction has done as it is. *)
LEMMA KeepMaps ==
  ASSUME StoreInv, NEW w \in Worker, NEW r, tx' = [tx EXCEPT ![w] = r], UNCHANGED <<hist, head>>,
         tx[w].phase \notin {"idle", "closing"}, r.phase # "idle",
         r.tree = tx[w].tree, r.log = tx[w].log, r.base = tx[w].base, r.branch = tx[w].branch,
         r.type = tx[w].type,
         r.phase # "closing" => r.outcome = tx[w].outcome,
         r.phase = "closing" => r.outcome # "committed",
         r.phase \in Snapping /\ r.type # "BRANCH" => tx[w].phase \in Snapping,
         r.phase = "updating" => r.expect = head[r.branch] /\ (r.type # "BRANCH" => r.base # 0),
         r.phase = "locked" => tx[w].phase = "updating" /\ r.expect = tx[w].expect
  PROVE  RefineInv' /\ [Store!Next]_<<StoreOf, CallOf>>
<1>1. Fits(tx[w]) /\ tx[w].outcome = "none"
  BY DEF StoreInv, RefineInv, Fits
<1>2. Fits(r)
  BY <1>1 DEF Fits, Performed, Snapping
<1>3. Entry(r) = Entry(tx[w])
  BY <1>1 DEF Entry
<1>4. QED
  BY <1>2, <1>3, StepMaps DEF Moves

LEMMA CallMaps ==
  ASSUME StoreInv, NEW w \in Worker, NEW b \in Branch,
         (\E type \in Type : Call(w, b, type)) \/ (\E from \in Branch : CallCreateBranch(w, b, from))
  PROVE  RefineInv' /\ [Store!Next]_<<StoreOf, CallOf>>
<1>1. Entry(tx[w]).state = "none"
  BY DEF Entry, Call, CallCreateBranch
<1>2. ASSUME NEW r, tx' = [tx EXCEPT ![w] = r], UNCHANGED <<hist, head>>,
             r.phase \in {"locking", "branching"}, r.outcome = "none", r.branch = b, r.log = <<>>
      PROVE  RefineInv' /\ [Store!Next]_<<StoreOf, CallOf>>
  <2>1. Fits(r)
    BY <1>2 DEF Fits, Snapping
  <2>2. Entry(r) = [state |-> "open", branch |-> b, log |-> <<>>]
    BY <1>2 DEF Entry
  <2>3. QED
    BY <1>1, <1>2, <2>1, <2>2, StepMaps DEF Moves
<1>3. ASSUME NEW type \in Type, Call(w, b, type)
      PROVE  RefineInv' /\ [Store!Next]_<<StoreOf, CallOf>>
  <2> DEFINE r == Attempt(b, type, 1)
  <2>1. r.phase = "locking" /\ r.outcome = "none" /\ r.branch = b /\ r.log = <<>>
    BY DEF Attempt, Idle
  <2>2. QED
    BY <1>2, <1>3, <2>1 DEF Call
<1>4. ASSUME NEW from \in Branch, CallCreateBranch(w, b, from)
      PROVE  RefineInv' /\ [Store!Next]_<<StoreOf, CallOf>>
  <2> DEFINE r == [Idle EXCEPT !.phase = "branching", !.branch = b, !.base = head[from]]
  <2>1. r.phase = "branching" /\ r.outcome = "none" /\ r.branch = b /\ r.log = <<>>
    BY DEF Idle
  <2>2. tx' = [tx EXCEPT ![w] = r] /\ UNCHANGED <<hist, head>>
    BY <1>4 DEF CallCreateBranch
  <2> HIDE DEF r
  <2>3. QED
    BY <1>2, <2>1, <2>2
<1>5. QED
  BY <1>3, <1>4

(* The last step of an attempt, and the first one of it. *)
LEMMA CloseMaps ==
  ASSUME StoreInv, NEW w \in Worker, Close(w) \/ OpenThrows(w)
  PROVE  RefineInv' /\ [Store!Next]_<<StoreOf, CallOf>>
<1> DEFINE x == tx[w]
           again == Attempt(x.branch, x.type, x.attempt + 1)
<1>1. UNCHANGED <<hist, head>>
  BY DEF Close, OpenThrows
<1>2. Entry(x).state \in {"open", "done"}
  BY DEF Entry, Close, OpenThrows
<1>3. CASE tx' = [tx EXCEPT ![w] = Idle]
  <2>1. Fits(Idle) /\ Entry(Idle) = Store!NoCall
    BY DEF Fits, Entry, Idle, Snapping, Store!NoCall
  <2>2. QED
    BY <1>1, <1>2, <1>3, <2>1, StepMaps DEF Moves
<1>4. CASE x.phase = "closing" /\ x.outcome = "retry" /\ tx' = [tx EXCEPT ![w] = again]
  <2>1. again.phase = "locking" /\ again.outcome = "none" /\ again.branch = x.branch /\ again.log = <<>>
    BY DEF Attempt, Idle
  <2> HIDE DEF again
  <2>2. Fits(again)
    BY <2>1 DEF Fits, Snapping
  <2>3. /\ Entry(x) = [state |-> "open", branch |-> x.branch, log |-> x.log]
        /\ Entry(again) = [state |-> "open", branch |-> x.branch, log |-> <<>>]
    BY <1>4, <2>1 DEF Entry
  <2>4. Moves(Entry(x), Entry(again))
    BY <2>3 DEF Moves
  <2>5. QED
    BY <1>1, <1>4, <2>2, <2>4, StepMaps
<1>5. \/ tx' = [tx EXCEPT ![w] = Idle]
      \/ x.phase = "closing" /\ x.outcome = "retry" /\ tx' = [tx EXCEPT ![w] = again]
  <2>1. CASE OpenThrows(w)
    BY <2>1 DEF OpenThrows
  <2>2. CASE Close(w)
    <3>1. /\ x.phase = "closing"
          /\ tx' = [tx EXCEPT ![w] = IF x.outcome = "retry" /\ x.attempt < MaxAttempts
                                     THEN again ELSE Idle]
      BY <2>2 DEF Close
    <3> HIDE DEF again
    <3>2. QED
      BY <3>1
  <2>3. QED
    BY <2>1, <2>2
<1>6. QED
  BY <1>3, <1>4, <1>5

(* A snapshot is what the branch has. *)
LEMMA OpenMaps ==
  ASSUME StoreInv, NEW w \in Worker, Open(w)
  PROVE  RefineInv' /\ [Store!Next]_<<StoreOf, CallOf>>
<1> DEFINE x == tx[w]
           n == head[x.branch]
           r == [x EXCEPT !.phase = "running", !.base = n, !.tree = TreeOf(n), !.log = <<>>]
<1>1. x \in Transaction /\ x.phase = "opening"
  BY DEF StoreInv, TypeInv, TypeOK, Open
<1>2. /\ r.tree = TreeOf(n) /\ r.log = <<>> /\ r.base = n /\ r.phase = "running"
      /\ r.outcome = x.outcome /\ r.branch = x.branch
  BY <1>1 DEF Transaction
<1>3. tx' = [tx EXCEPT ![w] = r] /\ UNCHANGED <<hist, head>>
  BY DEF Open
<1>4. n \in Nat
  BY <1>1, HistType DEF StoreInv, TypeInv, TypeOK, Transaction
<1> HIDE DEF r
<1>5. x.outcome = "none"
  BY <1>1 DEF StoreInv, RefineInv, Fits
<1>6. Store!PerformAll(TreeIn(hist, n), <<>>) = TreeOf(n)
  BY PerformNone DEF TreeOf, TreeIn
<1>7. Fits(r)
  BY <1>2, <1>4, <1>5, <1>6 DEF Fits, Performed
<1>8. /\ Entry(x) = [state |-> "open", branch |-> x.branch, log |-> x.log]
      /\ Entry(r) = [state |-> "open", branch |-> x.branch, log |-> <<>>]
  BY <1>1, <1>2, <1>5 DEF Entry
<1>9. Moves(Entry(x), Entry(r))
  BY <1>8 DEF Moves
<1>10. QED
  BY <1>3, <1>7, <1>9, StepMaps

(* What f does to an object. *)
LEMMA ObjectMaps ==
  ASSUME StoreInv, NEW w \in Worker,
         CreateObject(w) \/ UpdateObject(w) \/ DeleteObject(w) \/ Reindex(w)
  PROVE  RefineInv' /\ [Store!Next]_<<StoreOf, CallOf>>
<1> DEFINE t == tx[w].tree
<1>1. TypeOK /\ used \subseteq Id
  BY DEF StoreInv, TypeInv, TypeOK
<1>2. ASSUME CreateObject(w)
      PROVE  RefineInv' /\ [Store!Next]_<<StoreOf, CallOf>>
  <2>1. PICK i \in Id \ used, shape \in Shape, R \in RefSets :
           /\ CanCreate(t, i, NewContent(shape, R, 0))
           /\ Operate(w, [kind |-> "create", id |-> i, rev |-> NoEnt,
                          new |-> NewContent(shape, R, 0)],
                      Saved(t, i, NewContent(shape, R, 0)))
    BY <1>2 DEF CreateObject
  <2> DEFINE c == NewContent(shape, R, 0)
             op == [kind |-> "create", id |-> i, rev |-> NoEnt, new |-> c]
  <2>2. c \in Content
    BY <1>1, NewContentType
  <2> HIDE DEF c
  <2>3. op \in Op
    BY <2>2 DEF Op
  <2>4. Operate(w, op, Saved(t, i, c)) /\ CanCreate(t, i, c)
    BY <2>1 DEF c
  <2>5. Saved(t, i, c) = Store!Perform(t, op)
    BY <2>4, SameEffect
  <2>6. Running(w)
    BY <1>2 DEF CreateObject, MayOperate
  <2> HIDE DEF op
  <2>7. QED
    BY <2>3, <2>4, <2>5, <2>6, OperateMaps
<1>3. ASSUME UpdateObject(w)
      PROVE  RefineInv' /\ [Store!Next]_<<StoreOf, CallOf>>
  <2>0. PICK i \in used : \E rev \in Revisions(w, i), shape \in Shape, R \in RefSets :
           /\ CanUpdate(t, i, rev, NewContent(shape, R, rev.val + 1))
           /\ Operate(w, [kind |-> "update", id |-> i, rev |-> rev,
                          new |-> NewContent(shape, R, rev.val + 1)],
                      Saved(t, i, NewContent(shape, R, rev.val + 1)))
    BY <1>3 DEF UpdateObject
  <2>1. PICK rev \in Revisions(w, i), shape \in Shape, R \in RefSets :
           /\ CanUpdate(t, i, rev, NewContent(shape, R, rev.val + 1))
           /\ Operate(w, [kind |-> "update", id |-> i, rev |-> rev,
                          new |-> NewContent(shape, R, rev.val + 1)],
                      Saved(t, i, NewContent(shape, R, rev.val + 1)))
    BY <2>0
  <2> DEFINE c == NewContent(shape, R, rev.val + 1)
             op == [kind |-> "update", id |-> i, rev |-> rev, new |-> c]
  <2>2. i \in Id /\ rev \in Content
    BY <1>1, RevisionType
  <2>3. c \in Content
    <3>1. rev.val + 1 \in Nat
      BY <2>2 DEF Content
    <3>2. QED
      BY <1>1, <3>1, NewContentType
  <2>4. Operate(w, op, Saved(t, i, c)) /\ CanUpdate(t, i, rev, c)
    BY <2>1
  <2> HIDE DEF c
  <2>5. op \in Op
    BY <2>2, <2>3 DEF Op
  <2>6. Saved(t, i, c) = Store!Perform(t, op)
    BY <2>4, SameEffect
  <2>7. Running(w)
    BY <1>3 DEF UpdateObject, MayOperate
  <2> HIDE DEF op
  <2>8. QED
    BY <2>4, <2>5, <2>6, <2>7, OperateMaps
<1>4. ASSUME DeleteObject(w)
      PROVE  RefineInv' /\ [Store!Next]_<<StoreOf, CallOf>>
  <2>0. PICK i \in used : \E rev \in Revisions(w, i) :
           /\ CanDelete(t, i, rev)
           /\ Operate(w, [kind |-> "delete", id |-> i, rev |-> rev, new |-> NoEnt], Deleted(t, i))
    BY <1>4 DEF DeleteObject
  <2>1. PICK rev \in Revisions(w, i) :
           /\ CanDelete(t, i, rev)
           /\ Operate(w, [kind |-> "delete", id |-> i, rev |-> rev, new |-> NoEnt], Deleted(t, i))
    BY <2>0
  <2> DEFINE op == [kind |-> "delete", id |-> i, rev |-> rev, new |-> NoEnt]
  <2>2. op \in Op
    BY <1>1, RevisionType DEF Op
  <2>3. Deleted(t, i) = Store!Perform(t, op)
    BY <2>1, SameEffect
  <2>4. Running(w) /\ Operate(w, op, Deleted(t, i))
    BY <1>4, <2>1 DEF DeleteObject, MayOperate
  <2> HIDE DEF op
  <2>5. QED
    BY <2>2, <2>3, <2>4, OperateMaps
<1>5. ASSUME Reindex(w)
      PROVE  RefineInv' /\ [Store!Next]_<<StoreOf, CallOf>>
  <2> DEFINE op == [kind |-> "reindex", id |-> NoId, rev |-> NoEnt, new |-> NoEnt]
  <2>1. op \in Op
    BY DEF Op
  <2>2. Running(w) /\ Operate(w, op, Reindexed(t)) /\ CanReindex(t)
    BY <1>5 DEF Reindex, MayOperate
  <2>3. Reindexed(t) = Store!Perform(t, op)
    BY <2>2, SameEffect
  <2> HIDE DEF op
  <2>4. QED
    BY <2>1, <2>2, <2>3, OperateMaps
<1>6. QED
  BY <1>2, <1>3, <1>4, <1>5

(* What goes on outside of f and leaves the branch alone. *)
LEMMA PhaseMaps ==
  ASSUME StoreInv, NEW w \in Worker,
         \/ Lock(w) \/ Throw(w) \/ Return(w) \/ CommitTree(w)
         \/ Resolve(w) \/ LockRef(w) \/ CheckBranch(w)
         \/ (UpdateRef(w) /\ Refuse(w) /\ UNCHANGED <<hist, head>>)
  PROVE  RefineInv' /\ [Store!Next]_<<StoreOf, CallOf>>
<1> DEFINE x == tx[w]
           moved(phase) == [x EXCEPT !.phase = phase]
           ended(outcome) == [x EXCEPT !.phase = "closing", !.outcome = outcome]
           resolved == [x EXCEPT !.phase = "updating", !.expect = head[x.branch]]
<1>1. x \in Transaction /\ UNCHANGED <<hist, head>>
  BY DEF StoreInv, TypeInv, TypeOK, Lock, Throw, Return, CommitTree, Resolve, LockRef, CheckBranch
<1>2. ASSUME NEW outcome \in {"returned", "failed", "retry"}, tx' = [tx EXCEPT ![w] = ended(outcome)],
             x.phase \notin {"idle", "closing"}
      PROVE  RefineInv' /\ [Store!Next]_<<StoreOf, CallOf>>
  <2> DEFINE r == ended(outcome)
  <2>1. /\ r.tree = x.tree /\ r.log = x.log /\ r.base = x.base /\ r.branch = x.branch
        /\ r.type = x.type /\ r.phase = "closing" /\ r.outcome = outcome
    BY <1>1 DEF Transaction
  <2> HIDE DEF r
  <2>2. tx' = [tx EXCEPT ![w] = r]
    BY <1>2 DEF r
  <2>3. QED
    BY <1>1, <1>2, <2>1, <2>2, KeepMaps DEF Snapping
<1>3. ASSUME NEW phase, tx' = [tx EXCEPT ![w] = moved(phase)],
             \/ phase = "opening" /\ x.phase = "locking"
             \/ phase = "resolving" /\ x.phase = "running"
             \/ phase = "resolving" /\ x.phase = "branching" /\ x.type = "BRANCH"
             \/ phase = "locked" /\ x.phase = "updating"
      PROVE  RefineInv' /\ [Store!Next]_<<StoreOf, CallOf>>
  <2> DEFINE r == moved(phase)
  <2>1. /\ r.tree = x.tree /\ r.log = x.log /\ r.base = x.base /\ r.branch = x.branch
        /\ r.type = x.type /\ r.phase = phase /\ r.outcome = x.outcome /\ r.expect = x.expect
    BY <1>1 DEF Transaction
  <2> HIDE DEF r
  <2>2. tx' = [tx EXCEPT ![w] = r]
    BY <1>3 DEF r
  <2>3. QED
    BY <1>1, <1>3, <2>1, <2>2, KeepMaps DEF Snapping
<1>4. ASSUME x.phase = "resolving", tx' = [tx EXCEPT ![w] = resolved]
      PROVE  RefineInv' /\ [Store!Next]_<<StoreOf, CallOf>>
  <2> DEFINE r == resolved
  <2>1. /\ r.tree = x.tree /\ r.log = x.log /\ r.base = x.base /\ r.branch = x.branch
        /\ r.type = x.type /\ r.phase = "updating" /\ r.outcome = x.outcome
        /\ r.expect = head[x.branch]
    BY <1>1 DEF Transaction
  <2>2. x.base # 0
    BY <1>4 DEF StoreInv, RaceInv, Orderly, Moving
  <2> HIDE DEF r
  <2>3. tx' = [tx EXCEPT ![w] = r]
    BY <1>4 DEF r
  <2>4. QED
    BY <1>1, <1>4, <2>1, <2>2, <2>3, KeepMaps DEF Snapping
<1>5. \/ /\ x.phase \notin {"idle", "closing"}
         /\ \E outcome \in {"returned", "failed", "retry"} : tx' = [tx EXCEPT ![w] = ended(outcome)]
      \/ \E phase :
            /\ tx' = [tx EXCEPT ![w] = moved(phase)]
            /\ \/ phase = "opening" /\ x.phase = "locking"
               \/ phase = "resolving" /\ x.phase = "running"
               \/ phase = "resolving" /\ x.phase = "branching" /\ x.type = "BRANCH"
               \/ phase = "locked" /\ x.phase = "updating"
      \/ x.phase = "resolving" /\ tx' = [tx EXCEPT ![w] = resolved]
  <2>0. ASSUME Refuse(w) PROVE \E outcome \in {"failed", "retry"} : tx' = [tx EXCEPT ![w] = ended(outcome)]
    BY <2>0 DEF Refuse, End
  <2>1. CASE Lock(w)
    BY <2>1 DEF Lock
  <2>2. CASE Throw(w) \/ Return(w)
    BY <2>2 DEF Throw, Return, End, Running
  <2>3. CASE CommitTree(w)
    BY <2>3 DEF CommitTree, Running
  <2>4. CASE Resolve(w)
    BY <2>4 DEF Resolve
  <2>5. CASE LockRef(w)
    BY <2>0, <2>5 DEF LockRef
  <2>6. CASE CheckBranch(w)
    BY <2>6 DEF CheckBranch, End, StoreInv, TypeInv, LockInv, BranchingIsBranch
  <2>7. CASE UpdateRef(w) /\ Refuse(w)
    BY <2>0, <2>7 DEF UpdateRef
  <2>8. QED
    BY <2>1, <2>2, <2>3, <2>4, <2>5, <2>6, <2>7
<1>6. QED
  BY ONLY <1>2, <1>3, <1>4, <1>5

(* The update of a ref that is not refused. *)
Updated(w, r) ==
    /\ tx[w].phase = "locked" /\ HeadIsExpected(w) /\ IsFastForward(w)
    /\ tx' = [tx EXCEPT ![w] = r]
    /\ r = [tx[w] EXCEPT !.phase = "closing", !.outcome = "committed"]

(* The call is done, and the others are none the worse for it. *)
LEMMA UpdatedKeeps ==
  ASSUME StoreInv, NEW w \in Worker, NEW r, Updated(w, r), NEW n,
         hist' = hist \/ hist' = Append(hist, NewCommit(w)),
         head' = [head EXCEPT ![tx[w].branch] = n],
         n \in Nat, head[tx[w].branch] <= n
  PROVE  RefineInv' /\ CallOf' = [CallOf EXCEPT ![w].state = "done"] /\ CallOf[w].state = "open"
<1> DEFINE x == tx[w]
<1>1. /\ tx \in [Worker -> Transaction] /\ head \in [Branch -> 0 .. Len(hist)]
      /\ hist \in Seq(Commit) /\ Len(hist) \in Nat
      /\ \A v \in Worker : tx[v].base \in 0 .. Len(hist) /\ tx[v].branch \in Branch
  BY HistType DEF StoreInv, TypeInv, TypeOK, LockInv, BasesExist, Transaction
<1>2. /\ r.phase = "closing" /\ r.outcome = "committed" /\ r.branch = x.branch /\ r.log = x.log
      /\ tx'[w] = r /\ \A v \in Worker \ {w} : tx'[v] = tx[v]
  BY <1>1 DEF Updated, Transaction
<1>3. \A m \in 0 .. Len(hist) : TreeIn(hist', m) = TreeIn(hist, m)
  BY <1>1, TreesStay DEF StoreInv
<1>4. \A b \in Branch : head'[b] \in Nat /\ head[b] \in Nat /\ head[b] <= head'[b]
  BY <1>1
<1>5. ASSUME NEW v \in Worker PROVE Fits(tx[v])'
  <2>1. CASE v = w
    BY <1>2, <2>1 DEF Fits, Snapping
  <2>2. CASE v # w
    <3>1. tx'[v] = tx[v] /\ Fits(tx[v])
      BY <1>2, <2>2 DEF StoreInv, RefineInv
    <3>2. Performed(tx[v]) => Performed(tx[v])'
      BY <1>1, <1>3, <1>4, <3>1 DEF Performed
    <3>3. QED
      BY <3>1, <3>2 DEF Fits
  <2>3. QED
    BY <2>1, <2>2
<1>6. PastBefore'
  <2>0. PastBefore
    BY DEF StoreInv, RefineInv
  <2>1. CASE hist' = hist
    BY <2>0, <2>1 DEF PastBefore
  <2>2. CASE hist' = Append(hist, NewCommit(w))
    <3>1. Reachable(x.base) \subseteq 1 .. Len(hist)
      <4>1. CASE x.base = 0
        BY <4>1 DEF Reachable
      <4>2. CASE x.base # 0
        <5>1. x.base \in 1 .. Len(hist)
          BY <1>1, <4>2
        <5>2. hist[x.base].past \subseteq 1 .. x.base
          BY <2>0, <5>1 DEF PastBefore
        <5>3. 1 .. x.base \subseteq 1 .. Len(hist)
          BY <1>1, <5>1
        <5>4. QED
          BY <4>2, <5>2, <5>3 DEF Reachable
      <4>3. QED
        BY <4>1, <4>2
    <3>2. NewCommit(w).past \subseteq 1 .. Len(hist) + 1
      BY <1>1, <3>1 DEF NewCommit
    <3>3. \A m \in 1 .. Len(hist') :
             \/ m \in 1 .. Len(hist) /\ hist'[m] = hist[m]
             \/ m = Len(hist) + 1 /\ hist'[m] = NewCommit(w)
      BY <1>1, <2>2
    <3>4. QED
      BY <2>0, <3>2, <3>3 DEF PastBefore
  <2>3. QED
    BY <2>1, <2>2
<1>7. x.outcome = "none" /\ x.phase = "locked"
  BY DEF StoreInv, RefineInv, Fits, Updated
<1>8. CallOf = [v \in Worker |-> Entry(tx[v])] /\ CallOf' = [v \in Worker |-> Entry(tx'[v])]
  BY DEF CallOf, Entry
<1>9. /\ Entry(x) = [state |-> "open", branch |-> x.branch, log |-> x.log]
      /\ Entry(r) = [state |-> "done", branch |-> x.branch, log |-> x.log]
  BY <1>2, <1>7 DEF Entry
<1>10. CallOf[w] = Entry(x) /\ CallOf' = [CallOf EXCEPT ![w] = Entry(r)]
  BY <1>2, <1>8
<1>11. Entry(r) = [Entry(x) EXCEPT !.state = "done"]
  BY <1>9
<1>12. RefineInv'
  BY <1>5, <1>6 DEF RefineInv
<1>13. CallOf[w].state = "open"
  BY <1>9, <1>10
<1>14. CallOf' = [CallOf EXCEPT ![w].state = "done"]
  BY <1>10, <1>11
<1>15. QED
  BY <1>12, <1>13, <1>14

(* A commit does to the head what its log says. *)
LEMMA CommitMaps ==
  ASSUME StoreInv, NEW w \in Worker, NEW r, Updated(w, r), tx[w].type # "BRANCH",
         hist' = Append(hist, NewCommit(w)),
         head' = [head EXCEPT ![tx[w].branch] = Len(hist) + 1]
  PROVE  RefineInv' /\ Store!Apply(w)
<1> DEFINE x == tx[w]
           b == x.branch
<1>1. /\ tx \in [Worker -> Transaction] /\ head \in [Branch -> 0 .. Len(hist)]
      /\ hist \in Seq(Commit) /\ Len(hist) \in Nat /\ b \in Branch /\ x.tree \in Tree
      /\ x.base \in 0 .. Len(hist)
  BY HistType DEF StoreInv, TypeInv, TypeOK, LockInv, BasesExist, Transaction
<1>2. x.phase = "locked" /\ x.base # 0 /\ head[b] # 0
  BY DEF StoreInv, RaceInv, Orderly, Moving, Updated
<1>3. Performed(x) /\ x.outcome = "none"
  BY <1>2 DEF StoreInv, RefineInv, Fits, Snapping
<1>4. head[b] = x.base
  <2>1. x.expect = head[b] /\ x.expect \in hist[x.base].past
    BY <1>2 DEF Updated, HeadIsExpected, IsFastForward, Reachable
  <2>2. hist[x.base].past \subseteq 1 .. x.base
    BY <1>1, <1>2 DEF StoreInv, RefineInv, PastBefore
  <2>3. x.base <= head[b]
    BY <1>2, <1>3 DEF Performed
  <2>4. head[b] \in 1 .. x.base
    BY <2>1, <2>2
  <2>5. QED
    BY <1>1, <2>3, <2>4
<1>5. /\ RefineInv' /\ CallOf' = [CallOf EXCEPT ![w].state = "done"] /\ CallOf[w].state = "open"
  <2> DEFINE n == Len(hist) + 1
  <2>1. n \in Nat /\ head[tx[w].branch] <= n
    BY <1>1, <1>2
  <2>2. head' = [head EXCEPT ![tx[w].branch] = n]
    OBVIOUS
  <2>3. hist' = hist \/ hist' = Append(hist, NewCommit(w))
    OBVIOUS
  <2> HIDE DEF n
  <2>4. QED
    BY <2>1, <2>2, <2>3, UpdatedKeeps
<1>6. StoreOf[b] = TreeIn(hist, x.base) /\ StoreOf[b] # NoTree
  <2>1. hist[x.base].tree \in Tree
    BY <1>1, <1>2, HistType DEF StoreInv, TypeInv, Commit
  <2>2. QED
    BY <1>1, <1>2, <1>4, <2>1, NoTreeIsNone DEF StoreOf, TreeIn
<1>7. Store!PerformAll(StoreOf[b], x.log) = x.tree /\ x.tree # NoTree
  BY <1>1, <1>3, <1>6, NoTreeIsNone DEF Performed
<1>8. StoreOf' = [StoreOf EXCEPT ![b] = x.tree]
  <2>1. hist'[Len(hist) + 1].tree = x.tree
    BY <1>1 DEF NewCommit
  <2>2. \A m \in 1 .. Len(hist) : hist'[m] = hist[m]
    BY <1>1
  <2>3. \A c \in Branch \ {b} : head'[c] = head[c] /\ head[c] \in 0 .. Len(hist)
    BY <1>1
  <2>4. head'[b] = Len(hist) + 1 /\ Len(hist) + 1 # 0
    BY <1>1
  <2>5. \A c \in Branch : StoreOf'[c] = IF c = b THEN x.tree ELSE StoreOf[c]
    BY <2>1, <2>2, <2>3, <2>4 DEF StoreOf
  <2>6. StoreOf' = [c \in Branch |-> StoreOf'[c]]
    BY ONLY DEF StoreOf
  <2>7. StoreOf' = [c \in Branch |-> IF c = b THEN x.tree ELSE StoreOf[c]]
    BY <2>5, <2>6
  <2>8. StoreOf = [c \in Branch |-> StoreOf[c]]
    BY ONLY DEF StoreOf
  <2>9. [StoreOf EXCEPT ![b] = x.tree] = [c \in Branch |-> IF c = b THEN x.tree ELSE StoreOf[c]]
    BY <2>8
  <2>10. QED
    BY <2>7, <2>9
<1>9. CallOf[w].branch = b /\ CallOf[w].log = x.log
  BY <1>2 DEF CallOf
<1>10. Store!Apply(w)
  BY <1>5, <1>6, <1>7, <1>8, <1>9 DEF Store!Apply
<1>11. QED
  BY <1>5, <1>10

(* A new branch gets a tree, and was none before. *)
LEMMA BranchMaps ==
  ASSUME StoreInv, NEW w \in Worker, NEW r, Updated(w, r), tx[w].type = "BRANCH",
         UNCHANGED hist,
         head' = [head EXCEPT ![tx[w].branch] = tx[w].base]
  PROVE  RefineInv' /\ Store!CreateBranch(w)
<1> DEFINE x == tx[w]
           b == x.branch
<1>1. /\ tx \in [Worker -> Transaction] /\ head \in [Branch -> 0 .. Len(hist)]
      /\ hist \in Seq(Commit) /\ Len(hist) \in Nat /\ b \in Branch
      /\ x.base \in 0 .. Len(hist)
  BY HistType DEF StoreInv, TypeInv, TypeOK, LockInv, BasesExist, Transaction
<1>2. x.phase = "locked" /\ x.base # 0 /\ head[b] = 0
  BY DEF StoreInv, RaceInv, Orderly, Moving, Updated
<1>3. /\ RefineInv' /\ CallOf' = [CallOf EXCEPT ![w].state = "done"] /\ CallOf[w].state = "open"
  <2> DEFINE n == tx[w].base
  <2>1. n \in Nat /\ head[tx[w].branch] <= n
    BY <1>1, <1>2
  <2>2. head' = [head EXCEPT ![tx[w].branch] = n]
    OBVIOUS
  <2>3. hist' = hist \/ hist' = Append(hist, NewCommit(w))
    OBVIOUS
  <2> HIDE DEF n
  <2>4. QED
    BY <2>1, <2>2, <2>3, UpdatedKeeps
<1>4. StoreOf[b] = NoTree
  BY <1>1, <1>2 DEF StoreOf
<1>5. StoreOf'[b] # NoTree
  <2>1. hist[x.base].tree \in Tree
    BY <1>1, <1>2, HistType DEF StoreInv, TypeInv, Commit
  <2>2. head'[b] = x.base
    BY <1>1
  <2>3. QED
    BY <1>1, <1>2, <2>1, <2>2, NoTreeIsNone DEF StoreOf
<1>6. StoreOf' = [StoreOf EXCEPT ![b] = StoreOf'[b]]
  <2>1. \A c \in Branch \ {b} : head'[c] = head[c]
    BY <1>1
  <2>2. \A c \in Branch \ {b} : StoreOf'[c] = StoreOf[c]
    BY <2>1 DEF StoreOf
  <2>3. StoreOf = [c \in Branch |-> StoreOf[c]] /\ StoreOf' = [c \in Branch |-> StoreOf'[c]]
    BY DEF StoreOf
  <2>4. QED
    BY <2>2, <2>3
<1>7. CallOf[w].branch = b
  BY <1>2 DEF CallOf
<1>8. Store!CreateBranch(w)
  BY <1>3, <1>4, <1>5, <1>6, <1>7 DEF Store!CreateBranch
<1>9. QED
  BY <1>3, <1>8

LEMMA UpdateMaps ==
  ASSUME StoreInv, NEW w \in Worker, UpdateRef(w)
  PROVE  RefineInv' /\ [Store!Next]_<<StoreOf, CallOf>>
<1> DEFINE x == tx[w]
           r == [x EXCEPT !.phase = "closing", !.outcome = "committed"]
<1>1. CASE Refuse(w) /\ UNCHANGED <<hist, head>>
  BY <1>1, PhaseMaps
<1>2. CASE Updated(w, r) /\ x.type # "BRANCH" /\ hist' = Append(hist, NewCommit(w))
           /\ head' = [head EXCEPT ![x.branch] = Len(hist) + 1]
  <2> HIDE DEF r
  <2>1. RefineInv' /\ Store!Apply(w)
    BY <1>2, CommitMaps
  <2>2. QED
    BY <2>1 DEF Store!Next
<1>3. CASE Updated(w, r) /\ x.type = "BRANCH" /\ UNCHANGED hist
           /\ head' = [head EXCEPT ![x.branch] = x.base]
  <2> HIDE DEF r
  <2>1. RefineInv' /\ Store!CreateBranch(w)
    BY <1>3, BranchMaps
  <2>2. QED
    BY <2>1 DEF Store!Next
<1>4. QED
  BY <1>1, <1>2, <1>3 DEF UpdateRef, Updated, End

LEMMA StepRefines ==
  ASSUME StoreInv, [Next]_vars
  PROVE  RefineInv' /\ [Store!Next]_<<StoreOf, CallOf>>
<1>1. CASE UNCHANGED vars
  <2>1. UNCHANGED <<hist, head, tx>>
    BY <1>1 DEF vars
  <2>2. UNCHANGED <<StoreOf, CallOf>>
    BY <2>1 DEF StoreOf, CallOf
  <2>3. RefineInv'
    BY <2>1 DEF StoreInv, RefineInv, Fits, Performed, PastBefore
  <2>4. QED
    BY <2>2, <2>3
<1>2. ASSUME NEW w \in Worker, Step(w)
      PROVE  RefineInv' /\ [Store!Next]_<<StoreOf, CallOf>>
  BY <1>2, CloseMaps, OpenMaps, ObjectMaps, PhaseMaps, UpdateMaps DEF Step
<1>3. QED
  BY <1>1, <1>2, CallMaps DEF Next, Quiescent

(***************************************************************************)
(* The calls of inTransaction and createBranch behave as if they took      *)
(* effect one at a time: with all the interleavings of its workers, all    *)
(* lost races and retries, every commit does to the head of its branch     *)
(* what the operations of its last attempt would do if they ran there      *)
(* alone, once for a call that commits and never for one that throws.      *)
(***************************************************************************)
THEOREM Atomic ==
  ASSUME OneCreator
  PROVE  Spec => CallsAreAtomic
<1>1. Init => StoreInv /\ Store!Init
  BY StoreInvInit
<1>2. StoreInv /\ [Next]_vars => StoreInv'
  BY OneCreator, TypeNext, RaceNext, StepRefines DEF StoreInv
<1>3. StoreInv /\ [Next]_vars => [Store!Next]_<<StoreOf, CallOf>>
  BY StepRefines
<1>4. QED
  BY <1>1, <1>2, <1>3, PTL DEF Spec, CallsAreAtomic, Store!Spec
=============================================================================
