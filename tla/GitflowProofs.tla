--------------------------- MODULE GitflowProofs ---------------------------
(***************************************************************************)
(* Proofs about the branches of the server, for any users, branches,       *)
(* objects and bounds.                                                     *)
(*                                                                         *)
(* That heads and tags move forward rests on the history: the past of a    *)
(* commit is closed, so what the old head of a branch reached is reached   *)
(* from the new one, and the tags are all behind the head of master, which *)
(* is never deleted.                                                       *)
(*                                                                         *)
(* That edits stay rests on where a version comes from: one commit brought *)
(* it, and the commits that have it are those that come after that one.    *)
(* That the sync misses nothing rests on what changedFiles finds between   *)
(* two commits, and on what a request knows of master while it works.      *)
(***************************************************************************)
EXTENDS Gitflow, SequenceTheorems, TLAPS

\* The past of a commit has the commit, older commits only, and their pasts.
HistoryIsClosed ==
    \A n \in DOMAIN hist :
        /\ n \in hist[n].past /\ hist[n].past \subseteq 1 .. n
        /\ \A m \in hist[n].past : hist[m].past \subseteq hist[n].past

\* Master exists for ever, and every tag is a commit of its history: TagAsSynced takes the
\* head of the repository.
TagsAreBehindMaster ==
    head[Master] # 0 /\ \A b \in Branch : tag[b] # 0 => tag[b] \in Reachable(head[Master])

\* A task has its types, starts from one of n commits, and writes files only for the
\* requests that do.
TaskFits(t, n) ==
    /\ \E F \in SUBSET File : t \in Task(F)
    /\ t.base <= n
    /\ t.pc \in {"open", "commit"} => t.op \in {"save", "delete", "export"}
    /\ t.pc = "read" => t.op = "export"

\* Every task fits the commits there are.
TasksFit == DOMAIN task = User /\ \A u \in User : TaskFits(task[u], Len(hist))

\* The inductive invariant.
GitflowInv == TypeOK /\ TasksFit /\ HistoryIsClosed /\ TagsAreBehindMaster

\* What the inductive invariant says of the history, and of the rest of the state.
HistoryOK ==
    /\ hist \in Seq(Commit)
    /\ head \in [Branch -> 0 .. Len(hist)]
    /\ tag \in [Branch -> 0 .. Len(hist)]
    /\ HistoryIsClosed /\ TagsAreBehindMaster

StateOK ==
    /\ db \in [Schema -> Content \cup {NoSchema, NoTables}]
    /\ session \in [User -> Branch]
    /\ threads \subseteq Branch
    /\ calls \in 0 .. MaxCalls
    /\ restarts \in 0 .. MaxRestarts

AbsentOK == removed \in Content /\ emptied \subseteq File

\* The commits that are reachable after a step.
After(n) == IF n = 0 THEN {} ELSE hist'[n].past

\* The steps of the two action properties.
HeadsForward == \A b \in Branch : head[b] # 0 => head'[b] = 0 \/ head[b] \in After(head'[b])

TagsForward == \A b \in Branch : tag[b] # 0 => tag[b] \in After(tag'[b])

-----------------------------------------------------------------------------
(* Tasks: a step replaces the task of one user.                            *)

\* More commits do not matter.
LEMMA FitsLater ==
  ASSUME NEW t, NEW n \in Nat, NEW m \in Nat, n <= m, TaskFits(t, n)
  PROVE  TaskFits(t, m)
<1>1. t.base \in Nat
  BY DEF TaskFits, Task
<1>2. QED
  BY <1>1 DEF TaskFits

\* The other tasks keep fitting.
LEMMA OneTaskChanges ==
  ASSUME NEW n \in Nat, NEW m \in Nat, n <= m,
         DOMAIN task = User, \A v \in User : TaskFits(task[v], n),
         NEW u \in User, NEW t, TaskFits(t, m), task' = [task EXCEPT ![u] = t]
  PROVE  DOMAIN task' = User /\ \A v \in User : TaskFits(task'[v], m)
<1>1. DOMAIN task' = User /\ task'[u] = t /\ \A v \in User \ {u} : task'[v] = task[v]
  OBVIOUS
<1>2. \A v \in User : TaskFits(task[v], m)
  BY FitsLater
<1>3. QED
  BY ONLY <1>1, <1>2, TaskFits(t, m)

\* A user without a request.
LEMMA IdleFits ==
  ASSUME NEW n \in Nat
  PROVE  TaskFits(Idle, n) /\ Idle \in Task({})
<1>1. Nothing \in [{} -> Nat]
  BY DEF Nothing
<1>2. Idle \in Task({})
  BY <1>1, GitflowConstants DEF Idle, Task
<1>3. Idle.base = 0 /\ Idle.pc = "idle"
  BY DEF Idle
<1>4. QED
  BY <1>2, <1>3 DEF TaskFits

\* The forms in which the actions write the new task.
LEMMA Reshape ==
  ASSUME NEW u \in User, DOMAIN task = User, NEW p, NEW r, NEW x, NEW f
  PROVE  /\ [task EXCEPT ![u].pc = p] = [task EXCEPT ![u] = [task[u] EXCEPT !.pc = p]]
         /\ [task EXCEPT ![u].pc = p, ![u].result = r] =
              [task EXCEPT ![u] = [task[u] EXCEPT !.pc = p, !.result = r]]
         /\ [task EXCEPT ![u].pc = p, ![u].base = x] =
              [task EXCEPT ![u] = [task[u] EXCEPT !.pc = p, !.base = x]]
         /\ [task EXCEPT ![u].pc = p, ![u].todo = x] =
              [task EXCEPT ![u] = [task[u] EXCEPT !.pc = p, !.todo = x]]
         /\ [task EXCEPT ![u].pc = p, ![u].attempt = @ + 1] =
              [task EXCEPT ![u] = [task[u] EXCEPT !.pc = p, !.attempt = @ + 1]]
         /\ [task EXCEPT ![u].todo = @ \ {f}, ![u].truncate = FALSE] =
              [task EXCEPT ![u] = [task[u] EXCEPT !.todo = @ \ {f}, !.truncate = FALSE]]
         /\ [task EXCEPT ![u].todo = @ \ {f}, ![u].temp[f] = x] =
              [task EXCEPT ![u] = [task[u] EXCEPT !.todo = @ \ {f}, !.temp = [@ EXCEPT ![f] = x]]]
OBVIOUS

\* The changes of a task: to go on, to end, to open a snapshot, to try again, to list
\* what to import, to import an object and to read one.
LEMMA GoToFits ==
  ASSUME NEW t, NEW n \in Nat, TaskFits(t, n),
         NEW p \in {"idle", "commit", "open", "remove", "tag", "import", "copy", "drop", "sync"},
         p \in {"open", "commit"} => t.op \in {"save", "delete", "export"}
  PROVE  TaskFits([t EXCEPT !.pc = p], n)
<1>1. PICK F \in SUBSET File : t \in Task(F)
  BY DEF TaskFits
<1>2. [t EXCEPT !.pc = p] \in Task(F)
  BY <1>1 DEF Task
<1>3. [t EXCEPT !.pc = p].pc = p /\ [t EXCEPT !.pc = p].op = t.op /\ [t EXCEPT !.pc = p].base = t.base
  BY <1>1 DEF Task
<1>4. QED
  BY <1>2, <1>3 DEF TaskFits

LEMMA EndFits ==
  ASSUME NEW t, NEW n \in Nat, TaskFits(t, n),
         NEW p \in {"idle", "remove"}, NEW r \in {"returned", "failed"}
  PROVE  TaskFits([t EXCEPT !.pc = p, !.result = r], n)
<1> DEFINE s == [t EXCEPT !.pc = p, !.result = r]
<1>1. PICK F \in SUBSET File : t \in Task(F)
  BY DEF TaskFits
<1>2. s \in Task(F)
  BY <1>1 DEF Task
<1>3. s.pc = p /\ s.base = t.base
  BY <1>1 DEF Task
<1> HIDE DEF s
<1>4. TaskFits(s, n)
  BY <1>2, <1>3 DEF TaskFits
<1>5. QED
  BY <1>4 DEF s

LEMMA BaseFits ==
  ASSUME NEW t, NEW n \in Nat, TaskFits(t, n), NEW p \in {"commit", "compare"}, NEW x \in 0 .. n,
         p = "commit" => t.op \in {"save", "delete", "export"}
  PROVE  TaskFits([t EXCEPT !.pc = p, !.base = x], n)
<1> DEFINE s == [t EXCEPT !.pc = p, !.base = x]
<1>0. x \in Nat /\ x <= n
  OBVIOUS
<1>1. PICK F \in SUBSET File : t \in Task(F)
  BY DEF TaskFits
<1>2. s \in Task(F)
  BY <1>0, <1>1 DEF Task
<1>3. s.pc = p /\ s.base = x /\ s.op = t.op
  BY <1>1 DEF Task
<1> HIDE DEF s
<1>4. TaskFits(s, n)
  BY <1>0, <1>2, <1>3 DEF TaskFits
<1>5. QED
  BY <1>4 DEF s

LEMMA AttemptFits ==
  ASSUME NEW t, NEW n \in Nat, TaskFits(t, n), t.attempt < MaxAttempts, t.pc = "commit"
  PROVE  TaskFits([t EXCEPT !.pc = "open", !.attempt = @ + 1], n)
<1> DEFINE s == [t EXCEPT !.pc = "open", !.attempt = @ + 1]
<1>1. PICK F \in SUBSET File : t \in Task(F)
  BY DEF TaskFits
<1>2. s \in Task(F)
  <2>1. t.attempt + 1 \in 1 .. MaxAttempts
    BY <1>1, GitflowConstants DEF Task
  <2>2. s = [t EXCEPT !.pc = "open", !.attempt = t.attempt + 1]
    BY <1>1 DEF Task
  <2> HIDE DEF s
  <2>3. QED
    BY <1>1, <2>1, <2>2 DEF Task
<1>3. s.pc = "open" /\ s.base = t.base /\ s.op = t.op
  BY <1>1 DEF Task
<1> HIDE DEF s
<1>4. TaskFits(s, n)
  BY <1>2, <1>3 DEF TaskFits
<1>5. QED
  BY <1>4 DEF s

LEMMA TodoFits ==
  ASSUME NEW t, NEW n \in Nat, TaskFits(t, n), NEW S \in SUBSET File
  PROVE  TaskFits([t EXCEPT !.pc = "import", !.todo = S], n)
<1> DEFINE s == [t EXCEPT !.pc = "import", !.todo = S]
<1>1. PICK F \in SUBSET File : t \in Task(F)
  BY DEF TaskFits
<1>2. s \in Task(F)
  BY <1>1 DEF Task
<1>3. s.pc = "import" /\ s.base = t.base
  BY <1>1 DEF Task
<1> HIDE DEF s
<1>4. TaskFits(s, n)
  BY <1>2, <1>3 DEF TaskFits
<1>5. QED
  BY <1>4 DEF s

LEMMA ImportFits ==
  ASSUME NEW t, NEW n \in Nat, TaskFits(t, n), NEW f
  PROVE  TaskFits([t EXCEPT !.todo = @ \ {f}, !.truncate = FALSE], n)
<1> DEFINE s == [t EXCEPT !.todo = @ \ {f}, !.truncate = FALSE]
<1>1. PICK F \in SUBSET File : t \in Task(F)
  BY DEF TaskFits
<1>2. s \in Task(F)
  BY <1>1 DEF Task
<1>3. s.pc = t.pc /\ s.base = t.base /\ s.op = t.op
  BY <1>1 DEF Task
<1> HIDE DEF s
<1>4. TaskFits(s, n)
  BY <1>2, <1>3 DEF TaskFits
<1>5. QED
  BY <1>4 DEF s

LEMMA ReadFits ==
  ASSUME NEW t, NEW n \in Nat, TaskFits(t, n), NEW f, NEW x \in Nat
  PROVE  TaskFits([t EXCEPT !.todo = @ \ {f}, !.temp = [@ EXCEPT ![f] = x]], n)
<1> DEFINE s == [t EXCEPT !.todo = @ \ {f}, !.temp = [@ EXCEPT ![f] = x]]
<1>1. PICK F \in SUBSET File : t \in Task(F)
  BY DEF TaskFits
<1>2. [t.temp EXCEPT ![f] = x] \in [F -> Nat]
  BY <1>1 DEF Task
<1>3. s \in Task(F)
  BY <1>1, <1>2 DEF Task
<1>4. s.pc = t.pc /\ s.base = t.base /\ s.op = t.op
  BY <1>1 DEF Task
<1> HIDE DEF s
<1>5. TaskFits(s, n)
  BY <1>3, <1>4 DEF TaskFits
<1>6. QED
  BY <1>5 DEF s

\* The tasks of new requests.
LEMMA FreshFits ==
  ASSUME NEW n \in Nat, NEW F \in SUBSET File, NEW t \in Task(F), t.base <= n,
         t.pc \in {"schema", "unpush", "merge", "idle", "import"} \/
         (t.pc = "open" /\ t.op \in {"save", "delete"}) \/ (t.pc = "read" /\ t.op = "export")
  PROVE  TaskFits(t, n)
BY DEF TaskFits

LEMMA NewEdit ==
  ASSUME NEW b \in Branch, NEW F \in SUBSET File, NEW temp \in [F -> Nat], NEW S \in SUBSET File
  PROVE  /\ [Idle EXCEPT !.pc = "open", !.op = "save", !.branch = b, !.temp = temp] \in Task(F)
         /\ [Idle EXCEPT !.pc = "open", !.op = "delete", !.branch = b, !.todo = S,
                         !.temp = temp] \in Task(F)
         /\ [Idle EXCEPT !.pc = "read", !.op = "export", !.branch = b, !.todo = S,
                         !.temp = temp] \in Task(F)
BY IdleFits DEF Task

LEMMA NewImport ==
  ASSUME NEW S \in SUBSET File, NEW x \in Nat, NEW y \in BOOLEAN
  PROVE  [Idle EXCEPT !.pc = "import", !.op = "import", !.truncate = y, !.base = x,
                      !.todo = S] \in Task({})
BY IdleFits DEF Task

LEMMA NewBranchTask ==
  ASSUME NEW b \in Branch, NEW c \in Branch
  PROVE  /\ [Idle EXCEPT !.pc = "schema", !.op = "create", !.branch = b, !.from = c] \in Task({})
         /\ [Idle EXCEPT !.pc = "unpush", !.op = "drop", !.branch = b, !.from = c] \in Task({})
         /\ \A x \in Nat, y \in BOOLEAN :
               [Idle EXCEPT !.op = "merge", !.branch = b, !.from = c, !.base = x,
                            !.pc = IF y THEN "merge" ELSE "idle"] \in Task({})
<1>1. [Idle EXCEPT !.pc = "schema", !.op = "create", !.branch = b, !.from = c] \in Task({})
  BY IdleFits DEF Task
<1>2. [Idle EXCEPT !.pc = "unpush", !.op = "drop", !.branch = b, !.from = c] \in Task({})
  BY IdleFits DEF Task
<1>3. ASSUME NEW x \in Nat, NEW p \in {"merge", "idle"}
      PROVE  [Idle EXCEPT !.op = "merge", !.branch = b, !.from = c, !.base = x, !.pc = p]
               \in Task({})
  BY IdleFits DEF Task
<1>4. QED
  BY <1>1, <1>2, <1>3

\* A new commit, and the head of one branch on it.
LEMMA CommitsEffect ==
  ASSUME hist \in Seq(Commit), head \in [Branch -> 0 .. Len(hist)], HistoryIsClosed,
         NEW b \in Branch, NEW parents \in SUBSET (0 .. Len(hist)), NEW files \in Content,
         Commits(b, parents, files)
  PROVE  /\ hist' \in Seq(Commit) /\ Len(hist') = Len(hist) + 1
         /\ \A n \in 1 .. Len(hist) : hist'[n] = hist[n]
         /\ hist'[Len(hist) + 1].past = (UNION {Reachable(p) : p \in parents}) \cup {Len(hist) + 1}
         /\ head' \in [Branch -> 0 .. Len(hist')] /\ head'[b] = Len(hist) + 1
         /\ \A c \in Branch \ {b} : head'[c] = head[c]
         /\ HistoryIsClosed'
<1> DEFINE past == (UNION {Reachable(p) : p \in parents}) \cup {Len(hist) + 1}
           c == [parents |-> parents, past |-> past, files |-> files]
<1>1. hist' = Append(hist, c) /\ head' = [head EXCEPT ![b] = Len(hist) + 1]
  BY DEF Commits
<1>2. \A p \in parents : Reachable(p) \subseteq 1 .. Len(hist)
  BY DEF Reachable, HistoryIsClosed
<1>3. past \subseteq 1 .. (Len(hist) + 1) /\ Len(hist) + 1 \in past
  <2>1. \A m \in past : m = Len(hist) + 1 \/ \E p \in parents : m \in Reachable(p)
    OBVIOUS
  <2>2. Len(hist) \in Nat /\ Len(hist) + 1 \in past
    <3>1. Len(hist) + 1 \in past
      OBVIOUS
    <3>2. QED
      BY <3>1
  <2> HIDE DEF past
  <2>3. QED
    BY <1>2, <2>1, <2>2
<1>4. \A p \in parents : \A m \in Reachable(p) : hist[m].past \subseteq Reachable(p)
  BY DEF Reachable, HistoryIsClosed
<1>5. \A m \in past : m # Len(hist) + 1 => m \in 1 .. Len(hist) /\ hist[m].past \subseteq past
  <2>1. \A p \in parents : Reachable(p) \subseteq past
    OBVIOUS
  <2>2. \A m \in past : m = Len(hist) + 1 \/ \E p \in parents : m \in Reachable(p)
    OBVIOUS
  <2> HIDE DEF past
  <2>3. QED
    BY <1>2, <1>4, <2>1, <2>2
<1> HIDE DEF past
<1>6. c.past = past /\ c \in Commit
  <2>1. parents \in SUBSET Nat /\ past \in SUBSET Nat
    BY <1>3
  <2>2. QED
    BY <2>1 DEF Commit
<1> HIDE DEF c
<1>7. /\ hist' \in Seq(Commit) /\ Len(hist') = Len(hist) + 1
      /\ \A n \in 1 .. Len(hist) : hist'[n] = hist[n]
      /\ hist'[Len(hist) + 1].past = past
  BY <1>1, <1>6
<1>8. HistoryIsClosed'
  <2>1. DOMAIN hist' = 1 .. (Len(hist) + 1) /\ DOMAIN hist = 1 .. Len(hist)
    BY <1>7
  <2>2. SUFFICES ASSUME NEW n \in 1 .. (Len(hist) + 1)
                 PROVE  /\ n \in hist'[n].past /\ hist'[n].past \subseteq 1 .. n
                        /\ \A m \in hist'[n].past : hist'[m].past \subseteq hist'[n].past
    BY <2>1 DEF HistoryIsClosed
  <2>3. CASE n \in 1 .. Len(hist)
    <3>1. hist'[n] = hist[n] /\ hist[n].past \subseteq 1 .. n /\ n \in hist[n].past
      BY <1>7, <2>1, <2>3 DEF HistoryIsClosed
    <3>2. \A m \in hist[n].past : hist'[m] = hist[m] /\ hist[m].past \subseteq hist[n].past
      BY <1>7, <2>1, <2>3, <3>1 DEF HistoryIsClosed
    <3>3. QED
      BY <3>1, <3>2
  <2>4. CASE n = Len(hist) + 1
    <3>1. hist'[n].past = past
      BY <1>7, <2>4
    <3>2. \A m \in past : hist'[m].past \subseteq past
      BY <1>5, <1>7
    <3>3. QED
      BY <1>3, <2>4, <3>1, <3>2
  <2>5. QED
    BY <2>2, <2>3, <2>4
<1>9. /\ head' \in [Branch -> 0 .. Len(hist')] /\ head'[b] = Len(hist) + 1
      /\ \A d \in Branch \ {b} : head'[d] = head[d]
  <2>1. Len(hist) \in Nat
    OBVIOUS
  <2>2. QED
    BY ONLY <1>1, <1>7, <2>1, head \in [Branch -> 0 .. Len(hist)], b \in Branch
<1>10. QED
  BY <1>7, <1>8, <1>9 DEF past

\* What a step with one of these changes preserves.
LEMMA TasksFitAgain ==
  ASSUME TypeOK, TasksFit, NEW u \in User, NEW t, Len(hist') \in Nat, Len(hist) <= Len(hist'),
         TaskFits(t, Len(hist)), task' = [task EXCEPT ![u] = t]
  PROVE  TasksFit'
<1>1. Len(hist) \in Nat
  BY DEF TypeOK
<1>2. TaskFits(t, Len(hist'))
  BY <1>1, FitsLater
<1>3. QED
  BY <1>1, <1>2, OneTaskChanges DEF TasksFit

LEMMA GoToStep ==
  ASSUME TypeOK, TasksFit, NEW u \in User, Len(hist') \in Nat, Len(hist) <= Len(hist'),
         NEW p \in {"idle", "commit", "open", "remove", "tag", "import", "copy", "drop", "sync"},
         p \in {"open", "commit"} => task[u].op \in {"save", "delete", "export"}, GoTo(u, p)
  PROVE  TasksFit'
<1>1. TaskFits(task[u], Len(hist)) /\ Len(hist) \in Nat /\ DOMAIN task = User
  BY DEF TasksFit, TypeOK
<1>2. TaskFits([task[u] EXCEPT !.pc = p], Len(hist))
  BY <1>1, GoToFits
<1>3. task' = [task EXCEPT ![u] = [task[u] EXCEPT !.pc = p]]
  BY <1>1, Reshape DEF GoTo
<1>4. QED
  BY <1>2, <1>3, TasksFitAgain

LEMMA EndStep ==
  ASSUME TypeOK, TasksFit, NEW u \in User, Len(hist') \in Nat, Len(hist) <= Len(hist'),
         NEW p \in {"idle", "remove"}, NEW r \in {"returned", "failed"},
         task' = [task EXCEPT ![u].pc = p, ![u].result = r]
  PROVE  TasksFit'
<1>1. TaskFits(task[u], Len(hist)) /\ Len(hist) \in Nat /\ DOMAIN task = User
  BY DEF TasksFit, TypeOK
<1>2. TaskFits([task[u] EXCEPT !.pc = p, !.result = r], Len(hist))
  BY <1>1, EndFits
<1>3. task' = [task EXCEPT ![u] = [task[u] EXCEPT !.pc = p, !.result = r]]
  BY <1>1, Reshape
<1>4. QED
  BY <1>2, <1>3, TasksFitAgain

LEMMA FailStep ==
  ASSUME TypeOK, TasksFit, NEW u \in User, Len(hist') \in Nat, Len(hist) <= Len(hist'), Fail(u)
  PROVE  TasksFit'
BY EndStep DEF Fail, End

LEMMA ReturnStep ==
  ASSUME TypeOK, TasksFit, NEW u \in User, Len(hist') \in Nat, Len(hist) <= Len(hist'),
         task' = [task EXCEPT ![u].pc = "tag", ![u].result = "returned"]
  PROVE  TasksFit'
<1> DEFINE t == task[u]
           s == [t EXCEPT !.pc = "tag", !.result = "returned"]
<1>1. TaskFits(t, Len(hist)) /\ Len(hist) \in Nat /\ DOMAIN task = User
  BY DEF TasksFit, TypeOK
<1>2. PICK F \in SUBSET File : t \in Task(F)
  BY <1>1 DEF TaskFits
<1>3. s \in Task(F) /\ s.pc = "tag" /\ s.base = t.base
  BY <1>2 DEF Task
<1>4. task' = [task EXCEPT ![u] = s]
  BY <1>1, Reshape
<1> HIDE DEF s
<1>5. TaskFits(s, Len(hist))
  BY <1>1, <1>3 DEF TaskFits
<1>6. QED
  BY <1>4, <1>5, TasksFitAgain

LEMMA LongerHistory ==
  ASSUME NEW b, NEW p, NEW f, Commits(b, p, f), Len(hist) \in Nat, hist \in Seq(Commit)
  PROVE  Len(hist') \in Nat /\ Len(hist) <= Len(hist') /\ hist' # hist
<1>1. Len(hist') = Len(hist) + 1
  BY DEF Commits
<1>2. QED
  BY <1>1

\* Heads are commits, rows and files are contents.
LEMMA TypesOfTables ==
  ASSUME TypeOK
  PROVE  /\ Len(hist) \in Nat /\ \A b \in Branch : head[b] \in 0 .. Len(hist)
         /\ \A u \in User : session[u] \in Branch /\ Current(u) \in Schema
         /\ \A s \in Schema : HasTables(s) => db[s] \in Content
         /\ \A n \in 0 .. Len(hist) : FilesAt(n) \in Content
<1>1. /\ Len(hist) \in Nat /\ \A b \in Branch : head[b] \in 0 .. Len(hist)
  BY DEF TypeOK
<1>2. \A u \in User : session[u] \in Branch /\ Current(u) \in Schema
  BY GitflowConstants DEF TypeOK, Current
<1>3. \A s \in Schema : HasTables(s) => db[s] \in Content
  BY DEF TypeOK, HasTables
<1>4. ASSUME NEW n \in 0 .. Len(hist) PROVE FilesAt(n) \in Content
  <2>1. CASE n = 0
    BY <2>1 DEF FilesAt, Empty, Content
  <2>2. CASE n # 0
    <3>1. hist[n] \in Commit
      BY <2>2 DEF TypeOK
    <3>2. QED
      BY <2>2, <3>1 DEF FilesAt, Commit
  <2>3. QED
    BY <2>1, <2>2
<1>5. QED
  BY <1>1, <1>2, <1>3, <1>4

\* The steps of requests.
LEMMA RequestStepFits ==
  ASSUME TypeOK, TasksFit, NEW u \in User, Step(u)
  PROVE  TasksFit'
<1>0. /\ Len(hist) \in Nat /\ DOMAIN task = User /\ TaskFits(task[u], Len(hist))
      /\ hist \in Seq(Commit)
  BY DEF TypeOK, TasksFit
<1>1. ASSUME OpenToWrite(u) PROVE TasksFit'
  <2>0. Len(hist') \in Nat /\ Len(hist) <= Len(hist')
    BY <1>0, <1>1 DEF OpenToWrite
  <2>1. CASE Exists(session[u])
    <3>1. /\ head[session[u]] \in 0 .. Len(hist) /\ task[u].op \in {"save", "delete", "export"}
          /\ task' = [task EXCEPT ![u].pc = "commit", ![u].base = head[session[u]]]
      BY <1>0, <1>1, <2>1, TypesOfTables DEF OpenToWrite, At, TaskFits
    <3>2. task' = [task EXCEPT ![u] = [task[u] EXCEPT !.pc = "commit", !.base = head[session[u]]]]
      BY <1>0, <3>1, Reshape
    <3>3. TaskFits([task[u] EXCEPT !.pc = "commit", !.base = head[session[u]]], Len(hist))
      BY <1>0, <3>1, BaseFits
    <3>4. QED
      BY <2>0, <3>2, <3>3, TasksFitAgain
  <2>2. CASE ~Exists(session[u])
    BY <1>1, <2>0, <2>2, FailStep DEF OpenToWrite
  <2>3. QED
    BY <2>1, <2>2
<1>2. ASSUME CommitFiles(u) PROVE TasksFit'
  <2>a. hist' = hist \/ \E b, p, f : Commits(b, p, f)
    BY <1>2 DEF CommitFiles
  <2>0. Len(hist') \in Nat /\ Len(hist) <= Len(hist')
    BY ONLY <1>0, <2>a, LongerHistory
  <2>1. CASE task' = [task EXCEPT ![u].pc = NextAfterCommit(task[u].op), ![u].result = "returned"]
    <3>1. task[u].op \in {"save", "delete", "export"}
      BY <1>0, <1>2 DEF CommitFiles, At, TaskFits
    <3>2. NextAfterCommit(task[u].op) \in {"idle", "remove", "tag"}
      BY <3>1 DEF NextAfterCommit
    <3>3. CASE NextAfterCommit(task[u].op) = "tag"
      BY <1>0, <2>0, <2>1, <3>3, ReturnStep
    <3>4. CASE NextAfterCommit(task[u].op) # "tag"
      BY <2>0, <2>1, <3>2, <3>4, EndStep
    <3>5. QED
      BY <3>3, <3>4
  <2>2. CASE Fail(u)
    BY <2>0, <2>2, FailStep
  <2>3. CASE MayRetry(u) /\ task' = [task EXCEPT ![u].pc = "open", ![u].attempt = @ + 1]
    <3>1. task' = [task EXCEPT ![u] = [task[u] EXCEPT !.pc = "open", !.attempt = @ + 1]]
      BY <1>0, <2>3, Reshape
    <3>2. TaskFits([task[u] EXCEPT !.pc = "open", !.attempt = @ + 1], Len(hist))
      BY <1>0, <1>2, <2>3, AttemptFits DEF CommitFiles, At, MayRetry
    <3>3. QED
      BY <2>0, <3>1, <3>2, TasksFitAgain
  <2>4. QED
    BY <1>2, <2>1, <2>2, <2>3 DEF CommitFiles
<1>3. ASSUME CommitRemove(u) PROVE TasksFit'
  <2>0. Len(hist') \in Nat /\ Len(hist) <= Len(hist')
    BY <1>0, <1>3 DEF CommitRemove
  <2>1. CASE GoTo(u, "idle")
    BY <2>0, <2>1, GoToStep
  <2>2. CASE End(u, "failed")
    BY <2>0, <2>2, EndStep DEF End
  <2>3. QED
    BY <1>3, <2>1, <2>2 DEF CommitRemove
<1>4. ASSUME ReadObject(u) PROVE TasksFit'
  <2>0. Len(hist') \in Nat /\ Len(hist) <= Len(hist')
    BY <1>0, <1>4 DEF ReadObject
  <2>1. CASE HasTables(Current(u))
    <3>1. PICK f \in task[u].todo :
             task' = [task EXCEPT ![u].todo = @ \ {f}, ![u].temp[f] = db[Current(u)][f]]
      BY <1>4, <2>1 DEF ReadObject
    <3>2. task[u].todo \subseteq File
      BY <1>0 DEF TaskFits, Task
    <3>3. db[Current(u)][f] \in Nat
      BY <2>1, <3>2, TypesOfTables DEF Content
    <3>4. task' = [task EXCEPT ![u] = [task[u] EXCEPT !.todo = @ \ {f},
                                       !.temp = [@ EXCEPT ![f] = db[Current(u)][f]]]]
      BY ONLY <1>0, <3>1, u \in User
    <3>5. TaskFits([task[u] EXCEPT !.todo = @ \ {f},
                                   !.temp = [@ EXCEPT ![f] = db[Current(u)][f]]], Len(hist))
      BY <1>0, <3>3, ReadFits
    <3>6. QED
      BY <2>0, <3>4, <3>5, TasksFitAgain
  <2>2. CASE ~HasTables(Current(u))
    BY <1>4, <2>0, <2>2, EndStep DEF ReadObject, End
  <2>3. QED
    BY <2>1, <2>2
<1>5. ASSUME WriteExport(u) PROVE TasksFit'
  <2>0. Len(hist') \in Nat /\ Len(hist) <= Len(hist')
    BY <1>0, <1>5 DEF WriteExport
  <2>1. task[u].op = "export"
    BY <1>0, <1>5 DEF WriteExport, At, TaskFits
  <2>2. QED
    BY <1>5, <2>0, <2>1, GoToStep DEF WriteExport
<1>6. ASSUME TagAsSynced(u) PROVE TasksFit'
  <2>0. Len(hist') \in Nat /\ Len(hist) <= Len(hist')
    BY <1>0, <1>6 DEF TagAsSynced
  <2>1. QED
    BY <1>6, <2>0, EndStep DEF TagAsSynced, End
<1>7. ASSUME ImportFile(u) PROVE TasksFit'
  <2>0. Len(hist') \in Nat /\ Len(hist) <= Len(hist')
    BY <1>0, <1>7 DEF ImportFile
  <2>1. PICK f : task' = [task EXCEPT ![u].todo = @ \ {f}, ![u].truncate = FALSE]
    BY <1>7 DEF ImportFile
  <2>2. task' = [task EXCEPT ![u] = [task[u] EXCEPT !.todo = @ \ {f}, !.truncate = FALSE]]
    BY <1>0, <2>1, Reshape
  <2>3. TaskFits([task[u] EXCEPT !.todo = @ \ {f}, !.truncate = FALSE], Len(hist))
    BY <1>0, ImportFits
  <2>4. QED
    BY <2>0, <2>2, <2>3, TasksFitAgain
<1>8. ASSUME EndImport(u) PROVE TasksFit'
  <2>0. Len(hist') \in Nat /\ Len(hist) <= Len(hist')
    BY <1>0, <1>8 DEF EndImport
  <2>2. QED
    BY <1>8, <2>0, GoToStep DEF EndImport
<1>9. ASSUME CreateSchema(u) PROVE TasksFit'
  <2>0. Len(hist') \in Nat /\ Len(hist) <= Len(hist')
    BY <1>0, <1>9 DEF CreateSchema
  <2>2. QED
    BY <1>9, <2>0, GoToStep DEF CreateSchema
<1>10. ASSUME CopySchema(u) PROVE TasksFit'
  <2>0. Len(hist') \in Nat /\ Len(hist) <= Len(hist')
    BY <1>0, <1>10 DEF CopySchema
  <2>2. QED
    BY <1>10, <2>0, GoToStep DEF CopySchema
<1>11. ASSUME SchemaFails(u) PROVE TasksFit'
  <2>0. Len(hist') \in Nat /\ Len(hist) <= Len(hist')
    BY <1>0, <1>11 DEF SchemaFails
  <2>1. QED
    BY <1>11, <2>0, EndStep DEF SchemaFails, End
<1>12. ASSUME PushDeletion(u) PROVE TasksFit'
  <2>0. Len(hist') \in Nat /\ Len(hist) <= Len(hist')
    BY <1>0, <1>12 DEF PushDeletion
  <2>1. CASE GoTo(u, "drop")
    BY <2>0, <2>1, GoToStep
  <2>2. CASE End(u, "failed")
    BY <2>0, <2>2, EndStep DEF End
  <2>3. QED
    BY <1>12, <2>1, <2>2 DEF PushDeletion
<1>13. ASSUME DropSchema(u) PROVE TasksFit'
  <2>0. Len(hist') \in Nat /\ Len(hist) <= Len(hist')
    BY <1>0, <1>13 DEF DropSchema
  <2>1. QED
    BY <1>13, <2>0, EndStep DEF DropSchema, End
<1>14. ASSUME GfsMerge(u) PROVE TasksFit'
  <2>a. hist' = hist \/ \E b, p, f : Commits(b, p, f)
    BY <1>14 DEF GfsMerge
  <2>0. Len(hist') \in Nat /\ Len(hist) <= Len(hist')
    BY ONLY <1>0, <2>a, LongerHistory
  <2>1. CASE GoTo(u, "sync")
    BY <2>0, <2>1, GoToStep
  <2>2. CASE End(u, "failed")
    BY <2>0, <2>2, EndStep DEF End
  <2>3. QED
    BY <1>14, <2>1, <2>2 DEF GfsMerge
<1>15. ASSUME SyncCurrentBranch(u) PROVE TasksFit'
  <2>0. Len(hist') \in Nat /\ Len(hist) <= Len(hist')
    BY <1>0, <1>15 DEF SyncCurrentBranch
  <2>1. /\ head[session[u]] \in 0 .. Len(hist)
        /\ task' = [task EXCEPT ![u].pc = "compare", ![u].base = head[session[u]]]
    BY <1>0, <1>15, TypesOfTables DEF SyncCurrentBranch
  <2>2. task' = [task EXCEPT ![u] = [task[u] EXCEPT !.pc = "compare", !.base = head[session[u]]]]
    BY <1>0, <2>1, Reshape
  <2>3. TaskFits([task[u] EXCEPT !.pc = "compare", !.base = head[session[u]]], Len(hist))
    BY <1>0, <2>1, BaseFits
  <2>4. QED
    BY <2>0, <2>2, <2>3, TasksFitAgain
<1>16. ASSUME FindChanges(u) PROVE TasksFit'
  <2>0. Len(hist') \in Nat /\ Len(hist) <= Len(hist')
    BY <1>0, <1>16 DEF FindChanges
  <2>1. CASE End(u, "failed")
    BY <2>0, <2>1, EndStep DEF End
  <2>2. CASE ~End(u, "failed")
    <3> DEFINE S == {f \in ChangedFiles(tag[session[u]], head[Master]) : FilesAt(task[u].base)[f] # 0}
    <3>1. task' = [task EXCEPT ![u].pc = "import", ![u].todo = S]
      BY <1>16, <2>2 DEF FindChanges
    <3>2. S \in SUBSET File
      BY DEF ChangedFiles
    <3> HIDE DEF S
    <3>3. task' = [task EXCEPT ![u] = [task[u] EXCEPT !.pc = "import", !.todo = S]]
      BY <1>0, <3>1, Reshape
    <3>4. TaskFits([task[u] EXCEPT !.pc = "import", !.todo = S], Len(hist))
      BY <1>0, <3>2, TodoFits
    <3>5. QED
      BY <2>0, <3>3, <3>4, TasksFitAgain
  <2>3. QED
    BY <2>1, <2>2
<1>17. ASSUME ImportFails(u) PROVE TasksFit'
  <2>0. Len(hist') \in Nat /\ Len(hist) <= Len(hist')
    BY <1>0, <1>17 DEF ImportFails
  <2>1. QED
    BY <1>17, <2>0, EndStep DEF ImportFails, End
<1>18. QED
  BY <1>1, <1>2, <1>3, <1>4, <1>5, <1>6, <1>7, <1>8, <1>9, <1>10, <1>11, <1>12, <1>13,
     <1>14, <1>15, <1>16, <1>17
  DEF Step

\* All steps.
LEMMA TasksStep ==
  ASSUME TypeOK, TasksFit, Next
  PROVE  TasksFit'
<1> SUFFICES ASSUME NEW u \in User,
                    \/ \E f \in File : SaveOrUpdate(u, f) \/ Remove(u, f)
                    \/ \E b \in Branch : \/ CreateBranch(u, b) \/ DeleteBranch(u, b)
                                         \/ SetCurrentBranch(u, b) \/ Merge(u, b)
                    \/ ExportCurrentBranch(u) \/ ImportCurrentBranch(u) \/ Login(u)
                    \/ Step(u)
             PROVE  TasksFit'
  <2>1. CASE Restart
    <3>1. task' = [v \in User |-> Idle] /\ hist' = hist /\ Len(hist) \in Nat
      BY <2>1 DEF Restart, TypeOK
    <3>2. TaskFits(Idle, Len(hist))
      BY <3>1, IdleFits
    <3>3. QED
      BY <3>1, <3>2 DEF TasksFit
  <2>2. CASE Quiescent
    BY <2>2 DEF Quiescent, vars, TasksFit
  <2>3. QED
    BY <2>1, <2>2 DEF Next
<1>0. /\ u \in User /\ Len(hist) \in Nat /\ DOMAIN task = User /\ session[u] \in Branch /\ calls \in Nat
      /\ Len(hist) <= Len(hist) /\ {} \in SUBSET File
  BY DEF TypeOK
<1>1. ASSUME NEW f \in File, SaveOrUpdate(u, f)
      PROVE  TasksFit'
  <2>1. [g \in {f} |-> calls + 2] \in [{f} -> Nat] /\ {f} \in SUBSET File
    BY <1>0, <1>1
  <2> DEFINE t == [Idle EXCEPT !.pc = "open", !.op = "save", !.branch = session[u],
                           !.temp = [g \in {f} |-> calls + 2]]
  <2>7. task' = [task EXCEPT ![u] = t] /\ hist' = hist
    BY <1>1 DEF SaveOrUpdate
  <2>8. t \in Task({f}) /\ {f} \in SUBSET File
    BY ONLY <1>0, <1>1, <2>1, GitflowConstants, NewEdit, NewImport, NewBranchTask
  <2>9. /\ t.base \in 0 .. Len(hist)
        /\ \/ t.pc \in {"schema", "unpush", "merge", "idle", "import"}
           \/ t.pc = "open" /\ t.op \in {"save", "delete"}
           \/ t.pc = "read" /\ t.op = "export"
    BY ONLY <1>0, <1>1, <2>1 DEF Idle
  <2> HIDE DEF t
  <2>10. TaskFits(t, Len(hist))
    BY ONLY <1>0, <2>8, <2>9, FreshFits
  <2>11. QED
    BY <1>0, <2>7, <2>10, TasksFitAgain
<1>2. ASSUME NEW f \in File, Remove(u, f)
      PROVE  TasksFit'
  <2>1. /\ [g \in {f} \cap Generated |-> 0] \in [{f} \cap Generated -> Nat]
        /\ {f} \in SUBSET File /\ {f} \cap Generated \in SUBSET File
    BY <1>2
  <2> DEFINE t == [Idle EXCEPT !.pc = "open", !.op = "delete", !.branch = session[u], !.todo = {f},
                           !.temp = [g \in {f} \cap Generated |-> 0]]
  <2>7. task' = [task EXCEPT ![u] = t] /\ hist' = hist
    BY <1>2 DEF Remove
  <2>8. t \in Task({f} \cap Generated) /\ {f} \cap Generated \in SUBSET File
    BY ONLY <1>0, <1>2, <2>1, GitflowConstants, NewEdit, NewImport, NewBranchTask
  <2>9. /\ t.base \in 0 .. Len(hist)
        /\ \/ t.pc \in {"schema", "unpush", "merge", "idle", "import"}
           \/ t.pc = "open" /\ t.op \in {"save", "delete"}
           \/ t.pc = "read" /\ t.op = "export"
    BY ONLY <1>0, <1>2, <2>1 DEF Idle
  <2> HIDE DEF t
  <2>10. TaskFits(t, Len(hist))
    BY ONLY <1>0, <2>8, <2>9, FreshFits
  <2>11. QED
    BY <1>0, <2>7, <2>10, TasksFitAgain
<1>3. ASSUME NEW b \in Branch, CreateBranch(u, b)
      PROVE  TasksFit'
  <2> DEFINE t == [Idle EXCEPT !.pc = "schema", !.op = "create", !.branch = b, !.from = session[u]]
  <2>7. task' = [task EXCEPT ![u] = t] /\ hist' = hist
    BY <1>3 DEF CreateBranch
  <2>8. t \in Task({}) /\ {} \in SUBSET File
    BY ONLY <1>0, <1>3, GitflowConstants, NewEdit, NewImport, NewBranchTask
  <2>9. /\ t.base \in 0 .. Len(hist)
        /\ \/ t.pc \in {"schema", "unpush", "merge", "idle", "import"}
           \/ t.pc = "open" /\ t.op \in {"save", "delete"}
           \/ t.pc = "read" /\ t.op = "export"
    BY ONLY <1>0, <1>3 DEF Idle
  <2> HIDE DEF t
  <2>10. TaskFits(t, Len(hist))
    BY ONLY <1>0, <2>8, <2>9, FreshFits
  <2>11. QED
    BY <1>0, <2>7, <2>10, TasksFitAgain
<1>4. ASSUME NEW b \in Branch, DeleteBranch(u, b)
      PROVE  TasksFit'
  <2> DEFINE t == [Idle EXCEPT !.pc = "unpush", !.op = "drop", !.branch = b, !.from = session[u]]
  <2>7. task' = [task EXCEPT ![u] = t] /\ hist' = hist
    BY <1>4 DEF DeleteBranch
  <2>8. t \in Task({}) /\ {} \in SUBSET File
    BY ONLY <1>0, <1>4, GitflowConstants, NewEdit, NewImport, NewBranchTask
  <2>9. /\ t.base \in 0 .. Len(hist)
        /\ \/ t.pc \in {"schema", "unpush", "merge", "idle", "import"}
           \/ t.pc = "open" /\ t.op \in {"save", "delete"}
           \/ t.pc = "read" /\ t.op = "export"
    BY ONLY <1>0, <1>4 DEF Idle
  <2> HIDE DEF t
  <2>10. TaskFits(t, Len(hist))
    BY ONLY <1>0, <2>8, <2>9, FreshFits
  <2>11. QED
    BY <1>0, <2>7, <2>10, TasksFitAgain
<1>5. ASSUME NEW b \in Branch, SetCurrentBranch(u, b)
      PROVE  TasksFit'
  <2>1. task' = task /\ hist' = hist
    BY <1>5 DEF SetCurrentBranch
  <2>2. QED
    BY <2>1 DEF TasksFit
<1>6. ASSUME NEW b \in Branch, Merge(u, b)
      PROVE  TasksFit'
  <2>1. head[b] \in 0 .. Len(hist) /\ head[b] \in Nat /\ Exists(b) \in BOOLEAN
    BY <1>0, <1>6, TypesOfTables DEF Exists
  <2> DEFINE t == [Idle EXCEPT !.op = "merge", !.branch = b, !.from = session[u], !.base = head[b],
                           !.pc = IF Exists(b) THEN "merge" ELSE "idle"]
  <2>7. task' = [task EXCEPT ![u] = t] /\ hist' = hist
    BY <1>6 DEF Merge
  <2>8. t \in Task({}) /\ {} \in SUBSET File
    BY ONLY <1>0, <1>6, <2>1, GitflowConstants, NewEdit, NewImport, NewBranchTask
  <2>9. /\ t.base \in 0 .. Len(hist)
        /\ \/ t.pc \in {"schema", "unpush", "merge", "idle", "import"}
           \/ t.pc = "open" /\ t.op \in {"save", "delete"}
           \/ t.pc = "read" /\ t.op = "export"
    BY ONLY <1>0, <1>6, <2>1 DEF Idle
  <2> HIDE DEF t
  <2>10. TaskFits(t, Len(hist))
    BY ONLY <1>0, <2>8, <2>9, FreshFits
  <2>11. QED
    BY <1>0, <2>7, <2>10, TasksFitAgain
<1>7. ASSUME ExportCurrentBranch(u)
      PROVE  TasksFit'
  <2>1. Empty \in [File -> Nat] /\ File \in SUBSET File
    BY DEF Empty
  <2> DEFINE t == [Idle EXCEPT !.pc = "read", !.op = "export", !.branch = session[u], !.todo = File,
                           !.temp = Empty]
  <2>7. task' = [task EXCEPT ![u] = t] /\ hist' = hist
    BY <1>7 DEF ExportCurrentBranch
  <2>8. t \in Task(File) /\ File \in SUBSET File
    BY ONLY <1>0, <1>7, <2>1, GitflowConstants, NewEdit, NewImport, NewBranchTask
  <2>9. /\ t.base \in 0 .. Len(hist)
        /\ \/ t.pc \in {"schema", "unpush", "merge", "idle", "import"}
           \/ t.pc = "open" /\ t.op \in {"save", "delete"}
           \/ t.pc = "read" /\ t.op = "export"
    BY ONLY <1>0, <1>7, <2>1 DEF Idle
  <2> HIDE DEF t
  <2>10. TaskFits(t, Len(hist))
    BY ONLY <1>0, <2>8, <2>9, FreshFits
  <2>11. QED
    BY <1>0, <2>7, <2>10, TasksFitAgain
<1>8. ASSUME ImportCurrentBranch(u)
      PROVE  TasksFit'
  <2>1. PICK y \in BOOLEAN : task' = [task EXCEPT ![u] =
           [Idle EXCEPT !.pc = "import", !.op = "import", !.truncate = y, !.base = head[session[u]],
                        !.todo = {f \in File : FilesAt(head[session[u]])[f] # 0}]]
    BY <1>8 DEF ImportCurrentBranch
  <2>2. /\ {f \in File : FilesAt(head[session[u]])[f] # 0} \in SUBSET File
        /\ head[session[u]] \in 0 .. Len(hist) /\ head[session[u]] \in Nat
    BY <1>0, TypesOfTables
  <2> DEFINE t == [Idle EXCEPT !.pc = "import", !.op = "import", !.truncate = y, !.base = head[session[u]],
                           !.todo = {f \in File : FilesAt(head[session[u]])[f] # 0}]
  <2>7. task' = [task EXCEPT ![u] = t] /\ hist' = hist
    BY <1>8, <2>1 DEF ImportCurrentBranch
  <2>8. t \in Task({}) /\ {} \in SUBSET File
    BY ONLY <1>0, <1>8, <2>2, GitflowConstants, NewEdit, NewImport, NewBranchTask
  <2>9. /\ t.base \in 0 .. Len(hist)
        /\ \/ t.pc \in {"schema", "unpush", "merge", "idle", "import"}
           \/ t.pc = "open" /\ t.op \in {"save", "delete"}
           \/ t.pc = "read" /\ t.op = "export"
    BY ONLY <1>0, <1>8, <2>2 DEF Idle
  <2> HIDE DEF t
  <2>10. TaskFits(t, Len(hist))
    BY ONLY <1>0, <2>8, <2>9, FreshFits
  <2>11. QED
    BY <1>0, <2>7, <2>10, TasksFitAgain
<1>9. ASSUME Login(u)
      PROVE  TasksFit'
  <2>1. task' = task /\ hist' = hist
    BY <1>9 DEF Login
  <2>2. QED
    BY <2>1 DEF TasksFit
<1>10. QED
  BY <1>1, <1>2, <1>3, <1>4, <1>5, <1>6, <1>7, <1>8, <1>9, RequestStepFits

-----------------------------------------------------------------------------
(* The history: heads and tags move forward.                               *)

\* A commit is reachable from itself.
LEMMA Reflexive ==
  ASSUME HistoryOK, NEW n \in 1 .. Len(hist)
  PROVE  n \in Reachable(n) /\ Reachable(n) = hist[n].past
BY DEF HistoryOK, HistoryIsClosed, Reachable

\* Steps that write no ref.
LEMMA QuietHistory ==
  ASSUME HistoryOK, UNCHANGED <<hist, head, tag>>
  PROVE  HistoryOK' /\ HeadsForward /\ TagsForward
<1>1. HistoryOK'
  BY DEF HistoryOK, HistoryIsClosed, TagsAreBehindMaster, Reachable
<1>2. \A n : After(n) = Reachable(n)
  BY DEF Reachable, After
<1>3. \A b \in Branch : head[b] \in 0 .. Len(hist) /\ tag[b] \in 0 .. Len(hist) /\ Len(hist) \in Nat
  BY DEF HistoryOK
<1>4. HeadsForward
  <2> SUFFICES ASSUME NEW b \in Branch, head[b] # 0
               PROVE  head[b] \in After(head'[b])
    BY DEF HeadsForward
  <2>1. head[b] \in 1 .. Len(hist)
    BY <1>3
  <2>2. QED
    BY <1>2, <2>1, Reflexive
<1>5. TagsForward
  <2> SUFFICES ASSUME NEW b \in Branch, tag[b] # 0
               PROVE  tag[b] \in After(tag'[b])
    BY DEF TagsForward
  <2>1. tag[b] \in 1 .. Len(hist)
    BY <1>3
  <2>2. QED
    BY <1>2, <2>1, Reflexive
<1>6. QED
  BY <1>1, <1>4, <1>5

\* A branch moves to a commit that reaches its old head.  When it is master, what its old
\* head reaches stays reachable, the tags included.
LEMMA HeadMoves ==
  ASSUME HistoryOK, NEW b \in Branch, NEW n \in 0 .. Len(hist'),
         hist' \in Seq(Commit), Len(hist) <= Len(hist'),
         \A k \in 1 .. Len(hist) : hist'[k] = hist[k], HistoryIsClosed',
         head' = [head EXCEPT ![b] = n], tag' = tag,
         b = Master => n # 0,
         head[b] # 0 /\ n # 0 => head[b] \in After(n)
  PROVE  HistoryOK' /\ HeadsForward /\ TagsForward
<1>1. /\ Len(hist) \in Nat /\ Len(hist') \in Nat /\ DOMAIN hist' = 1 .. Len(hist')
      /\ \A c \in Branch : head[c] \in 0 .. Len(hist) /\ tag[c] \in 0 .. Len(hist)
      /\ head \in [Branch -> 0 .. Len(hist)] /\ tag \in [Branch -> 0 .. Len(hist)]
  BY DEF HistoryOK
<1>2. \A k \in 0 .. Len(hist) : After(k) = Reachable(k)
  BY <1>1 DEF Reachable, After
<1>3. head'[b] = n /\ \A c \in Branch \ {b} : head'[c] = head[c]
  BY ONLY <1>1, head' = [head EXCEPT ![b] = n], b \in Branch
<1>4. head' \in [Branch -> 0 .. Len(hist')] /\ tag' \in [Branch -> 0 .. Len(hist')]
  <2>1. \A k \in 0 .. Len(hist) : k \in 0 .. Len(hist')
    BY <1>1
  <2>2. QED
    BY ONLY <1>1, <2>1, head' = [head EXCEPT ![b] = n], tag' = tag, n \in 0 .. Len(hist')
<1>5. \A k \in 1 .. Len(hist) : k \in After(k)
  <2> SUFFICES ASSUME NEW k \in 1 .. Len(hist) PROVE k \in After(k)
    OBVIOUS
  <2>1. k \in Reachable(k) /\ k \in 0 .. Len(hist)
    BY <1>1, Reflexive
  <2>2. QED
    BY <1>2, <2>1
<1>6. TagsForward
  <2> SUFFICES ASSUME NEW c \in Branch, tag[c] # 0 PROVE tag[c] \in After(tag'[c])
    BY DEF TagsForward
  <2>1. tag[c] \in 1 .. Len(hist)
    BY <1>1
  <2>2. QED
    BY <1>5, <2>1
<1>7. HeadsForward
  <2> SUFFICES ASSUME NEW c \in Branch, head[c] # 0, head'[c] # 0
               PROVE  head[c] \in After(head'[c])
    BY DEF HeadsForward
  <2>1. head[c] \in 1 .. Len(hist)
    BY <1>1
  <2>2. CASE c = b
    BY <1>3, <2>2
  <2>3. CASE c # b
    BY <1>3, <1>5, <2>1, <2>3
  <2>4. QED
    BY <2>2, <2>3
<1>8. TagsAreBehindMaster'
  <2>1. Master \in Branch /\ head[Master] # 0 /\ head[Master] \in 1 .. Len(hist)
    BY <1>1, GitflowConstants DEF HistoryOK, TagsAreBehindMaster
  <2>2. head'[Master] # 0 /\ head[Master] \in After(head'[Master])
    BY <1>3, <1>7, <2>1 DEF HeadsForward
  <2>3. head'[Master] \in 1 .. Len(hist')
    BY <1>1, <1>4, <2>1, <2>2
  <2>4. Reachable(head[Master]) \subseteq After(head'[Master])
    <3>1. After(head[Master]) \subseteq After(head'[Master])
      <4>1. /\ After(head'[Master]) = hist'[head'[Master]].past
            /\ After(head[Master]) = hist'[head[Master]].past
        BY <2>1, <2>2 DEF After
      <4>2. QED
        BY <1>1, <2>2, <2>3, <4>1 DEF HistoryIsClosed
    <3>2. QED
      BY <1>1, <1>2, <2>1, <3>1
  <2>5. \A c \in Branch : tag[c] # 0 => tag[c] \in Reachable(head[Master])
    BY DEF HistoryOK, TagsAreBehindMaster
  <2>6. \A c \in Branch : tag'[c] # 0 => tag'[c] \in After(head'[Master])
    BY <2>4, <2>5
  <2>7. QED
    BY <2>2, <2>6 DEF TagsAreBehindMaster, Reachable, After
<1>9. QED
  BY <1>4, <1>6, <1>7, <1>8 DEF HistoryOK

\* A branch moves to a new commit.
LEMMA CommitMoves ==
  ASSUME HistoryOK, NEW b \in Branch, NEW parents \in SUBSET (0 .. Len(hist)),
         NEW files \in Content, Commits(b, parents, files), tag' = tag,
         head[b] # 0 => \E p \in parents : head[b] \in Reachable(p)
  PROVE  HistoryOK' /\ HeadsForward /\ TagsForward
<1> DEFINE n == Len(hist) + 1
<1>1. /\ hist' \in Seq(Commit) /\ Len(hist') = n
      /\ \A k \in 1 .. Len(hist) : hist'[k] = hist[k]
      /\ hist'[n].past = (UNION {Reachable(p) : p \in parents}) \cup {n}
      /\ HistoryIsClosed'
  BY CommitsEffect DEF HistoryOK
<1>2. Len(hist) \in Nat /\ n \in 0 .. Len(hist') /\ n # 0 /\ Len(hist) <= Len(hist')
  BY <1>1 DEF HistoryOK
<1>3. head' = [head EXCEPT ![b] = n]
  BY DEF Commits
<1>4. head[b] # 0 => head[b] \in After(n)
  <2>1. head[b] # 0 => head[b] \in hist'[n].past
    BY <1>1
  <2>2. After(n) = hist'[n].past
    BY <1>2 DEF After
  <2>3. QED
    BY <2>1, <2>2
<1> HIDE DEF n
<1>5. QED
  BY ONLY HistoryOK, b \in Branch, tag' = tag, <1>1, <1>2, <1>3, <1>4, HeadMoves

\* All steps.
LEMMA HistoryStep ==
  ASSUME TypeOK, TasksFit, HistoryOK, Next
  PROVE  HistoryOK' /\ HeadsForward /\ TagsForward
<1> DEFINE Good == HistoryOK' /\ HeadsForward /\ TagsForward
<1>0. /\ Len(hist) \in Nat /\ \A c \in Branch : head[c] \in 0 .. Len(hist)
      /\ head[Master] # 0 /\ Master \in Branch
      /\ \A v \in User : session[v] \in Branch
      /\ \A v \in User : task[v].branch \in Branch /\ task[v].from \in Branch
                       /\ task[v].base \in 0 .. Len(hist)
      /\ \A n \in 0 .. Len(hist) : FilesAt(n) \in Content
      /\ hist \in Seq(Commit) /\ HistoryIsClosed
  <2>1. \A v \in User : task[v].branch \in Branch /\ task[v].from \in Branch
                       /\ task[v].base \in 0 .. Len(hist)
    BY DEF TypeOK, TasksFit, TaskFits, Task
  <2>2. QED
    BY <2>1, TypesOfTables, GitflowConstants DEF HistoryOK, TagsAreBehindMaster
<1>1. ASSUME NEW u \in User, NEW b \in Branch, CreateBranch(u, b) PROVE Good
  <2>1. /\ head[b] = 0 /\ head' = [head EXCEPT ![b] = head[session[u]]] /\ hist' = hist /\ tag' = tag
    BY <1>1 DEF CreateBranch, Exists
  <2>2. b # Master /\ head[session[u]] \in 0 .. Len(hist') /\ HistoryIsClosed'
        /\ hist' \in Seq(Commit) /\ Len(hist) <= Len(hist')
    BY <1>0, <2>1 DEF HistoryIsClosed
  <2>3. QED
    BY ONLY HistoryOK, <1>1, <2>1, <2>2, HeadMoves
<1>2. ASSUME NEW u \in User, NEW b \in Branch, DeleteBranch(u, b) PROVE Good
  <2>1. /\ b # Master /\ head' = [head EXCEPT ![b] = 0] /\ hist' = hist /\ tag' = tag
    BY <1>2 DEF DeleteBranch
  <2>2. 0 \in 0 .. Len(hist') /\ HistoryIsClosed'
        /\ hist' \in Seq(Commit) /\ Len(hist) <= Len(hist')
    BY <1>0, <2>1 DEF HistoryIsClosed
  <2>3. QED
    BY ONLY HistoryOK, <1>2, <2>1, <2>2, HeadMoves
<1>3. ASSUME NEW u \in User, TagAsSynced(u) PROVE Good
  <2>1. /\ tag' = [tag EXCEPT ![session[u]] = head[Master]] /\ hist' = hist /\ head' = head
    BY <1>3 DEF TagAsSynced, HeadOfRepository
  <2>2. tag \in [Branch -> 0 .. Len(hist)] /\ head \in [Branch -> 0 .. Len(hist)]
    BY DEF HistoryOK
  <2>3. /\ tag'[session[u]] = head[Master] /\ \A c \in Branch \ {session[u]} : tag'[c] = tag[c]
        /\ tag' \in [Branch -> 0 .. Len(hist)]
    BY ONLY <1>0, <1>3, <2>1, <2>2
  <2>4. \A n : After(n) = Reachable(n)
    BY <2>1 DEF Reachable, After
  <2>5. \A n \in 1 .. Len(hist) : n \in Reachable(n)
    BY Reflexive
  <2>6. \A c \in Branch : tag[c] # 0 => tag[c] \in Reachable(head[Master])
    BY DEF HistoryOK, TagsAreBehindMaster
  <2>7. \A n \in 0 .. Len(hist) : n # 0 => n \in Reachable(n)
    BY <1>0, <2>5
  <2>8. HeadsForward
    BY ONLY <1>0, <2>1, <2>4, <2>7 DEF HeadsForward
  <2>9. TagsForward
    <3> SUFFICES ASSUME NEW c \in Branch, tag[c] # 0 PROVE tag[c] \in After(tag'[c])
      BY DEF TagsForward
    <3>1. CASE c = session[u]
      BY <2>3, <2>4, <2>6, <3>1
    <3>2. CASE c # session[u]
      BY <2>2, <2>3, <2>4, <2>7, <3>2
    <3>3. QED
      BY <3>1, <3>2
  <2>10. TagsAreBehindMaster'
    <3>1. \A c \in Branch : tag'[c] # 0 => tag'[c] \in Reachable(head[Master])
      BY ONLY <1>0, <2>3, <2>6, <2>7
    <3>2. QED
      BY ONLY <1>0, <2>1, <2>4, <3>1 DEF TagsAreBehindMaster, Reachable, After
  <2>11. HistoryIsClosed'
    BY <1>0, <2>1 DEF HistoryIsClosed
  <2>12. QED
    BY <1>0, <2>1, <2>2, <2>3, <2>8, <2>9, <2>10, <2>11 DEF HistoryOK
<1>4. ASSUME NEW u \in User, CommitFiles(u) PROVE Good
  <2> DEFINE files == Overlay(task[u].temp, FilesAt(task[u].base))
  <2>1. CASE hist' = hist /\ head' = head
    BY <1>4, <2>1, QuietHistory DEF CommitFiles
  <2>2. CASE ~(hist' = hist /\ head' = head)
    <3>1. /\ CanMove(session[u], Reachable(task[u].base))
          /\ Commits(session[u], {task[u].base}, files) /\ tag' = tag
      BY <1>4, <2>2 DEF CommitFiles
    <3>2. files \in Content
      <4>1. PICK F \in SUBSET File : task[u] \in Task(F)
        BY DEF TypeOK
      <4>2. task[u].temp \in [F -> Nat] /\ FilesAt(task[u].base) \in [File -> Nat]
        BY <1>0, <4>1 DEF Task, Content
      <4>3. QED
        BY <4>2 DEF Overlay, Content
    <3>3. head[session[u]] # 0 => \E p \in {task[u].base} : head[session[u]] \in Reachable(p)
      BY <3>1 DEF CanMove
    <3>4. session[u] \in Branch /\ {task[u].base} \in SUBSET (0 .. Len(hist))
      BY <1>0
    <3> HIDE DEF files
    <3>5. QED
      BY ONLY HistoryOK, <3>1, <3>2, <3>3, <3>4, CommitMoves
  <2>3. QED
    BY <2>1, <2>2
<1>5. ASSUME NEW u \in User, GfsMerge(u) PROVE Good
  <2> DEFINE to == task[u].branch
             ours == task[u].base
             theirs == head[task[u].from]
  <2>0. to \in Branch /\ ours \in 0 .. Len(hist) /\ theirs \in 0 .. Len(hist)
    BY <1>0
  <2>1. CASE hist' = hist /\ head' = head
    BY <1>5, <2>1, QuietHistory DEF GfsMerge
  <2>2. CASE hist' = hist /\ head' # head
    <3>1. /\ theirs # 0 /\ CanMove(to, Reachable(ours) \cup Reachable(theirs))
          /\ ours \in Reachable(theirs)
          /\ head' = [head EXCEPT ![to] = theirs] /\ tag' = tag /\ hist' = hist
      <4>1. ~\E b, p, f : Commits(b, p, f)
        BY <1>0, <2>2, LongerHistory
      <4>2. QED
        BY <1>5, <2>2, <4>1 DEF GfsMerge
    <3>2. Reachable(ours) \subseteq Reachable(theirs)
      BY <1>0, <2>0, <3>1 DEF HistoryIsClosed, Reachable
    <3>3. head[to] # 0 => head[to] \in After(theirs)
      BY <3>1, <3>2 DEF CanMove, Reachable, After
    <3>4. HistoryIsClosed' /\ hist' \in Seq(Commit) /\ Len(hist) <= Len(hist')
      BY <1>0, <3>1 DEF HistoryIsClosed
    <3> HIDE DEF to, ours, theirs
    <3>5. QED
      BY ONLY HistoryOK, <2>0, <3>1, <3>3, <3>4, HeadMoves
  <2>3. CASE hist' # hist
    <3>1. /\ CanMove(to, Reachable(ours) \cup Reachable(theirs)) /\ tag' = tag
          /\ \E base \in MergeBases(ours, theirs) :
                Commits(to, {ours, theirs}, Merged(base, ours, theirs))
      BY <1>5, <2>3 DEF GfsMerge
    <3>2. PICK base : Commits(to, {ours, theirs}, Merged(base, ours, theirs))
      BY <3>1
    <3>3. Merged(base, ours, theirs) \in Content
      BY <1>0, <2>0 DEF Merged, Content
    <3>4. head[to] # 0 => \E p \in {ours, theirs} : head[to] \in Reachable(p)
      BY <3>1 DEF CanMove
    <3>5. {ours, theirs} \in SUBSET (0 .. Len(hist))
      BY <2>0
    <3> HIDE DEF to, ours, theirs
    <3>6. QED
      BY ONLY HistoryOK, <2>0, <3>1, <3>2, <3>3, <3>4, <3>5, CommitMoves
  <2>4. QED
    BY <2>1, <2>2, <2>3
<1>6. ASSUME UNCHANGED <<hist, head, tag>> PROVE Good
  BY <1>6, QuietHistory
<1>7. ASSUME NEW u \in User, Step(u) PROVE Good
  BY <1>3, <1>4, <1>5, <1>6, <1>7 DEF Step, OpenToWrite, CommitRemove, ReadObject, WriteExport,
     ImportFile, ImportFails, EndImport, CreateSchema, CopySchema, SchemaFails, PushDeletion, DropSchema,
     SyncCurrentBranch, FindChanges
<1>8. CASE Restart \/ Quiescent
  BY <1>6, <1>8 DEF Restart, Quiescent, vars
<1>9. ASSUME NEW u \in User,
             \/ \E f \in File : SaveOrUpdate(u, f) \/ Remove(u, f)
             \/ \E b \in Branch : SetCurrentBranch(u, b) \/ Merge(u, b)
             \/ ExportCurrentBranch(u) \/ ImportCurrentBranch(u) \/ Login(u)
      PROVE  Good
  BY <1>6, <1>9 DEF SaveOrUpdate, Remove, SetCurrentBranch, Merge, ExportCurrentBranch,
     ImportCurrentBranch, Login
<1>10. QED
  BY <1>1, <1>2, <1>7, <1>8, <1>9 DEF Next

-----------------------------------------------------------------------------
(* The rest of the state.                                                  *)

LEMMA StateStep ==
  ASSUME TypeOK, TasksFit, Next
  PROVE  StateOK'
<1>a. /\ Master \in Branch
      /\ db \in [Schema -> Content \cup {NoSchema, NoTables}] /\ session \in [User -> Branch]
      /\ threads \subseteq Branch /\ calls \in 0 .. MaxCalls /\ restarts \in 0 .. MaxRestarts
      /\ \A v \in User : Current(v) \in Schema
      /\ \A s \in Schema : HasTables(s) => db[s] \in Content
      /\ MaxCalls \in Nat /\ MaxRestarts \in Nat /\ Empty \in Content
  BY TypesOfTables, GitflowConstants DEF TypeOK, Empty, Content
<1>b. \A v \in User : /\ SchemaOf[task[v].branch] \in Schema /\ SchemaOf[task[v].from] \in Schema
                      /\ task[v].branch \in Branch /\ task[v].from \in Branch
                      /\ task[v].base \in 0 .. Len(hist)
  <2>1. \A v \in User : task[v].branch \in Branch /\ task[v].from \in Branch /\ task[v].base \in 0 .. Len(hist)
    BY DEF TypeOK, TasksFit, TaskFits, Task
  <2>2. QED
    BY <2>1, GitflowConstants
<1>1. ASSUME NEW u \in User, OpenToWrite(u)
      PROVE  StateOK'
  <2>1. db' \in [Schema -> Content \cup {NoSchema, NoTables}]
    BY <1>a, <1>b, <1>1 DEF OpenToWrite
  <2>2. session' \in [User -> Branch] /\ threads' \subseteq Branch
    BY <1>a, <1>b, <1>1 DEF OpenToWrite
  <2>3. calls' \in 0 .. MaxCalls /\ restarts' \in 0 .. MaxRestarts
    BY <1>a, <1>1 DEF OpenToWrite
  <2>4. QED
    BY <2>1, <2>2, <2>3 DEF StateOK
<1>2. ASSUME NEW u \in User, CommitFiles(u)
      PROVE  StateOK'
  <2>1. db' \in [Schema -> Content \cup {NoSchema, NoTables}]
    BY <1>a, <1>b, <1>2 DEF CommitFiles
  <2>2. session' \in [User -> Branch] /\ threads' \subseteq Branch
    BY <1>a, <1>b, <1>2 DEF CommitFiles
  <2>3. calls' \in 0 .. MaxCalls /\ restarts' \in 0 .. MaxRestarts
    BY <1>a, <1>2 DEF CommitFiles
  <2>4. QED
    BY <2>1, <2>2, <2>3 DEF StateOK
<1>3. ASSUME NEW u \in User, CommitRemove(u)
      PROVE  StateOK'
  <2>1. db' \in [Schema -> Content \cup {NoSchema, NoTables}]
    <3>1. CASE HasTables(Current(u))
      <4>1. db' = [db EXCEPT ![Current(u)] =
                     [f \in File |-> IF f \in task[u].todo THEN 0 ELSE @[f]]]
        BY <1>3, <3>1 DEF CommitRemove
      <4>2. [f \in File |-> IF f \in task[u].todo THEN 0 ELSE db[Current(u)][f]] \in Content
        BY <1>a, <3>1 DEF Content
      <4>3. QED
        BY <1>a, <4>1, <4>2
    <3>2. CASE ~HasTables(Current(u))
      BY <1>a, <1>3, <3>2 DEF CommitRemove
    <3>3. QED
      BY <3>1, <3>2
  <2>2. session' \in [User -> Branch] /\ threads' \subseteq Branch
    BY <1>a, <1>b, <1>3 DEF CommitRemove, Content
  <2>3. calls' \in 0 .. MaxCalls /\ restarts' \in 0 .. MaxRestarts
    BY <1>a, <1>3 DEF CommitRemove, Content
  <2>4. QED
    BY <2>1, <2>2, <2>3 DEF StateOK
<1>4. ASSUME NEW u \in User, ReadObject(u)
      PROVE  StateOK'
  <2>1. db' \in [Schema -> Content \cup {NoSchema, NoTables}]
    BY <1>a, <1>b, <1>4 DEF ReadObject
  <2>2. session' \in [User -> Branch] /\ threads' \subseteq Branch
    BY <1>a, <1>b, <1>4 DEF ReadObject
  <2>3. calls' \in 0 .. MaxCalls /\ restarts' \in 0 .. MaxRestarts
    BY <1>a, <1>4 DEF ReadObject
  <2>4. QED
    BY <2>1, <2>2, <2>3 DEF StateOK
<1>5. ASSUME NEW u \in User, WriteExport(u)
      PROVE  StateOK'
  <2>1. db' \in [Schema -> Content \cup {NoSchema, NoTables}]
    BY <1>a, <1>b, <1>5 DEF WriteExport
  <2>2. session' \in [User -> Branch] /\ threads' \subseteq Branch
    BY <1>a, <1>b, <1>5 DEF WriteExport
  <2>3. calls' \in 0 .. MaxCalls /\ restarts' \in 0 .. MaxRestarts
    BY <1>a, <1>5 DEF WriteExport
  <2>4. QED
    BY <2>1, <2>2, <2>3 DEF StateOK
<1>6. ASSUME NEW u \in User, TagAsSynced(u)
      PROVE  StateOK'
  <2>1. db' \in [Schema -> Content \cup {NoSchema, NoTables}]
    BY <1>a, <1>b, <1>6 DEF TagAsSynced
  <2>2. session' \in [User -> Branch] /\ threads' \subseteq Branch
    BY <1>a, <1>b, <1>6 DEF TagAsSynced
  <2>3. calls' \in 0 .. MaxCalls /\ restarts' \in 0 .. MaxRestarts
    BY <1>a, <1>6 DEF TagAsSynced
  <2>4. QED
    BY <2>1, <2>2, <2>3 DEF StateOK
<1>7. ASSUME NEW u \in User, ImportFile(u)
      PROVE  StateOK'
  <2>1. db' \in [Schema -> Content \cup {NoSchema, NoTables}]
    <3>1. CASE db' = db
      BY <1>a, <3>1
    <3>2. CASE db' # db
      <4>1. PICK f \in task[u].todo :
               /\ HasTables(Current(u))
               /\ db' = [db EXCEPT ![Current(u)] = [Rows(u) EXCEPT ![f] = FilesAt(task[u].base)[f]]]
        BY <1>7, <3>2 DEF ImportFile
      <4>2. f \in File
        BY DEF TypeOK, Task
      <4>3. Rows(u) \in Content /\ FilesAt(task[u].base) \in Content
        BY <1>a, <1>b, <4>1, TypesOfTables DEF Rows
      <4>4. [Rows(u) EXCEPT ![f] = FilesAt(task[u].base)[f]] \in Content
        BY <4>2, <4>3 DEF Content
      <4>5. QED
        BY <1>a, <4>1, <4>4
    <3>3. QED
      BY <3>1, <3>2
  <2>2. session' \in [User -> Branch] /\ threads' \subseteq Branch
    BY <1>a, <1>b, <1>7 DEF ImportFile, Rows, Content
  <2>3. calls' \in 0 .. MaxCalls /\ restarts' \in 0 .. MaxRestarts
    BY <1>a, <1>7 DEF ImportFile, Rows, Content
  <2>4. QED
    BY <2>1, <2>2, <2>3 DEF StateOK
<1>8. ASSUME NEW u \in User, EndImport(u)
      PROVE  StateOK'
  <2>1. db' \in [Schema -> Content \cup {NoSchema, NoTables}]
    BY <1>a, <1>b, <1>8 DEF EndImport
  <2>2. session' \in [User -> Branch] /\ threads' \subseteq Branch
    BY <1>a, <1>b, <1>8 DEF EndImport
  <2>3. calls' \in 0 .. MaxCalls /\ restarts' \in 0 .. MaxRestarts
    BY <1>a, <1>8 DEF EndImport
  <2>4. QED
    BY <2>1, <2>2, <2>3 DEF StateOK
<1>9. ASSUME NEW u \in User, CreateSchema(u)
      PROVE  StateOK'
  <2>1. db' \in [Schema -> Content \cup {NoSchema, NoTables}]
    BY <1>a, <1>b, <1>9 DEF CreateSchema
  <2>2. session' \in [User -> Branch] /\ threads' \subseteq Branch
    BY <1>a, <1>b, <1>9 DEF CreateSchema
  <2>3. calls' \in 0 .. MaxCalls /\ restarts' \in 0 .. MaxRestarts
    BY <1>a, <1>9 DEF CreateSchema
  <2>4. QED
    BY <2>1, <2>2, <2>3 DEF StateOK
<1>10. ASSUME NEW u \in User, CopySchema(u)
      PROVE  StateOK'
  <2>1. db' \in [Schema -> Content \cup {NoSchema, NoTables}]
    BY <1>a, <1>b, <1>10 DEF CopySchema, SetSession, OrMaster
  <2>2. session' \in [User -> Branch] /\ threads' \subseteq Branch
    BY <1>a, <1>b, <1>10 DEF CopySchema, SetSession, OrMaster
  <2>3. calls' \in 0 .. MaxCalls /\ restarts' \in 0 .. MaxRestarts
    BY <1>a, <1>10 DEF CopySchema, SetSession, OrMaster
  <2>4. QED
    BY <2>1, <2>2, <2>3 DEF StateOK
<1>11. ASSUME NEW u \in User, SchemaFails(u)
      PROVE  StateOK'
  <2>1. db' \in [Schema -> Content \cup {NoSchema, NoTables}]
    BY <1>a, <1>b, <1>11 DEF SchemaFails
  <2>2. session' \in [User -> Branch] /\ threads' \subseteq Branch
    BY <1>a, <1>b, <1>11 DEF SchemaFails
  <2>3. calls' \in 0 .. MaxCalls /\ restarts' \in 0 .. MaxRestarts
    BY <1>a, <1>11 DEF SchemaFails
  <2>4. QED
    BY <2>1, <2>2, <2>3 DEF StateOK
<1>12. ASSUME NEW u \in User, PushDeletion(u)
      PROVE  StateOK'
  <2>1. db' \in [Schema -> Content \cup {NoSchema, NoTables}]
    BY <1>a, <1>b, <1>12 DEF PushDeletion
  <2>2. session' \in [User -> Branch] /\ threads' \subseteq Branch
    BY <1>a, <1>b, <1>12 DEF PushDeletion
  <2>3. calls' \in 0 .. MaxCalls /\ restarts' \in 0 .. MaxRestarts
    BY <1>a, <1>12 DEF PushDeletion
  <2>4. QED
    BY <2>1, <2>2, <2>3 DEF StateOK
<1>13. ASSUME NEW u \in User, DropSchema(u)
      PROVE  StateOK'
  <2>1. db' \in [Schema -> Content \cup {NoSchema, NoTables}]
    BY <1>a, <1>b, <1>13 DEF DropSchema, SetSession, OrMaster
  <2>2. session' \in [User -> Branch] /\ threads' \subseteq Branch
    BY <1>a, <1>b, <1>13 DEF DropSchema, SetSession, OrMaster
  <2>3. calls' \in 0 .. MaxCalls /\ restarts' \in 0 .. MaxRestarts
    BY <1>a, <1>13 DEF DropSchema, SetSession, OrMaster
  <2>4. QED
    BY <2>1, <2>2, <2>3 DEF StateOK
<1>14. ASSUME NEW u \in User, GfsMerge(u)
      PROVE  StateOK'
  <2>1. db' \in [Schema -> Content \cup {NoSchema, NoTables}]
    BY <1>a, <1>b, <1>14 DEF GfsMerge
  <2>2. session' \in [User -> Branch] /\ threads' \subseteq Branch
    BY <1>a, <1>b, <1>14 DEF GfsMerge
  <2>3. calls' \in 0 .. MaxCalls /\ restarts' \in 0 .. MaxRestarts
    BY <1>a, <1>14 DEF GfsMerge
  <2>4. QED
    BY <2>1, <2>2, <2>3 DEF StateOK
<1>15. ASSUME NEW u \in User, SyncCurrentBranch(u)
      PROVE  StateOK'
  <2>1. db' \in [Schema -> Content \cup {NoSchema, NoTables}]
    BY <1>a, <1>b, <1>15 DEF SyncCurrentBranch
  <2>2. session' \in [User -> Branch] /\ threads' \subseteq Branch
    BY <1>a, <1>b, <1>15 DEF SyncCurrentBranch
  <2>3. calls' \in 0 .. MaxCalls /\ restarts' \in 0 .. MaxRestarts
    BY <1>a, <1>15 DEF SyncCurrentBranch
  <2>4. QED
    BY <2>1, <2>2, <2>3 DEF StateOK
<1>16. ASSUME NEW u \in User, FindChanges(u)
      PROVE  StateOK'
  <2>1. db' \in [Schema -> Content \cup {NoSchema, NoTables}]
    BY <1>a, <1>b, <1>16 DEF FindChanges
  <2>2. session' \in [User -> Branch] /\ threads' \subseteq Branch
    BY <1>a, <1>b, <1>16 DEF FindChanges
  <2>3. calls' \in 0 .. MaxCalls /\ restarts' \in 0 .. MaxRestarts
    BY <1>a, <1>16 DEF FindChanges
  <2>4. QED
    BY <2>1, <2>2, <2>3 DEF StateOK
<1>17. ASSUME NEW u \in User, NEW f \in File, SaveOrUpdate(u, f)
      PROVE  StateOK'
  <2>1. db' \in [Schema -> Content \cup {NoSchema, NoTables}]
    BY <1>a, <1>b, <1>17 DEF SaveOrUpdate, Begin, Content
  <2>2. session' \in [User -> Branch] /\ threads' \subseteq Branch
    BY <1>a, <1>b, <1>17 DEF SaveOrUpdate, Begin, Content
  <2>3. calls' \in 0 .. MaxCalls /\ restarts' \in 0 .. MaxRestarts
    BY <1>a, <1>17 DEF SaveOrUpdate, Begin, Content
  <2>4. QED
    BY <2>1, <2>2, <2>3 DEF StateOK
<1>18. ASSUME NEW u \in User, NEW f \in File, Remove(u, f)
      PROVE  StateOK'
  <2>1. db' \in [Schema -> Content \cup {NoSchema, NoTables}]
    BY <1>a, <1>b, <1>18 DEF Remove, Begin
  <2>2. session' \in [User -> Branch] /\ threads' \subseteq Branch
    BY <1>a, <1>b, <1>18 DEF Remove, Begin
  <2>3. calls' \in 0 .. MaxCalls /\ restarts' \in 0 .. MaxRestarts
    BY <1>a, <1>18 DEF Remove, Begin
  <2>4. QED
    BY <2>1, <2>2, <2>3 DEF StateOK
<1>19. ASSUME NEW u \in User, NEW b \in Branch, CreateBranch(u, b)
      PROVE  StateOK'
  <2>1. db' \in [Schema -> Content \cup {NoSchema, NoTables}]
    BY <1>a, <1>b, <1>19 DEF CreateBranch, Begin
  <2>2. session' \in [User -> Branch] /\ threads' \subseteq Branch
    BY <1>a, <1>b, <1>19 DEF CreateBranch, Begin
  <2>3. calls' \in 0 .. MaxCalls /\ restarts' \in 0 .. MaxRestarts
    BY <1>a, <1>19 DEF CreateBranch, Begin
  <2>4. QED
    BY <2>1, <2>2, <2>3 DEF StateOK
<1>20. ASSUME NEW u \in User, NEW b \in Branch, DeleteBranch(u, b)
      PROVE  StateOK'
  <2>1. db' \in [Schema -> Content \cup {NoSchema, NoTables}]
    BY <1>a, <1>b, <1>20 DEF DeleteBranch, Begin
  <2>2. session' \in [User -> Branch] /\ threads' \subseteq Branch
    BY <1>a, <1>b, <1>20 DEF DeleteBranch, Begin
  <2>3. calls' \in 0 .. MaxCalls /\ restarts' \in 0 .. MaxRestarts
    BY <1>a, <1>20 DEF DeleteBranch, Begin
  <2>4. QED
    BY <2>1, <2>2, <2>3 DEF StateOK
<1>21. ASSUME NEW u \in User, NEW b \in Branch, SetCurrentBranch(u, b)
      PROVE  StateOK'
  <2>1. db' \in [Schema -> Content \cup {NoSchema, NoTables}]
    BY <1>a, <1>b, <1>21 DEF SetCurrentBranch, Begin, SetSession, OrMaster
  <2>2. session' \in [User -> Branch] /\ threads' \subseteq Branch
    BY <1>a, <1>b, <1>21 DEF SetCurrentBranch, Begin, SetSession, OrMaster
  <2>3. calls' \in 0 .. MaxCalls /\ restarts' \in 0 .. MaxRestarts
    BY <1>a, <1>21 DEF SetCurrentBranch, Begin, SetSession, OrMaster
  <2>4. QED
    BY <2>1, <2>2, <2>3 DEF StateOK
<1>22. ASSUME NEW u \in User, NEW b \in Branch, Merge(u, b)
      PROVE  StateOK'
  <2>1. db' \in [Schema -> Content \cup {NoSchema, NoTables}]
    BY <1>a, <1>b, <1>22 DEF Merge, Begin, SetSession, OrMaster
  <2>2. session' \in [User -> Branch] /\ threads' \subseteq Branch
    BY <1>a, <1>b, <1>22 DEF Merge, Begin, SetSession, OrMaster
  <2>3. calls' \in 0 .. MaxCalls /\ restarts' \in 0 .. MaxRestarts
    BY <1>a, <1>22 DEF Merge, Begin, SetSession, OrMaster
  <2>4. QED
    BY <2>1, <2>2, <2>3 DEF StateOK
<1>23. ASSUME NEW u \in User, ExportCurrentBranch(u)
      PROVE  StateOK'
  <2>1. db' \in [Schema -> Content \cup {NoSchema, NoTables}]
    BY <1>a, <1>b, <1>23 DEF ExportCurrentBranch, Begin
  <2>2. session' \in [User -> Branch] /\ threads' \subseteq Branch
    BY <1>a, <1>b, <1>23 DEF ExportCurrentBranch, Begin
  <2>3. calls' \in 0 .. MaxCalls /\ restarts' \in 0 .. MaxRestarts
    BY <1>a, <1>23 DEF ExportCurrentBranch, Begin
  <2>4. QED
    BY <2>1, <2>2, <2>3 DEF StateOK
<1>24. ASSUME NEW u \in User, ImportCurrentBranch(u)
      PROVE  StateOK'
  <2>1. db' \in [Schema -> Content \cup {NoSchema, NoTables}]
    BY <1>a, <1>b, <1>24 DEF ImportCurrentBranch, Begin
  <2>2. session' \in [User -> Branch] /\ threads' \subseteq Branch
    BY <1>a, <1>b, <1>24 DEF ImportCurrentBranch, Begin
  <2>3. calls' \in 0 .. MaxCalls /\ restarts' \in 0 .. MaxRestarts
    BY <1>a, <1>24 DEF ImportCurrentBranch, Begin
  <2>4. QED
    BY <2>1, <2>2, <2>3 DEF StateOK
<1>25. ASSUME NEW u \in User, Login(u)
      PROVE  StateOK'
  <2>1. db' \in [Schema -> Content \cup {NoSchema, NoTables}]
    BY <1>a, <1>b, <1>25 DEF Login, Begin, SetSession, OrMaster
  <2>2. session' \in [User -> Branch] /\ threads' \subseteq Branch
    BY <1>a, <1>b, <1>25 DEF Login, Begin, SetSession, OrMaster
  <2>3. calls' \in 0 .. MaxCalls /\ restarts' \in 0 .. MaxRestarts
    BY <1>a, <1>25 DEF Login, Begin, SetSession, OrMaster
  <2>4. QED
    BY <2>1, <2>2, <2>3 DEF StateOK
<1>26. ASSUME Restart
      PROVE  StateOK'
  <2>1. db' \in [Schema -> Content \cup {NoSchema, NoTables}]
    BY <1>a, <1>b, <1>26 DEF Restart
  <2>2. session' \in [User -> Branch] /\ threads' \subseteq Branch
    BY <1>a, <1>b, <1>26 DEF Restart
  <2>3. calls' \in 0 .. MaxCalls /\ restarts' \in 0 .. MaxRestarts
    BY <1>a, <1>26 DEF Restart
  <2>4. QED
    BY <2>1, <2>2, <2>3 DEF StateOK
<1>27. ASSUME Quiescent
      PROVE  StateOK'
  <2>1. db' \in [Schema -> Content \cup {NoSchema, NoTables}]
    BY <1>a, <1>b, <1>27 DEF Quiescent, vars
  <2>2. session' \in [User -> Branch] /\ threads' \subseteq Branch
    BY <1>a, <1>b, <1>27 DEF Quiescent, vars
  <2>3. calls' \in 0 .. MaxCalls /\ restarts' \in 0 .. MaxRestarts
    BY <1>a, <1>27 DEF Quiescent, vars
  <2>4. QED
    BY <2>1, <2>2, <2>3 DEF StateOK
<1>28. ASSUME NEW u \in User, ImportFails(u)
      PROVE  StateOK'
  <2>1. db' \in [Schema -> Content \cup {NoSchema, NoTables}]
    BY <1>a, <1>28 DEF ImportFails
  <2>2. session' \in [User -> Branch] /\ threads' \subseteq Branch
    BY <1>a, <1>28 DEF ImportFails
  <2>3. calls' \in 0 .. MaxCalls /\ restarts' \in 0 .. MaxRestarts
    BY <1>a, <1>28 DEF ImportFails
  <2>4. QED
    BY <2>1, <2>2, <2>3 DEF StateOK
<1>29. QED
  BY <1>1, <1>2, <1>3, <1>4, <1>5, <1>6, <1>7, <1>8, <1>9, <1>10, <1>11, <1>12, <1>13,
     <1>14, <1>15, <1>16, <1>17, <1>18, <1>19, <1>20, <1>21, <1>22, <1>23, <1>24, <1>25,
     <1>26, <1>27, <1>28
  DEF Next, Step

\* What is remembered of rows that are not there changes only where rows are written.
LEMMA AbsentChanges ==
  ASSUME Next
  PROVE  \/ UNCHANGED absent
         \/ \E u \in User : \/ \E f \in File : SaveOrUpdate(u, f)
                            \/ CommitRemove(u) \/ ImportFile(u) \/ ImportFails(u) \/ EndImport(u)
<1>1. ASSUME NEW u \in User, Step(u)
      PROVE  \/ UNCHANGED absent
             \/ CommitRemove(u) \/ ImportFile(u) \/ ImportFails(u) \/ EndImport(u)
  BY <1>1 DEF Step, OpenToWrite, CommitFiles, ReadObject, WriteExport, TagAsSynced, CreateSchema,
     CopySchema, SchemaFails, PushDeletion, DropSchema, GfsMerge, SyncCurrentBranch, FindChanges
<1>2. ASSUME NEW u \in User,
             \/ \E f \in File : Remove(u, f)
             \/ \E b \in Branch : \/ CreateBranch(u, b) \/ DeleteBranch(u, b)
                                  \/ SetCurrentBranch(u, b) \/ Merge(u, b)
             \/ ExportCurrentBranch(u) \/ ImportCurrentBranch(u) \/ Login(u)
      PROVE  UNCHANGED absent
  BY <1>2 DEF Remove, CreateBranch, DeleteBranch, SetCurrentBranch, Merge, ExportCurrentBranch,
     ImportCurrentBranch, Login
<1>3. CASE Restart \/ Quiescent
  BY <1>3 DEF Restart, Quiescent, vars
<1>4. QED
  BY <1>1, <1>2, <1>3 DEF Next

LEMMA AbsentStep ==
  ASSUME TypeOK, AbsentOK, Next
  PROVE  AbsentOK'
<1>1. CASE UNCHANGED absent
  BY <1>1 DEF AbsentOK, absent
<1>2. ASSUME NEW u \in User, NEW F \in SUBSET File, NEW S \in SUBSET File, GivenBack(u, F, S)
      PROVE  AbsentOK'
  BY <1>2 DEF AbsentOK, GivenBack, Content
<1>3. ASSUME NEW u \in User, NEW f \in File, SaveOrUpdate(u, f) PROVE AbsentOK'
  <2>1. GivenBack(u, {f}, emptied) /\ {f} \in SUBSET File /\ emptied \in SUBSET File
    BY <1>3 DEF SaveOrUpdate, AbsentOK
  <2>2. QED
    BY <1>2, <2>1
<1>4. ASSUME NEW u \in User, CommitRemove(u) PROVE AbsentOK'
  <2>1. CASE HasTables(Current(u))
    <3>1. \A f \in File : db[Current(u)][f] \in Nat
      BY <2>1, TypesOfTables DEF Content
    <3>2. /\ emptied' = emptied
          /\ removed' = [f \in File |->
                           IF InMaster(u) /\ f \in task[u].todo /\ db[Current(u)][f] # 0
                           THEN db[Current(u)][f] ELSE removed[f]]
      BY <1>4, <2>1 DEF CommitRemove
    <3>3. QED
      BY <3>1, <3>2 DEF AbsentOK, Content
  <2>2. CASE ~HasTables(Current(u))
    BY <1>4, <2>2 DEF CommitRemove, AbsentOK
  <2>3. QED
    BY <2>1, <2>2
<1>5. ASSUME NEW u \in User, ImportFile(u) PROVE AbsentOK'
  <2>1. CASE UNCHANGED absent
    BY <1>1, <2>1
  <2>2. CASE ~UNCHANGED absent
    <3>1. PICK f \in task[u].todo : GivenBack(u, {f}, Lost(u))
      BY <1>5, <2>2 DEF ImportFile
    <3>2. {f} \in SUBSET File /\ Lost(u) \in SUBSET File
      BY DEF TypeOK, Task, AbsentOK, Lost
    <3>3. QED
      BY <1>2, <3>1, <3>2
  <2>3. QED
    BY <2>1, <2>2
<1>6. ASSUME NEW u \in User, ImportFails(u) PROVE AbsentOK'
  <2>1. UNCHANGED absent \/ GivenBack(u, {}, File)
    BY <1>6 DEF ImportFails
  <2>2. {} \in SUBSET File /\ File \in SUBSET File
    OBVIOUS
  <2>3. QED
    BY <1>1, <1>2, <2>1, <2>2
<1>7. ASSUME NEW u \in User, EndImport(u) PROVE AbsentOK'
  <2>1. PICK S : S = IF task[u].op = "import" THEN {} ELSE Lost(u)
    OBVIOUS
  <2>2. GivenBack(u, {}, S)
    BY <1>7, <2>1 DEF EndImport
  <2>3. {} \in SUBSET File /\ S \in SUBSET File
    BY <2>1 DEF Lost, AbsentOK
  <2>4. QED
    BY <1>2, <2>2, <2>3
<1>8. QED
  BY <1>1, <1>3, <1>4, <1>5, <1>6, <1>7, AbsentChanges

-----------------------------------------------------------------------------
(* The theorems.                                                           *)

\* The inductive invariant and its parts.
LEMMA InvParts == GitflowInv => TypeOK /\ TasksFit /\ HistoryOK /\ AbsentOK
BY DEF GitflowInv, HistoryOK, TypeOK, AbsentOK

LEMMA InvFromParts == TasksFit /\ HistoryOK /\ StateOK /\ AbsentOK => GitflowInv
<1> SUFFICES ASSUME TasksFit, HistoryOK, StateOK, AbsentOK PROVE GitflowInv
  OBVIOUS
<1>1. DOMAIN task = User /\ \A u \in User : \E F \in SUBSET File : task[u] \in Task(F)
  BY DEF TasksFit, TaskFits
<1>2. TypeOK
  BY <1>1 DEF TypeOK, HistoryOK, StateOK, AbsentOK
<1>3. QED
  BY <1>2 DEF GitflowInv, HistoryOK

\* Every step.
LEMMA GitflowStep ==
  ASSUME GitflowInv, [Next]_vars
  PROVE  GitflowInv' /\ HeadsForward /\ TagsForward
<1>1. TypeOK /\ TasksFit /\ HistoryOK /\ AbsentOK
  BY InvParts
<1>2. CASE Next
  <2>1. TasksFit' /\ StateOK' /\ AbsentOK'
    BY ONLY <1>1, <1>2, TasksStep, StateStep, AbsentStep
  <2>2. HistoryOK' /\ HeadsForward /\ TagsForward
    BY ONLY <1>1, <1>2, HistoryStep
  <2>3. (TasksFit /\ HistoryOK /\ StateOK /\ AbsentOK => GitflowInv)'
    BY InvFromParts, PTL
  <2>4. QED
    BY <2>1, <2>2, <2>3
<1>3. CASE UNCHANGED vars
  <2>1. HistoryOK' /\ HeadsForward /\ TagsForward
    BY <1>1, <1>3, QuietHistory DEF vars
  <2>2. TasksFit' /\ StateOK' /\ AbsentOK'
    BY <1>1, <1>3 DEF vars, absent, TasksFit, StateOK, TypeOK, AbsentOK
  <2>3. (TasksFit /\ HistoryOK /\ StateOK /\ AbsentOK => GitflowInv)'
    BY InvFromParts, PTL
  <2>4. QED
    BY <2>1, <2>2, <2>3
<1>4. QED
  BY <1>2, <1>3

\* The first state: a new repository, or one from an earlier run of the server.
LEMMA GitflowStart == Init => GitflowInv
<1> SUFFICES ASSUME Init PROVE GitflowInv
  OBVIOUS
<1>0. /\ Master \in Branch /\ Empty \in Content /\ [f \in File |-> 1] \in Content
      /\ MaxCalls \in Nat /\ MaxRestarts \in Nat
  BY GitflowConstants DEF Empty, Content
<1>1. PICK files \in {Empty, [f \in File |-> 1]} :
          /\ hist = <<[parents |-> {}, past |-> {1}, files |-> files]>>
          /\ db = [s \in Schema |-> IF s = SchemaOf[Master] THEN files ELSE NoSchema]
          /\ tag \in [Branch -> {0}] \cup {[b \in Branch |-> IF b = Master THEN 1 ELSE 0]}
  BY DEF Init
<1> DEFINE c == [parents |-> {}, past |-> {1}, files |-> files]
<1>2. c \in Commit /\ c.past = {1}
  BY <1>0 DEF Commit
<1>3. hist = <<c>>
  BY <1>1
<1> HIDE DEF c
<1>4. hist \in Seq(Commit) /\ Len(hist) = 1 /\ DOMAIN hist = {1} /\ hist[1].past = {1}
  BY <1>2, <1>3
<1>5. head = [b \in Branch |-> IF b = Master THEN 1 ELSE 0]
  BY DEF Init
<1>6. HistoryOK
  <2>1. head \in [Branch -> 0 .. 1] /\ tag \in [Branch -> 0 .. 1] /\ head[Master] = 1
    BY <1>0, <1>1, <1>5
  <2>2. HistoryIsClosed
    BY <1>4 DEF HistoryIsClosed
  <2>3. TagsAreBehindMaster
    BY <1>4, <2>1 DEF TagsAreBehindMaster, Reachable
  <2>4. QED
    BY <1>4, <2>1, <2>2, <2>3 DEF HistoryOK
<1>7. TasksFit
  <2>1. task = [u \in User |-> Idle]
    BY DEF Init
  <2>2. TaskFits(Idle, Len(hist))
    BY <1>4, IdleFits
  <2>3. QED
    BY <2>1, <2>2 DEF TasksFit
<1>8. StateOK
  <2>1. db \in [Schema -> Content \cup {NoSchema, NoTables}]
    BY <1>0, <1>1
  <2>2. /\ session \in [User -> Branch] /\ threads \subseteq Branch
        /\ calls \in 0 .. MaxCalls /\ restarts \in 0 .. MaxRestarts
    BY <1>0 DEF Init
  <2>3. QED
    BY <2>1, <2>2 DEF StateOK
<1>9. AbsentOK
  BY <1>0 DEF Init, AbsentOK
<1>10. QED
  BY <1>6, <1>7, <1>8, <1>9, InvFromParts

\* The inductive invariant holds.
THEOREM GitflowInvCorrect == Spec => []GitflowInv
BY GitflowStart, GitflowStep, PTL DEF Spec

\* For any users, branches, objects, requests, failures and restarts the state of
\* GitflowSvc keeps its types; in particular no transaction is tried more than MaxAttempts times.
THEOREM GitflowTypeCorrect == Spec => []TypeOK
<1>1. GitflowInv => TypeOK
  BY DEF GitflowInv
<1>2. QED
  BY <1>1, GitflowInvCorrect, PTL

\* No commit and no merge of GitflowSvc takes a commit away from a branch, whoever else
\* commits to the branch in between.
THEOREM HeadsForwardCorrect == Spec => HeadsMoveForward
<1>1. GitflowInv /\ [Next]_vars =>
        [\A b \in Branch : \A n \in {head[b]} : n # 0 => (head[b] # 0 => n \in Reachable(head[b]))']_vars
  <2> SUFFICES ASSUME GitflowInv, [Next]_vars
               PROVE  \A b \in Branch : \A n \in {head[b]} :
                         n # 0 => (head[b] # 0 => n \in Reachable(head[b]))'
    OBVIOUS
  <2>1. HeadsForward
    BY GitflowStep
  <2>2. QED
    BY <2>1 DEF HeadsForward, Reachable, After
<1>2. QED
  BY <1>1, GitflowInvCorrect, PTL DEF Spec, HeadsMoveForward

\* The tag of a branch never moves back, even when the branch is deleted and made again:
\* no sync of GitflowSvc compares with an older commit
\* than the one before it.
THEOREM TagsForwardCorrect == Spec => TagsMoveForward
<1>1. GitflowInv /\ [Next]_vars =>
        [\A b \in Branch : \A n \in {tag[b]} : n # 0 => (n \in Reachable(tag[b]))']_vars
  <2> SUFFICES ASSUME GitflowInv, [Next]_vars
               PROVE  \A b \in Branch : \A n \in {tag[b]} : n # 0 => (n \in Reachable(tag[b]))'
    OBVIOUS
  <2>1. TagsForward
    BY GitflowStep
  <2>2. QED
    BY <2>1 DEF TagsForward, Reachable, After
<1>2. QED
  BY <1>1, GitflowInvCorrect, PTL DEF Spec, TagsMoveForward

-----------------------------------------------------------------------------
(***************************************************************************)
(* What any history is like: a commit has earlier parents and their pasts, *)
(* and no version is newer than the requests there were.                   *)
(***************************************************************************)
HistoryAddsUp ==
    \A n \in DOMAIN hist :
        /\ hist[n].parents \subseteq 1 .. (n - 1)
        /\ hist[n].past = (UNION {hist[p].past : p \in hist[n].parents}) \cup {n}

BasesExist == \A u \in User : task[u].pc \in {"commit", "merge"} => task[u].base # 0

CommitsFit == \A n \in DOMAIN hist : \A f \in File : hist[n].files[f] <= calls + 1

RowsFit == \A s \in Schema : HasTables(s) => \A f \in File : db[s][f] <= calls + 1

TempsFit == \A u \in User : \A f \in DOMAIN task[u].temp : task[u].temp[f] <= calls + 1

\* What a request is that is at neither of the steps of an edit.
OpsFit ==
    \A u \in User :
        /\ task[u].pc = "remove" => task[u].op = "delete"
        /\ task[u].pc \notin {"idle", "open", "commit", "remove"} => task[u].op \notin {"save", "delete"}

LineageInv == HistoryAddsUp /\ BasesExist /\ CommitsFit /\ RowsFit /\ TempsFit /\ OpsFit

\* A step that adds a commit with these parents and files.
Adds(parents, files) ==
    /\ hist' \in Seq(Commit) /\ DOMAIN hist' = 1 .. (Len(hist) + 1)
    /\ \A n \in 1 .. Len(hist) : hist'[n] = hist[n]
    /\ hist'[Len(hist) + 1].parents = parents
    /\ hist'[Len(hist) + 1].files = files
    /\ hist'[Len(hist) + 1].past = (UNION {hist[p].past : p \in parents}) \cup {Len(hist) + 1}

LEMMA CommitsAdds ==
  ASSUME GitflowInv, NEW b \in Branch, NEW parents \in SUBSET (1 .. Len(hist)), NEW files \in Content,
         Commits(b, parents, files)
  PROVE  /\ Adds(parents, files)
         /\ head'[b] = Len(hist) + 1 /\ \A c \in Branch \ {b} : head'[c] = head[c]
<1>1. /\ hist \in Seq(Commit) /\ head \in [Branch -> 0 .. Len(hist)] /\ HistoryIsClosed
      /\ Len(hist) \in Nat
  BY DEF GitflowInv, TypeOK
<1>2. parents \in SUBSET (0 .. Len(hist))
  BY <1>1
<1>3. /\ hist' \in Seq(Commit) /\ Len(hist') = Len(hist) + 1
      /\ \A n \in 1 .. Len(hist) : hist'[n] = hist[n]
      /\ hist'[Len(hist) + 1].past = (UNION {Reachable(p) : p \in parents}) \cup {Len(hist) + 1}
      /\ head'[b] = Len(hist) + 1
      /\ \A c \in Branch \ {b} : head'[c] = head[c]
  BY <1>1, <1>2, CommitsEffect
<1>4. DOMAIN hist' = 1 .. (Len(hist) + 1)
  BY <1>3
<1>5. {Reachable(p) : p \in parents} = {hist[p].past : p \in parents}
  <2>1. \A p \in parents : Reachable(p) = hist[p].past
    BY <1>1 DEF Reachable
  <2>2. QED
    BY <2>1
<1>6. hist'[Len(hist) + 1].parents = parents /\ hist'[Len(hist) + 1].files = files
  <2> DEFINE past == (UNION {Reachable(p) : p \in parents}) \cup {Len(hist) + 1}
  <2>1. PICK c : c = [parents |-> parents, past |-> past, files |-> files]
    OBVIOUS
  <2>2. c.parents = parents /\ c.files = files
    BY <2>1
  <2>3. hist' = Append(hist, c)
    BY <2>1 DEF Commits
  <2>4. hist'[Len(hist) + 1] = c
    BY <1>1, <2>3
  <2>5. QED
    BY <2>2, <2>4
<1>7. QED
  BY <1>3, <1>4, <1>5, <1>6 DEF Adds

\* Tasks, bases and commits in a form that the steps below use.
LEMMA Types ==
  ASSUME GitflowInv
  PROVE  /\ hist \in Seq(Commit) /\ Len(hist) \in Nat /\ DOMAIN hist = 1 .. Len(hist)
         /\ \A n \in DOMAIN hist : /\ hist[n] \in Commit /\ hist[n].files \in [File -> Nat]
                                   /\ hist[n].past \subseteq 1 .. n /\ n \in hist[n].past
                                   /\ \A m \in hist[n].past : hist[m].past \subseteq hist[n].past
         /\ \A b \in Branch : head[b] \in 0 .. Len(hist)
         /\ DOMAIN task = User
         /\ \A u \in User : /\ session[u] \in Branch /\ Current(u) \in Schema
                            /\ task[u].branch \in Branch /\ task[u].from \in Branch
                            /\ task[u].base \in 0 .. Len(hist)
                            /\ task[u].pc \in {"open", "commit"} => task[u].op \in {"save", "delete", "export"}
         /\ \A s \in Schema : HasTables(s) => db[s] \in [File -> Nat]
         /\ calls \in Nat
<1>1. /\ hist \in Seq(Commit) /\ Len(hist) \in Nat /\ DOMAIN hist = 1 .. Len(hist)
      /\ HistoryIsClosed /\ calls \in Nat
  BY DEF GitflowInv, TypeOK
<1>2. ASSUME NEW u \in User
      PROVE  /\ task[u].branch \in Branch /\ task[u].from \in Branch /\ task[u].base \in 0 .. Len(hist)
             /\ task[u].pc \in {"open", "commit"} => task[u].op \in {"save", "delete", "export"}
  <2>1. PICK F : task[u] \in Task(F)
    BY DEF GitflowInv, TypeOK
  <2>2. TaskFits(task[u], Len(hist))
    BY DEF GitflowInv, TasksFit
  <2>3. QED
    BY <1>1, <2>1, <2>2 DEF Task, TaskFits
<1>3. \A n \in DOMAIN hist : hist[n] \in Commit
  BY <1>1
<1>4. \A n \in DOMAIN hist : /\ hist[n].past \subseteq 1 .. n /\ n \in hist[n].past
                             /\ \A m \in hist[n].past : hist[m].past \subseteq hist[n].past
  BY <1>1 DEF HistoryIsClosed
<1>5. \A n \in DOMAIN hist : hist[n].files \in [File -> Nat]
  BY <1>3 DEF Commit, Content
<1>6. DOMAIN task = User
  BY DEF GitflowInv, TypeOK
<1>7. QED
  BY <1>1, <1>2, <1>3, <1>4, <1>5, <1>6, TypesOfTables DEF GitflowInv, Content

\* Every step leaves the history or adds a commit of a task, or the merge of two commits of
\* which neither has the other.
Written(u) ==
    LET base == task[u].base
    IN  /\ At(u, "commit") /\ base \in 1 .. Len(hist)
        /\ Adds({base}, Overlay(task[u].temp, hist[base].files))

Joined(u) ==
    LET ours == task[u].base
        theirs == head[task[u].from]
    IN  /\ At(u, "merge") /\ ours \in 1 .. Len(hist) /\ theirs \in 1 .. Len(hist) /\ ours # theirs
        /\ \E base \in hist[ours].past \cap hist[theirs].past :
              /\ \A f \in File : ~Conflicts(f, base, ours, theirs)
              /\ Adds({ours, theirs}, Merged(base, ours, theirs))

LEMMA HistoryChanges ==
  ASSUME GitflowInv, BasesExist, Next
  PROVE  hist' = hist \/ \E u \in User : (CommitFiles(u) /\ Written(u)) \/ (GfsMerge(u) /\ Joined(u))
<1>1. ASSUME NEW u \in User, CommitFiles(u) PROVE hist' = hist \/ Written(u)
  <2> DEFINE base == task[u].base
             files == Overlay(task[u].temp, FilesAt(base))
  <2>1. base \in 1 .. Len(hist)
    BY <1>1, Types DEF CommitFiles, At, BasesExist
  <2>2. CASE hist' # hist
    <3>1. Commits(session[u], {base}, files) /\ At(u, "commit")
      BY <1>1, <2>2 DEF CommitFiles
    <3>2. files \in Content
      <4>1. PICK F \in SUBSET File : task[u] \in Task(F)
        BY DEF GitflowInv, TypeOK
      <4>2. task[u].temp \in [F -> Nat] /\ FilesAt(base) \in [File -> Nat]
        BY <2>1, <4>1, Types DEF Task, FilesAt
      <4>3. QED
        BY <4>2 DEF Overlay, Content
    <3>3. FilesAt(base) = hist[base].files
      BY <2>1, Types DEF FilesAt
    <3>4. session[u] \in Branch /\ {base} \in SUBSET (1 .. Len(hist))
      BY <2>1, Types
    <3> HIDE DEF files
    <3>5. Adds({base}, files)
      BY <3>1, <3>2, <3>4, CommitsAdds
    <3>6. files = Overlay(task[u].temp, hist[base].files)
      BY <3>3 DEF files
    <3>7. QED
      BY <2>1, <3>1, <3>5, <3>6 DEF Written
  <2>3. QED
    BY <2>2
<1>2. ASSUME NEW u \in User, GfsMerge(u) PROVE hist' = hist \/ Joined(u)
  <2> DEFINE ours == task[u].base
             theirs == head[task[u].from]
             to == task[u].branch
  <2>1. ours \in 1 .. Len(hist) /\ At(u, "merge")
    BY <1>2, Types DEF GfsMerge, At, BasesExist
  <2>2. CASE hist' # hist
    <3>1. /\ theirs # 0 /\ theirs \notin Reachable(ours) /\ ours \notin Reachable(theirs)
          /\ \E base \in MergeBases(ours, theirs) :
                /\ \A f \in File : ~Conflicts(f, base, ours, theirs)
                /\ Commits(to, {ours, theirs}, Merged(base, ours, theirs))
      BY <1>2, <2>2 DEF GfsMerge
    <3>2. theirs \in 1 .. Len(hist) /\ to \in Branch
      BY <3>1, Types
    <3>3. Reachable(ours) = hist[ours].past /\ Reachable(theirs) = hist[theirs].past
          /\ ours \in hist[ours].past
      BY <2>1, <3>2, Types DEF Reachable
    <3> HIDE DEF ours, theirs, to
    <3>4. PICK base \in MergeBases(ours, theirs) :
             /\ \A f \in File : ~Conflicts(f, base, ours, theirs)
             /\ Commits(to, {ours, theirs}, Merged(base, ours, theirs))
      BY <3>1
    <3>5. base \in hist[ours].past \cap hist[theirs].past
      BY <3>3, <3>4 DEF MergeBases
    <3>6. Merged(base, ours, theirs) \in Content
      <4>1. FilesAt(ours) \in [File -> Nat] /\ FilesAt(theirs) \in [File -> Nat]
        BY <2>1, <3>2, Types DEF FilesAt
      <4>2. QED
        BY <4>1 DEF Merged, Content
    <3>7. {ours, theirs} \in SUBSET (1 .. Len(hist)) /\ ours # theirs
      BY <2>1, <3>1, <3>2, <3>3
    <3>8. Adds({ours, theirs}, Merged(base, ours, theirs))
      BY <3>2, <3>4, <3>6, <3>7, CommitsAdds
    <3>9. QED
      BY <2>1, <3>2, <3>4, <3>5, <3>7, <3>8 DEF Joined, ours, theirs
  <2>3. QED
    BY <2>2
<1>3. ASSUME NEW u \in User, Step(u)
      PROVE  hist' = hist \/ CommitFiles(u) \/ GfsMerge(u)
  BY <1>3 DEF Step, OpenToWrite, CommitRemove, ReadObject, WriteExport, TagAsSynced,
     ImportFile, ImportFails, EndImport, CreateSchema, CopySchema, SchemaFails, PushDeletion,
     DropSchema, SyncCurrentBranch, FindChanges
<1>4. CASE Restart \/ Quiescent
  BY <1>4 DEF Restart, Quiescent, vars
<1>5. ASSUME NEW u \in User,
             \/ \E f \in File : SaveOrUpdate(u, f) \/ Remove(u, f)
             \/ \E b \in Branch : \/ CreateBranch(u, b) \/ DeleteBranch(u, b)
                                  \/ SetCurrentBranch(u, b) \/ Merge(u, b)
             \/ ExportCurrentBranch(u) \/ ImportCurrentBranch(u) \/ Login(u)
      PROVE  hist' = hist
  BY <1>5 DEF SaveOrUpdate, Remove, CreateBranch, DeleteBranch, SetCurrentBranch, Merge,
     ExportCurrentBranch, ImportCurrentBranch, Login
<1>6. hist' = hist \/ \E u \in User : CommitFiles(u) \/ GfsMerge(u)
  <2>1. CASE \E u \in User : Step(u)
    BY <1>3, <2>1
  <2>2. CASE ~\E u \in User : Step(u)
    BY <1>4, <1>5, <2>2 DEF Next
  <2>3. QED
    BY <2>1, <2>2
<1>7. QED
  BY <1>1, <1>2, <1>6

\* The forms in which the steps write tasks, field by field.
Alone(u) == DOMAIN task' = User /\ \A v \in User \ {u} : task'[v] = task[v]

SameEdit(t, s) ==
    s.op = t.op /\ s.branch = t.branch /\ s.temp = t.temp /\ s.from = t.from

Rebases(u, p, n) == task' = [task EXCEPT ![u].pc = p, ![u].base = n]

Lists(u, p, todo) == task' = [task EXCEPT ![u].pc = p, ![u].todo = todo]

Reads(u, f, x) == task' = [task EXCEPT ![u].todo = @ \ {f}, ![u].temp[f] = x]

LEMMA GoToForm ==
  ASSUME GitflowInv, NEW u \in User, NEW p, GoTo(u, p)
  PROVE  /\ Alone(u) /\ SameEdit(task[u], task'[u])
         /\ task'[u].pc = p /\ task'[u].base = task[u].base
         /\ task'[u].result = task[u].result /\ task'[u].todo = task[u].todo /\ task'[u].truncate = task[u].truncate
<1>1. PICK F : task[u] \in Task(F)
  BY DEF GitflowInv, TypeOK
<1>2. PICK t : t = task[u]
  OBVIOUS
<1>3. PICK s : s = [t EXCEPT !.pc = p]
  OBVIOUS
<1>4. task' = [task EXCEPT ![u] = s]
  BY <1>2, <1>3, Types, Reshape DEF GoTo
<1>5. /\ SameEdit(t, s) /\ s.pc = p /\ s.base = t.base /\ s.result = t.result
      /\ s.todo = t.todo /\ s.truncate = t.truncate
  BY <1>1, <1>2, <1>3 DEF Task, SameEdit
<1>6. QED
  BY <1>2, <1>4, <1>5, Types DEF Alone

LEMMA EndForm ==
  ASSUME GitflowInv, NEW u \in User, NEW p, NEW r, task' = [task EXCEPT ![u].pc = p, ![u].result = r]
  PROVE  /\ Alone(u) /\ SameEdit(task[u], task'[u])
         /\ task'[u].pc = p /\ task'[u].base = task[u].base /\ task'[u].result = r
<1>1. PICK F : task[u] \in Task(F)
  BY DEF GitflowInv, TypeOK
<1>2. PICK t : t = task[u]
  OBVIOUS
<1>3. PICK s : s = [t EXCEPT !.pc = p, !.result = r]
  OBVIOUS
<1>4. task' = [task EXCEPT ![u] = s]
  BY <1>2, <1>3, Types, Reshape
<1>5. SameEdit(t, s) /\ s.pc = p /\ s.base = t.base /\ s.result = r
  BY <1>1, <1>2, <1>3 DEF Task, SameEdit
<1>6. QED
  BY <1>2, <1>4, <1>5, Types DEF Alone

LEMMA BaseForm ==
  ASSUME GitflowInv, NEW u \in User, NEW p, NEW n, Rebases(u, p, n)
  PROVE  /\ Alone(u) /\ SameEdit(task[u], task'[u])
         /\ task'[u].pc = p /\ task'[u].base = n /\ task'[u].result = task[u].result
<1>1. PICK F : task[u] \in Task(F)
  BY DEF GitflowInv, TypeOK
<1>2. PICK t : t = task[u]
  OBVIOUS
<1>3. PICK s : s = [t EXCEPT !.pc = p, !.base = n]
  OBVIOUS
<1>4. task' = [task EXCEPT ![u] = s]
  BY <1>2, <1>3, Types, Reshape DEF Rebases
<1>5. SameEdit(t, s) /\ s.pc = p /\ s.base = n /\ s.result = t.result
  BY <1>1, <1>2, <1>3 DEF Task, SameEdit
<1>6. QED
  BY <1>2, <1>4, <1>5, Types DEF Alone

LEMMA AgainForm ==
  ASSUME GitflowInv, NEW u \in User, NEW p, task' = [task EXCEPT ![u].pc = p, ![u].attempt = @ + 1]
  PROVE  /\ Alone(u) /\ SameEdit(task[u], task'[u])
         /\ task'[u].pc = p /\ task'[u].base = task[u].base /\ task'[u].result = task[u].result
<1>1. PICK F : task[u] \in Task(F)
  BY DEF GitflowInv, TypeOK
<1>2. PICK t : t = task[u]
  OBVIOUS
<1>3. PICK s : s = [t EXCEPT !.pc = p, !.attempt = @ + 1]
  OBVIOUS
<1>4. task' = [task EXCEPT ![u] = s]
  BY <1>2, <1>3, Types, Reshape
<1>5. SameEdit(t, s) /\ s.pc = p /\ s.base = t.base /\ s.result = t.result
  BY <1>1, <1>2, <1>3 DEF Task, SameEdit
<1>6. QED
  BY <1>2, <1>4, <1>5, Types DEF Alone

LEMMA TodoForm ==
  ASSUME GitflowInv, NEW u \in User, NEW p, NEW todo, Lists(u, p, todo)
  PROVE  /\ Alone(u) /\ SameEdit(task[u], task'[u])
         /\ task'[u].pc = p /\ task'[u].base = task[u].base
         /\ task'[u].todo = todo /\ task'[u].truncate = task[u].truncate
<1>1. PICK F : task[u] \in Task(F)
  BY DEF GitflowInv, TypeOK
<1>2. PICK t : t = task[u]
  OBVIOUS
<1>3. PICK s : s = [t EXCEPT !.pc = p, !.todo = todo]
  OBVIOUS
<1>4. task' = [task EXCEPT ![u] = s]
  BY <1>2, <1>3, Types, Reshape DEF Lists
<1>5. SameEdit(t, s) /\ s.pc = p /\ s.base = t.base /\ s.todo = todo /\ s.truncate = t.truncate
  BY <1>1, <1>2, <1>3 DEF Task, SameEdit
<1>6. QED
  BY <1>2, <1>4, <1>5, Types DEF Alone

LEMMA ImportForm ==
  ASSUME GitflowInv, NEW u \in User, NEW f, task' = [task EXCEPT ![u].todo = @ \ {f}, ![u].truncate = FALSE]
  PROVE  /\ Alone(u) /\ SameEdit(task[u], task'[u])
         /\ task'[u].pc = task[u].pc /\ task'[u].base = task[u].base
         /\ task'[u].todo = task[u].todo \ {f} /\ task'[u].truncate = FALSE
<1>1. PICK F : task[u] \in Task(F)
  BY DEF GitflowInv, TypeOK
<1>2. PICK t : t = task[u]
  OBVIOUS
<1>3. PICK s : s = [t EXCEPT !.todo = @ \ {f}, !.truncate = FALSE]
  OBVIOUS
<1>4. task' = [task EXCEPT ![u] = s]
  BY <1>2, <1>3, Types, Reshape
<1>5. SameEdit(t, s) /\ s.pc = t.pc /\ s.base = t.base /\ s.todo = t.todo \ {f} /\ s.truncate = FALSE
  BY <1>1, <1>2, <1>3 DEF Task, SameEdit
<1>6. QED
  BY <1>2, <1>4, <1>5, Types DEF Alone

LEMMA ReadForm ==
  ASSUME GitflowInv, NEW u \in User, NEW f, NEW x, Reads(u, f, x)
  PROVE  /\ Alone(u) /\ task'[u].pc = task[u].pc /\ task'[u].op = task[u].op
         /\ DOMAIN task'[u].temp = DOMAIN task[u].temp /\ task'[u].todo = task[u].todo \ {f}
         /\ \A g \in DOMAIN task[u].temp : task'[u].temp[g] = IF g = f THEN x ELSE task[u].temp[g]
<1>0. DOMAIN task = User
  BY Types
<1>1. PICK F : task[u] \in Task(F)
  BY DEF GitflowInv, TypeOK
<1>2. PICK t : t = task[u]
  OBVIOUS
<1>3. PICK s : s = [t EXCEPT !.todo = @ \ {f}, !.temp = [@ EXCEPT ![f] = x]]
  OBVIOUS
<1>4. task' = [task EXCEPT ![u] = s]
  <2>1. [task EXCEPT ![u].todo = @ \ {f}, ![u].temp[f] = x] =
          [task EXCEPT ![u] = [task[u] EXCEPT !.todo = @ \ {f}, !.temp = [@ EXCEPT ![f] = x]]]
    BY ONLY <1>0, u \in User
  <2>2. QED
    BY <1>2, <1>3, <2>1 DEF Reads
<1>5. s.pc = t.pc /\ s.op = t.op /\ s.temp = [t.temp EXCEPT ![f] = x] /\ s.todo = t.todo \ {f}
  BY <1>1, <1>2, <1>3 DEF Task
<1>6. Alone(u) /\ task'[u] = s
  BY <1>0, <1>4 DEF Alone
<1>7. /\ DOMAIN s.temp = DOMAIN t.temp
      /\ \A g \in DOMAIN t.temp : s.temp[g] = IF g = f THEN x ELSE t.temp[g]
  BY <1>5
<1>8. QED
  BY <1>2, <1>5, <1>6, <1>7

\* What a new request begins with.
LEMMA NewTasks ==
  ASSUME GitflowInv, NEW u \in User
  PROVE  /\ \A f : SaveOrUpdate(u, f) =>
              /\ Alone(u) /\ task'[u].pc = "open" /\ task'[u].op = "save"
              /\ task'[u].branch = session[u] /\ task'[u].temp = [g \in {f} |-> calls + 2]
              /\ task'[u].result = "none"
         /\ \A f : Remove(u, f) =>
              /\ Alone(u) /\ task'[u].pc = "open" /\ task'[u].op = "delete"
              /\ task'[u].branch = session[u] /\ task'[u].temp = [g \in {f} \cap Generated |-> 0]
              /\ task'[u].result = "none" /\ task'[u].todo = {f}
         /\ \A b : CreateBranch(u, b) =>
              /\ Alone(u) /\ task'[u].pc = "schema" /\ task'[u].op = "create"
              /\ task'[u].branch = b /\ task'[u].temp = Nothing
         /\ \A b : DeleteBranch(u, b) =>
              /\ Alone(u) /\ task'[u].pc = "unpush" /\ task'[u].op = "drop"
              /\ task'[u].branch = b /\ task'[u].temp = Nothing
         /\ \A b : Merge(u, b) =>
              /\ Alone(u) /\ task'[u].pc = (IF Exists(b) THEN "merge" ELSE "idle")
              /\ task'[u].op = "merge" /\ task'[u].base = head[b] /\ task'[u].temp = Nothing
         /\ ExportCurrentBranch(u) =>
              /\ Alone(u) /\ task'[u].pc = "read" /\ task'[u].op = "export"
              /\ task'[u].temp = Empty /\ task'[u].todo = File
         /\ ImportCurrentBranch(u) =>
              /\ Alone(u) /\ task'[u].pc = "import" /\ task'[u].op = "import"
              /\ task'[u].base = head[session[u]] /\ task'[u].temp = Nothing
              /\ task'[u].todo = {f \in File : FilesAt(head[session[u]])[f] # 0}
<1>1. DOMAIN task = User
  BY Types
<1>2. ASSUME NEW s, task' = [task EXCEPT ![u] = s] PROVE Alone(u) /\ task'[u] = s
  BY <1>1, <1>2 DEF Alone
<1>3. ASSUME NEW f, SaveOrUpdate(u, f)
      PROVE  /\ Alone(u) /\ task'[u].pc = "open" /\ task'[u].op = "save"
             /\ task'[u].branch = session[u] /\ task'[u].temp = [g \in {f} |-> calls + 2]
             /\ task'[u].result = "none"
  <2>1. PICK temp : temp = [g \in {f} |-> calls + 2]
    OBVIOUS
  <2>2. PICK s : s = [Idle EXCEPT !.pc = "open", !.op = "save", !.branch = session[u], !.temp = temp]
    OBVIOUS
  <2>3. task' = [task EXCEPT ![u] = s]
    BY <1>3, <2>1, <2>2 DEF SaveOrUpdate
  <2>4. s.pc = "open" /\ s.op = "save" /\ s.branch = session[u] /\ s.temp = temp /\ s.result = "none"
    BY <2>2 DEF Idle
  <2>5. QED
    BY <1>2, <2>1, <2>3, <2>4
<1>4. ASSUME NEW f, Remove(u, f)
      PROVE  /\ Alone(u) /\ task'[u].pc = "open" /\ task'[u].op = "delete"
             /\ task'[u].branch = session[u] /\ task'[u].temp = [g \in {f} \cap Generated |-> 0]
             /\ task'[u].result = "none" /\ task'[u].todo = {f}
  <2>1. PICK temp : temp = [g \in {f} \cap Generated |-> 0]
    OBVIOUS
  <2>2. PICK s : s = [Idle EXCEPT !.pc = "open", !.op = "delete", !.branch = session[u],
                                  !.todo = {f}, !.temp = temp]
    OBVIOUS
  <2>3. task' = [task EXCEPT ![u] = s]
    BY <1>4, <2>1, <2>2 DEF Remove
  <2>4. /\ s.pc = "open" /\ s.op = "delete" /\ s.branch = session[u] /\ s.temp = temp
        /\ s.result = "none" /\ s.todo = {f}
    BY <2>2 DEF Idle
  <2>5. QED
    BY <1>2, <2>1, <2>3, <2>4
<1>5. ASSUME NEW b, CreateBranch(u, b)
      PROVE  /\ Alone(u) /\ task'[u].pc = "schema" /\ task'[u].op = "create"
             /\ task'[u].branch = b /\ task'[u].temp = Nothing
  <2>1. PICK s : s = [Idle EXCEPT !.pc = "schema", !.op = "create", !.branch = b, !.from = session[u]]
    OBVIOUS
  <2>2. task' = [task EXCEPT ![u] = s]
    BY <1>5, <2>1 DEF CreateBranch
  <2>3. s.pc = "schema" /\ s.op = "create" /\ s.branch = b /\ s.temp = Nothing
    BY <2>1 DEF Idle
  <2>4. QED
    BY <1>2, <2>2, <2>3
<1>6. ASSUME NEW b, DeleteBranch(u, b)
      PROVE  /\ Alone(u) /\ task'[u].pc = "unpush" /\ task'[u].op = "drop"
             /\ task'[u].branch = b /\ task'[u].temp = Nothing
  <2>1. PICK s : s = [Idle EXCEPT !.pc = "unpush", !.op = "drop", !.branch = b, !.from = session[u]]
    OBVIOUS
  <2>2. task' = [task EXCEPT ![u] = s]
    BY <1>6, <2>1 DEF DeleteBranch
  <2>3. s.pc = "unpush" /\ s.op = "drop" /\ s.branch = b /\ s.temp = Nothing
    BY <2>1 DEF Idle
  <2>4. QED
    BY <1>2, <2>2, <2>3
<1>7. ASSUME NEW b, Merge(u, b)
      PROVE  /\ Alone(u) /\ task'[u].pc = (IF Exists(b) THEN "merge" ELSE "idle")
             /\ task'[u].op = "merge" /\ task'[u].base = head[b] /\ task'[u].temp = Nothing
  BY <1>2, <1>7 DEF Merge, Idle
<1>8. ASSUME ExportCurrentBranch(u)
      PROVE  /\ Alone(u) /\ task'[u].pc = "read" /\ task'[u].op = "export"
             /\ task'[u].temp = Empty /\ task'[u].todo = File
  BY <1>2, <1>8 DEF ExportCurrentBranch, Idle
<1>9. ASSUME ImportCurrentBranch(u)
      PROVE  /\ Alone(u) /\ task'[u].pc = "import" /\ task'[u].op = "import"
             /\ task'[u].base = head[session[u]] /\ task'[u].temp = Nothing
             /\ task'[u].todo = {f \in File : FilesAt(head[session[u]])[f] # 0}
  <2>1. PICK todo : todo = {f \in File : FilesAt(head[session[u]])[f] # 0}
    OBVIOUS
  <2>2. PICK truncate \in BOOLEAN :
           task' = [task EXCEPT ![u] = [Idle EXCEPT !.pc = "import", !.op = "import",
                      !.truncate = truncate, !.base = head[session[u]], !.todo = todo]]
    BY <1>9, <2>1 DEF ImportCurrentBranch
  <2>3. PICK s : s = [Idle EXCEPT !.pc = "import", !.op = "import", !.truncate = truncate,
                                  !.base = head[session[u]], !.todo = todo]
    OBVIOUS
  <2>4. /\ s.pc = "import" /\ s.op = "import" /\ s.base = head[session[u]]
        /\ s.temp = Nothing /\ s.todo = todo
    BY <2>3 DEF Idle
  <2>5. QED
    BY <1>2, <2>1, <2>2, <2>3, <2>4
<1>10. QED
  BY <1>3, <1>4, <1>5, <1>6, <1>7, <1>8, <1>9

\* The steps of requests that are no edits: the content to write stays, or is read from a row.
LEMMA OtherSteps ==
  ASSUME GitflowInv, NEW u \in User,
         \/ WriteExport(u) \/ TagAsSynced(u) \/ ImportFile(u) \/ ImportFails(u) \/ EndImport(u)
         \/ CreateSchema(u) \/ CopySchema(u) \/ SchemaFails(u)
         \/ PushDeletion(u) \/ DropSchema(u)
         \/ GfsMerge(u) \/ SyncCurrentBranch(u) \/ FindChanges(u)
  PROVE  /\ Alone(u) /\ SameEdit(task[u], task'[u])
         /\ task[u].pc \notin {"idle", "open", "commit", "remove"}
         /\ task'[u].pc \notin {"commit", "remove", "merge"}
         /\ task'[u].pc = "open" => task[u].pc = "read"
<1>1. ASSUME NEW p, p \notin {"commit", "remove", "merge"}, p = "open" => task[u].pc = "read",
             task[u].pc \notin {"idle", "open", "commit", "remove"},
             GoTo(u, p) \/ End(u, "returned") \/ End(u, "failed")
      PROVE  /\ Alone(u) /\ SameEdit(task[u], task'[u])
             /\ task'[u].pc \notin {"commit", "remove", "merge"}
             /\ task'[u].pc = "open" => task[u].pc = "read"
  <2>1. CASE GoTo(u, p)
    BY <1>1, <2>1, GoToForm
  <2>2. CASE End(u, "returned") \/ End(u, "failed")
    BY <2>2, EndForm DEF End
  <2>3. QED
    BY <1>1, <2>1, <2>2
<1>2. CASE WriteExport(u) \/ TagAsSynced(u) \/ ImportFails(u) \/ EndImport(u)
  BY <1>1, <1>2 DEF WriteExport, TagAsSynced, ImportFails, EndImport, At
<1>3. CASE CreateSchema(u) \/ CopySchema(u) \/ SchemaFails(u) \/ PushDeletion(u) \/ DropSchema(u)
  BY <1>1, <1>3 DEF CreateSchema, CopySchema, SchemaFails, PushDeletion, DropSchema, At
<1>4. CASE GfsMerge(u)
  BY <1>1, <1>4 DEF GfsMerge, At
<1>5. CASE ImportFile(u)
  <2>1. At(u, "import")
    BY <1>5 DEF ImportFile
  <2>2. PICK f : task' = [task EXCEPT ![u].todo = @ \ {f}, ![u].truncate = FALSE]
    BY <1>5 DEF ImportFile
  <2>3. Alone(u) /\ SameEdit(task[u], task'[u]) /\ task'[u].pc = task[u].pc
    BY <2>2, ImportForm
  <2>4. QED
    BY <2>1, <2>3 DEF At
<1>6. CASE SyncCurrentBranch(u)
  <2>1. Rebases(u, "compare", head[session[u]]) /\ At(u, "sync")
    BY <1>6 DEF SyncCurrentBranch, Rebases
  <2>2. Alone(u) /\ SameEdit(task[u], task'[u]) /\ task'[u].pc = "compare"
    BY <2>1, BaseForm
  <2>3. QED
    BY <2>1, <2>2 DEF At
<1>7. CASE FindChanges(u) /\ tag[session[u]] = 0
  BY <1>1, <1>7 DEF FindChanges, At
<1>8. CASE FindChanges(u) /\ tag[session[u]] # 0
  <2>1. PICK todo : todo = {f \in ChangedFiles(tag[session[u]], head[Master]) :
                              FilesAt(task[u].base)[f] # 0}
    OBVIOUS
  <2>2. Lists(u, "import", todo) /\ At(u, "compare")
    BY <1>8, <2>1 DEF FindChanges, Lists
  <2>3. Alone(u) /\ SameEdit(task[u], task'[u]) /\ task'[u].pc = "import"
    BY <2>2, TodoForm
  <2>4. QED
    BY <2>2, <2>3 DEF At
<1>9. QED
  BY <1>2, <1>3, <1>4, <1>5, <1>6, <1>7, <1>8

\* The steps of an edit or an export: the content to write stays.
LEMMA WriteSteps ==
  ASSUME GitflowInv, OpsFit, NEW u \in User,
         OpenToWrite(u) \/ CommitFiles(u) \/ CommitRemove(u)
  PROVE  /\ Alone(u) /\ SameEdit(task[u], task'[u])
         /\ task'[u].pc \in {"commit", "open", "idle", "remove", "tag"}
         /\ task'[u].pc \in {"open", "commit"} => task[u].pc \in {"open", "commit"}
         /\ task'[u].pc = "commit" => task'[u].base # 0
         /\ task'[u].pc = "remove" => task[u].op = "delete"
         /\ task'[u].pc = "tag" => task[u].op = "export"
         /\ ~OpenToWrite(u) => task'[u].base = task[u].base
         /\ CommitFiles(u) => task[u].pc = "commit" /\ task'[u].pc # "commit"
         /\ task'[u].pc = "remove" /\ task'[u].result = "returned" => CommitFiles(u)
         /\ task'[u].pc = "idle" /\ task'[u].op = "save" /\ task'[u].result = "returned" => CommitFiles(u)
         /\ CommitRemove(u) => /\ task'[u].pc = "idle" /\ task[u].pc = "remove"
                               /\ task'[u].result \in {task[u].result, "failed"}
<1>1. ASSUME Fail(u), task[u].pc \in {"open", "commit"}
      PROVE  /\ Alone(u) /\ SameEdit(task[u], task'[u])
             /\ task'[u].pc \in {"idle", "remove"}
             /\ task'[u].pc = "remove" => task[u].op = "delete"
             /\ task'[u].base = task[u].base /\ task'[u].result = "failed"
  <2>1. CASE task[u].op = "delete"
    BY <1>1, <2>1, EndForm DEF Fail
  <2>2. CASE task[u].op # "delete"
    BY <1>1, <2>2, EndForm DEF Fail, End
  <2>3. QED
    BY <2>1, <2>2
<1>2. CASE OpenToWrite(u)
  <2>1. At(u, "open")
    BY <1>2 DEF OpenToWrite
  <2>0. ~CommitFiles(u) /\ ~CommitRemove(u)
    BY <2>1 DEF At, CommitFiles, CommitRemove
  <2>2. CASE Exists(session[u])
    <3>1. PICK n : n = head[session[u]] /\ n # 0
      BY <2>2 DEF Exists
    <3>2. Rebases(u, "commit", n)
      BY <1>2, <2>2, <3>1 DEF OpenToWrite, Rebases
    <3>3. Alone(u) /\ SameEdit(task[u], task'[u]) /\ task'[u].pc = "commit" /\ task'[u].base = n
      BY <3>2, BaseForm
    <3>4. QED
      BY <1>2, <2>0, <2>1, <3>1, <3>3 DEF At
  <2>3. CASE ~Exists(session[u])
    <3>1. Fail(u)
      BY <1>2, <2>3 DEF OpenToWrite
    <3>2. QED
      BY <1>1, <1>2, <2>0, <2>1, <3>1 DEF At
  <2>4. QED
    BY <2>2, <2>3
<1>3. CASE CommitFiles(u)
  <2>1. At(u, "commit") /\ task[u].op \in {"save", "delete", "export"}
    BY <1>3, Types DEF CommitFiles, At
  <2>2. \/ task' = [task EXCEPT ![u].pc = NextAfterCommit(task[u].op), ![u].result = "returned"]
        \/ task' = [task EXCEPT ![u].pc = "open", ![u].attempt = @ + 1]
        \/ Fail(u)
    BY <1>3 DEF CommitFiles
  <2>3. CASE task' = [task EXCEPT ![u].pc = NextAfterCommit(task[u].op), ![u].result = "returned"]
    <3>1. /\ Alone(u) /\ SameEdit(task[u], task'[u]) /\ task'[u].pc = NextAfterCommit(task[u].op)
          /\ task'[u].base = task[u].base /\ task'[u].result = "returned"
      BY <2>3, EndForm
    <3>2. QED
      BY <1>3, <2>1, <3>1 DEF At, NextAfterCommit, CommitRemove, OpenToWrite
  <2>4. CASE task' = [task EXCEPT ![u].pc = "open", ![u].attempt = @ + 1]
    <3>1. /\ Alone(u) /\ SameEdit(task[u], task'[u]) /\ task'[u].pc = "open"
          /\ task'[u].base = task[u].base
      BY <2>4, AgainForm
    <3>2. QED
      BY <1>3, <2>1, <3>1 DEF At, CommitRemove
  <2>5. CASE Fail(u)
    BY <1>1, <1>3, <2>1, <2>5 DEF At, CommitRemove
  <2>6. QED
    BY <2>2, <2>3, <2>4, <2>5
<1>4. CASE CommitRemove(u)
  <2>1. At(u, "remove") /\ task[u].op = "delete"
    BY <1>4 DEF CommitRemove, OpsFit, At
  <2>2. GoTo(u, "idle") \/ End(u, "failed")
    BY <1>4 DEF CommitRemove
  <2>3. /\ Alone(u) /\ SameEdit(task[u], task'[u]) /\ task'[u].pc = "idle"
        /\ task'[u].base = task[u].base /\ task'[u].result \in {task[u].result, "failed"}
    BY <2>2, GoToForm, EndForm DEF End
  <2>4. QED
    BY <1>4, <2>1, <2>3 DEF At, OpenToWrite, CommitFiles, SameEdit
<1>5. QED
  BY <1>2, <1>3, <1>4

\* What a step does to the request of a user: nothing, the end of all requests, a step of an
\* edit or export, or one of another request.
Stays(v) == task'[v] = task[v] /\ (task[v].pc \in {"open", "commit"} => session'[v] = session[v])

Turns(v) ==
    /\ task'[v].op \notin {"save", "delete"} /\ task'[v].op \in Ops \cup {task[v].op}
    /\ task'[v].pc \notin {"commit", "remove"}
    /\ task'[v].pc = "open" => task[v].pc = "read"
    /\ task'[v].pc = "merge" => task'[v].base # 0
    /\ \A f \in DOMAIN task'[v].temp :
          \/ f \in DOMAIN task[v].temp /\ task'[v].temp[f] = task[v].temp[f]
          \/ task'[v].temp[f] = 0
          \/ f \in File /\ HasTables(Current(v)) /\ task'[v].temp[f] = db[Current(v)][f]

LEMMA OtherTurns ==
  ASSUME GitflowInv, OpsFit, NEW u \in User,
         \/ \E b \in Branch : CreateBranch(u, b) \/ DeleteBranch(u, b) \/ Merge(u, b)
         \/ ExportCurrentBranch(u) \/ ImportCurrentBranch(u)
         \/ ReadObject(u) \/ WriteExport(u) \/ TagAsSynced(u) \/ ImportFile(u) \/ ImportFails(u) \/ EndImport(u)
         \/ CreateSchema(u) \/ CopySchema(u) \/ SchemaFails(u)
         \/ PushDeletion(u) \/ DropSchema(u)
         \/ GfsMerge(u) \/ SyncCurrentBranch(u) \/ FindChanges(u)
  PROVE  Alone(u) /\ Turns(u)
<1>1. ASSUME NEW b \in Branch, CreateBranch(u, b) \/ DeleteBranch(u, b) \/ Merge(u, b)
      PROVE  Alone(u) /\ Turns(u)
  <2>1. /\ Alone(u) /\ task'[u].temp = Nothing /\ task'[u].op \in Ops
        /\ task'[u].op \in {"create", "drop", "merge"}
        /\ task'[u].pc \in {"schema", "unpush", "merge", "idle"}
        /\ task'[u].pc = "merge" => task'[u].base # 0
    <3>1. CASE CreateBranch(u, b)
      BY <3>1, NewTasks DEF CreateBranch, Begin
    <3>2. CASE DeleteBranch(u, b)
      BY <3>2, NewTasks DEF DeleteBranch, Begin
    <3>3. CASE Merge(u, b)
      <4>1. /\ Alone(u) /\ task'[u].pc = (IF Exists(b) THEN "merge" ELSE "idle")
            /\ task'[u].op = "merge" /\ task'[u].base = head[b] /\ task'[u].temp = Nothing
        BY <3>3, NewTasks
      <4>2. "merge" \in Ops
        BY <3>3 DEF Merge, Begin
      <4>3. QED
        BY <4>1, <4>2 DEF Exists
    <3>4. QED
      BY <1>1, <3>1, <3>2, <3>3
  <2>2. DOMAIN task'[u].temp = {}
    BY <2>1 DEF Nothing
  <2>3. QED
    BY <2>1, <2>2 DEF Turns
<1>2. CASE ImportCurrentBranch(u)
  <2>1. /\ Alone(u) /\ task'[u].temp = Nothing /\ task'[u].op = "import" /\ task'[u].pc = "import"
        /\ "import" \in Ops
    BY <1>2, NewTasks DEF ImportCurrentBranch, Begin
  <2>2. DOMAIN task'[u].temp = {}
    BY <2>1 DEF Nothing
  <2>3. QED
    BY <2>1, <2>2 DEF Turns
<1>3. CASE ExportCurrentBranch(u)
  <2>1. /\ Alone(u) /\ task'[u].temp = Empty /\ task'[u].op = "export" /\ task'[u].pc = "read"
        /\ "export" \in Ops
    BY <1>3, NewTasks DEF ExportCurrentBranch, Begin
  <2>2. \A f \in DOMAIN task'[u].temp : task'[u].temp[f] = 0
    BY <2>1 DEF Empty
  <2>3. QED
    BY <2>1, <2>2 DEF Turns
<1>4. CASE ReadObject(u)
  <2>1. At(u, "read") /\ task[u].op \notin {"save", "delete"}
    BY <1>4 DEF ReadObject, OpsFit, At
  <2>2. CASE HasTables(Current(u))
    <3>0. PICK f \in task[u].todo :
             task' = [task EXCEPT ![u].todo = @ \ {f}, ![u].temp[f] = db[Current(u)][f]]
      BY <1>4, <2>2 DEF ReadObject
    <3>1. PICK x : x = db[Current(u)][f] /\ Reads(u, f, x)
      BY <3>0 DEF Reads
    <3>2. /\ Alone(u) /\ task'[u].pc = task[u].pc /\ task'[u].op = task[u].op
          /\ DOMAIN task'[u].temp = DOMAIN task[u].temp
          /\ \A g \in DOMAIN task[u].temp : task'[u].temp[g] = IF g = f THEN x ELSE task[u].temp[g]
      BY <3>1, ReadForm
    <3>3. task[u].todo \subseteq File
      <4>1. PICK F : task[u] \in Task(F)
        BY DEF GitflowInv, TypeOK
      <4>2. QED
        BY <4>1 DEF Task
    <3>4. \A g \in DOMAIN task'[u].temp :
             \/ g \in DOMAIN task[u].temp /\ task'[u].temp[g] = task[u].temp[g]
             \/ g \in File /\ HasTables(Current(u)) /\ task'[u].temp[g] = db[Current(u)][g]
      BY <2>2, <3>1, <3>2, <3>3
    <3>5. QED
      BY <2>1, <3>2, <3>4 DEF Turns, At
  <2>3. CASE ~HasTables(Current(u))
    <3>1. task' = [task EXCEPT ![u].pc = "idle", ![u].result = "failed"]
      BY <1>4, <2>3 DEF ReadObject, End
    <3>2. Alone(u) /\ SameEdit(task[u], task'[u]) /\ task'[u].pc = "idle"
      BY ONLY <3>1, EndForm, GitflowInv, u \in User
    <3>3. QED
      BY <2>1, <3>2 DEF Turns, SameEdit
  <2>4. QED
    BY <2>2, <2>3
<1>5. CASE \/ WriteExport(u) \/ TagAsSynced(u) \/ ImportFile(u) \/ ImportFails(u) \/ EndImport(u)
           \/ CreateSchema(u) \/ CopySchema(u) \/ SchemaFails(u)
           \/ PushDeletion(u) \/ DropSchema(u)
           \/ GfsMerge(u) \/ SyncCurrentBranch(u) \/ FindChanges(u)
  <2>1. /\ Alone(u) /\ SameEdit(task[u], task'[u])
        /\ task[u].pc \notin {"idle", "open", "commit", "remove"}
        /\ task'[u].pc \notin {"commit", "remove", "merge"}
        /\ task'[u].pc = "open" => task[u].pc = "read"
    BY <1>5, OtherSteps
  <2>2. task[u].op \notin {"save", "delete"}
    BY <2>1 DEF OpsFit
  <2>3. QED
    BY <2>1, <2>2 DEF Turns, SameEdit
<1>6. QED
  BY <1>1, <1>2, <1>3, <1>4, <1>5

LEMMA RequestChanges ==
  ASSUME GitflowInv, OpsFit, Next, NEW v \in User
  PROVE  \/ Stays(v) \/ task'[v] = Idle
         \/ \E f \in File : SaveOrUpdate(v, f) \/ Remove(v, f)
         \/ OpenToWrite(v) \/ CommitFiles(v) \/ CommitRemove(v)
         \/ Turns(v)
<1>1. CASE Restart
  BY <1>1 DEF Restart
<1>2. CASE Quiescent
  BY <1>2 DEF Quiescent, vars, Stays
<1>3. ASSUME NEW u \in User, Alone(u), u # v, session' = session \/ \E b : SetSession(u, b)
      PROVE  Stays(v)
  BY <1>3 DEF Alone, SetSession, Stays, GitflowInv, TypeOK
<1>4. ASSUME NEW u \in User, Alone(u) /\ Turns(u), session' = session \/ \E b : SetSession(u, b)
      PROVE  Stays(v) \/ Turns(v)
  BY <1>3, <1>4
<1>5. ASSUME NEW u \in User, NEW f \in File, SaveOrUpdate(u, f) \/ Remove(u, f)
      PROVE  Stays(v) \/ SaveOrUpdate(v, f) \/ Remove(v, f)
  <2>1. Alone(u) /\ session' = session
    <3>1. CASE SaveOrUpdate(u, f)
      BY <3>1, NewTasks DEF SaveOrUpdate
    <3>2. CASE Remove(u, f)
      BY <3>2, NewTasks DEF Remove
    <3>3. QED
      BY <1>5, <3>1, <3>2
  <2>2. QED
    BY <1>3, <1>5, <2>1
<1>6. ASSUME NEW u \in User, OpenToWrite(u) \/ CommitFiles(u) \/ CommitRemove(u)
      PROVE  Stays(v) \/ OpenToWrite(v) \/ CommitFiles(v) \/ CommitRemove(v)
  <2>1. Alone(u)
    BY <1>6, WriteSteps
  <2>2. session' = session
    BY <1>6 DEF OpenToWrite, CommitFiles, CommitRemove
  <2>3. QED
    BY <1>3, <1>6, <2>1, <2>2
<1>7. ASSUME NEW u \in User, NEW b \in Branch, SetCurrentBranch(u, b) \/ Login(u)
      PROVE  Stays(v)
  <2>1. task' = task /\ At(u, "idle") /\ \E c : SetSession(u, c)
    BY <1>7 DEF SetCurrentBranch, Login, Begin
  <2>2. QED
    BY <2>1 DEF SetSession, Stays, At, GitflowInv, TypeOK
<1>8. ASSUME NEW u \in User,
             \/ \E b \in Branch : CreateBranch(u, b) \/ DeleteBranch(u, b) \/ Merge(u, b)
             \/ ExportCurrentBranch(u) \/ ImportCurrentBranch(u)
             \/ ReadObject(u) \/ WriteExport(u) \/ TagAsSynced(u) \/ ImportFile(u) \/ ImportFails(u) \/ EndImport(u)
             \/ CreateSchema(u) \/ CopySchema(u) \/ SchemaFails(u)
             \/ PushDeletion(u) \/ DropSchema(u)
             \/ GfsMerge(u) \/ SyncCurrentBranch(u) \/ FindChanges(u)
      PROVE  Stays(v) \/ Turns(v)
  <2>1. Alone(u) /\ Turns(u)
    BY <1>8, OtherTurns
  <2>2. session' = session \/ \E b : SetSession(u, b)
    BY <1>8 DEF CreateBranch, DeleteBranch, Merge, ExportCurrentBranch, ImportCurrentBranch,
       ReadObject, WriteExport, TagAsSynced, ImportFile, ImportFails, EndImport, CreateSchema, CopySchema,
       SchemaFails, PushDeletion, DropSchema, GfsMerge, SyncCurrentBranch, FindChanges
  <2>3. QED
    BY <1>4, <2>1, <2>2
<1>9. ASSUME NEW u \in User,
             \/ \E f \in File : SaveOrUpdate(u, f) \/ Remove(u, f)
             \/ \E b \in Branch : \/ CreateBranch(u, b) \/ DeleteBranch(u, b)
                                  \/ SetCurrentBranch(u, b) \/ Merge(u, b)
             \/ ExportCurrentBranch(u) \/ ImportCurrentBranch(u) \/ Login(u)
             \/ Step(u)
      PROVE  \/ Stays(v)
             \/ \E f \in File : SaveOrUpdate(v, f) \/ Remove(v, f)
             \/ OpenToWrite(v) \/ CommitFiles(v) \/ CommitRemove(v)
             \/ Turns(v)
  <2>1. CASE \E f \in File : SaveOrUpdate(u, f) \/ Remove(u, f)
    BY <1>5, <2>1
  <2>2. CASE OpenToWrite(u) \/ CommitFiles(u) \/ CommitRemove(u)
    BY <1>6, <2>2
  <2>3. CASE (\E b \in Branch : SetCurrentBranch(u, b)) \/ Login(u)
    <3>1. \E b \in Branch : SetCurrentBranch(u, b) \/ Login(u)
      BY <2>3, GitflowConstants
    <3>2. QED
      BY <1>7, <3>1
  <2>4. CASE \/ \E b \in Branch : CreateBranch(u, b) \/ DeleteBranch(u, b) \/ Merge(u, b)
             \/ ExportCurrentBranch(u) \/ ImportCurrentBranch(u)
             \/ ReadObject(u) \/ WriteExport(u) \/ TagAsSynced(u) \/ ImportFile(u) \/ ImportFails(u) \/ EndImport(u)
             \/ CreateSchema(u) \/ CopySchema(u) \/ SchemaFails(u)
             \/ PushDeletion(u) \/ DropSchema(u)
             \/ GfsMerge(u) \/ SyncCurrentBranch(u) \/ FindChanges(u)
    BY <1>8, <2>4
  <2>5. QED
    BY <1>9, <2>1, <2>2, <2>3, <2>4 DEF Step
<1>10. QED
  BY <1>1, <1>2, <1>9 DEF Next

\* Who writes rows, and what they write.
RowIsKnown(s, f) ==
    \/ db'[s][f] = 0
    \/ HasTables(s) /\ db'[s][f] = db[s][f]
    \/ db'[s][f] = calls + 2 /\ calls' = calls + 1
    \/ \E n \in DOMAIN hist : db'[s][f] = hist[n].files[f]

Rewritten(s) ==
    /\ DOMAIN db' = Schema /\ \A r \in Schema \ {s} : db'[r] = db[r]
    /\ \/ db'[s] \in {NoSchema, NoTables, Empty}
       \/ \E r \in Schema : HasTables(r) /\ db'[s] = db[r]
       \/ db'[s] \in Content /\ \A f \in File : RowIsKnown(s, f)

RowsWritten ==
    \/ db' = db
    \/ \E s \in Schema : Rewritten(s)
    \/ db' = [s \in Schema |-> IF db[s] = NoTables /\ \E b \in Branch \ {Master} : Exists(b) /\ SchemaOf[b] = s
                             THEN Empty ELSE db[s]]

LEMMA CallsAndRows ==
  ASSUME GitflowInv, Next
  PROVE  calls' \in {calls, calls + 1} /\ RowsWritten
<1>0. /\ db \in [Schema -> Content \cup {NoSchema, NoTables}] /\ Empty \in Content
      /\ \A b \in Branch : SchemaOf[b] \in Schema
  BY GitflowConstants DEF GitflowInv, TypeOK, Empty, Content
<1>1. ASSUME NEW s \in Schema, NEW x, db' = [db EXCEPT ![s] = x]
      PROVE  DOMAIN db' = Schema /\ db'[s] = x /\ \A r \in Schema \ {s} : db'[r] = db[r]
  BY <1>0, <1>1
<1>2. CASE Restart
  BY <1>2 DEF Restart, RowsWritten
<1>3. CASE Quiescent
  BY <1>3 DEF Quiescent, vars, RowsWritten
<1>4. ASSUME NEW u \in User, NEW f \in File, SaveOrUpdate(u, f)
      PROVE  calls' = calls + 1 /\ RowsWritten
  <2>1. /\ Current(u) \in Schema /\ HasTables(Current(u)) /\ calls' = calls + 1
        /\ db' = [db EXCEPT ![Current(u)][f] = calls + 2]
    BY <1>4, Types DEF SaveOrUpdate, Begin
  <2>2. db[Current(u)] \in [File -> Nat] /\ calls \in Nat
    BY <2>1, Types
  <2>3. PICK x : x = [db[Current(u)] EXCEPT ![f] = calls + 2]
    OBVIOUS
  <2>4. db' = [db EXCEPT ![Current(u)] = x]
    BY <1>0, <2>1, <2>3
  <2>5. x \in Content /\ \A g \in File : x[g] = calls + 2 \/ x[g] = db[Current(u)][g]
    BY <2>2, <2>3 DEF Content
  <2>6. PICK s \in Schema : s = Current(u)
    BY <2>1
  <2>7. db' = [db EXCEPT ![s] = x]
    BY <2>4, <2>6
  <2>8. DOMAIN db' = Schema /\ db'[s] = x /\ \A r \in Schema \ {s} : db'[r] = db[r]
    BY <1>1, <2>7
  <2>9. \A g \in File : RowIsKnown(s, g)
    BY <2>1, <2>5, <2>6, <2>8 DEF RowIsKnown
  <2>10. QED
    BY <2>1, <2>5, <2>8, <2>9 DEF RowsWritten, Rewritten
<1>5. ASSUME NEW u \in User, CommitRemove(u)
      PROVE  RowsWritten
  <2>1. CASE HasTables(Current(u))
    <3>1. PICK x : x = [f \in File |-> IF f \in task[u].todo THEN 0 ELSE db[Current(u)][f]]
      OBVIOUS
    <3>2. db' = [db EXCEPT ![Current(u)] = x] /\ Current(u) \in Schema
      BY <1>0, <1>5, <2>1, <3>1, Types DEF CommitRemove
    <3>3. db[Current(u)] \in [File -> Nat]
      BY <2>1, <3>2, Types
    <3>4. x \in Content /\ \A f \in File : x[f] = 0 \/ x[f] = db[Current(u)][f]
      BY <3>1, <3>3 DEF Content
    <3>5. PICK s \in Schema : s = Current(u)
      BY <3>2
    <3>6. db' = [db EXCEPT ![s] = x]
      BY <3>2, <3>5
    <3>7. DOMAIN db' = Schema /\ db'[s] = x /\ \A r \in Schema \ {s} : db'[r] = db[r]
      BY <1>1, <3>6
    <3>8. \A g \in File : RowIsKnown(s, g)
      <4>1. HasTables(s) /\ \A g \in File : db'[s][g] = 0 \/ db'[s][g] = db[s][g]
        BY <2>1, <3>4, <3>5, <3>7
      <4>2. QED
        BY <4>1 DEF RowIsKnown
    <3>9. QED
      BY <3>4, <3>7, <3>8 DEF RowsWritten, Rewritten
  <2>2. QED
    BY <1>5, <2>1 DEF CommitRemove, RowsWritten
<1>6. ASSUME NEW u \in User, ImportFile(u)
      PROVE  RowsWritten
  <2>1. CASE db' # db
    <3>1. PICK f \in task[u].todo : /\ HasTables(Current(u)) /\ Current(u) \in Schema
                                    /\ db' = [db EXCEPT ![Current(u)] =
                                                 [Rows(u) EXCEPT ![f] = FilesAt(task[u].base)[f]]]
      BY <1>6, <2>1, Types DEF ImportFile
    <3>2. PICK x : x = [Rows(u) EXCEPT ![f] = FilesAt(task[u].base)[f]]
      OBVIOUS
    <3>3. db[Current(u)] \in [File -> Nat]
      BY <3>1, Types
    <3>4. Rows(u) \in [File -> Nat] /\ \A g \in File : Rows(u)[g] = 0 \/ Rows(u)[g] = db[Current(u)][g]
      BY <3>3 DEF Rows, Empty
    <3>5. FilesAt(task[u].base) = Empty \/ \E n \in DOMAIN hist : FilesAt(task[u].base) = hist[n].files
      BY Types DEF FilesAt
    <3>6. FilesAt(task[u].base) \in [File -> Nat]
      BY <1>0, <3>5, Types DEF Content
    <3>7. /\ x \in Content
          /\ \A g \in File : x[g] = Rows(u)[g] \/ x[g] = FilesAt(task[u].base)[g]
      BY <3>2, <3>4, <3>6 DEF Content
    <3>8. \A g \in File : \/ FilesAt(task[u].base)[g] = 0
                          \/ \E n \in DOMAIN hist : FilesAt(task[u].base)[g] = hist[n].files[g]
      BY <3>5 DEF Empty
    <3>9. db' = [db EXCEPT ![Current(u)] = x]
      BY <3>1, <3>2
    <3>10. \A g \in File : \/ x[g] = 0 \/ x[g] = db[Current(u)][g]
                           \/ \E n \in DOMAIN hist : x[g] = hist[n].files[g]
      BY <3>4, <3>7, <3>8
    <3>11. PICK s \in Schema : s = Current(u)
      BY <3>1
    <3>12. db' = [db EXCEPT ![s] = x]
      BY <3>9, <3>11
    <3>13. DOMAIN db' = Schema /\ db'[s] = x /\ \A r \in Schema \ {s} : db'[r] = db[r]
      BY <1>1, <3>12
    <3>14. \A g \in File : RowIsKnown(s, g)
      <4>1. HasTables(s) /\ \A g \in File : \/ db'[s][g] = 0 \/ db'[s][g] = db[s][g]
                                            \/ \E n \in DOMAIN hist : db'[s][g] = hist[n].files[g]
        BY <3>1, <3>10, <3>11, <3>13
      <4>2. QED
        BY <4>1 DEF RowIsKnown
    <3>15. QED
      BY <3>7, <3>13, <3>14 DEF RowsWritten, Rewritten
  <2>2. QED
    BY <2>1 DEF RowsWritten
<1>7. ASSUME NEW u \in User,
             ImportFails(u) \/ EndImport(u) \/ CreateSchema(u) \/ CopySchema(u) \/ DropSchema(u)
      PROVE  RowsWritten
  <2>1. Current(u) \in Schema /\ SchemaOf[task[u].branch] \in Schema /\ SchemaOf[task[u].from] \in Schema
    BY <1>0, Types
  <2>2. CASE ImportFails(u) \/ EndImport(u)
    <3>1. db' = db \/ db' = [db EXCEPT ![Current(u)] = Empty]
      BY <2>2 DEF ImportFails, EndImport
    <3>2. QED
      BY <1>1, <2>1, <3>1 DEF RowsWritten, Rewritten
  <2>3. CASE CreateSchema(u) \/ DropSchema(u)
    <3>1. PICK x \in {NoTables, NoSchema} : db' = [db EXCEPT ![SchemaOf[task[u].branch]] = x]
      BY <2>3 DEF CreateSchema, DropSchema
    <3>2. QED
      BY <1>1, <2>1, <3>1 DEF RowsWritten, Rewritten
  <2>4. CASE CopySchema(u)
    <3>1. PICK x : /\ x = IF HasTables(SchemaOf[task[u].from]) THEN db[SchemaOf[task[u].from]] ELSE Empty
                   /\ db' = [db EXCEPT ![SchemaOf[task[u].branch]] = x]
      BY <2>4 DEF CopySchema
    <3>2. PICK s \in Schema : s = SchemaOf[task[u].branch]
      BY <2>1
    <3>3. db' = [db EXCEPT ![s] = x]
      BY <3>1, <3>2
    <3>4. DOMAIN db' = Schema /\ db'[s] = x /\ \A r \in Schema \ {s} : db'[r] = db[r]
      BY <1>1, <3>3
    <3>5. x = Empty \/ \E r \in Schema : HasTables(r) /\ x = db[r]
      BY <2>1, <3>1
    <3>6. QED
      BY <3>4, <3>5 DEF RowsWritten, Rewritten
  <2>5. QED
    BY <1>7, <2>2, <2>3, <2>4
<1>8. ASSUME NEW u \in User, Step(u)
      PROVE  calls' = calls /\ RowsWritten
  <2>1. calls' = calls
    BY <1>8 DEF Step, OpenToWrite, CommitFiles, CommitRemove, ReadObject, WriteExport, TagAsSynced,
       ImportFile, ImportFails, EndImport, CreateSchema, CopySchema, SchemaFails, PushDeletion, DropSchema,
       GfsMerge, SyncCurrentBranch, FindChanges
  <2>2. \/ db' = db \/ CommitRemove(u) \/ ImportFile(u) \/ ImportFails(u)
        \/ EndImport(u) \/ CreateSchema(u) \/ CopySchema(u) \/ DropSchema(u)
    BY <1>8 DEF Step, OpenToWrite, CommitFiles, ReadObject, WriteExport, TagAsSynced,
       SchemaFails, PushDeletion, GfsMerge, SyncCurrentBranch, FindChanges
  <2>3. RowsWritten
    BY <1>5, <1>6, <1>7, <2>2 DEF RowsWritten
  <2>4. QED
    BY <2>1, <2>3
<1>9. ASSUME NEW u \in User,
             \/ \E f \in File : Remove(u, f)
             \/ \E b \in Branch : \/ CreateBranch(u, b) \/ DeleteBranch(u, b)
                                  \/ SetCurrentBranch(u, b) \/ Merge(u, b)
             \/ ExportCurrentBranch(u) \/ ImportCurrentBranch(u) \/ Login(u)
      PROVE  calls' = calls + 1 /\ db' = db
  BY <1>9 DEF Remove, CreateBranch, DeleteBranch, SetCurrentBranch, Merge,
     ExportCurrentBranch, ImportCurrentBranch, Login, Begin
<1>10. CASE \E u \in User : Step(u) \/ \E f \in File : SaveOrUpdate(u, f)
  BY <1>4, <1>8, <1>10
<1>11. CASE ~\E u \in User : Step(u) \/ \E f \in File : SaveOrUpdate(u, f)
  <2>1. CASE Restart \/ Quiescent
    BY <1>2, <1>3, <2>1 DEF Restart, Quiescent, vars
  <2>2. CASE ~(Restart \/ Quiescent)
    <3>1. PICK u \in User :
             \/ \E f \in File : Remove(u, f)
             \/ \E b \in Branch : \/ CreateBranch(u, b) \/ DeleteBranch(u, b)
                                  \/ SetCurrentBranch(u, b) \/ Merge(u, b)
             \/ ExportCurrentBranch(u) \/ ImportCurrentBranch(u) \/ Login(u)
      BY <1>11, <2>2 DEF Next
    <3>2. QED
      BY <1>9, <3>1 DEF RowsWritten
  <2>3. QED
    BY <2>1, <2>2
<1>12. QED
  BY <1>10, <1>11

\* The parts of LineageInv, one by one.
LEMMA HistoryAddsUpStep ==
  ASSUME GitflowInv, BasesExist, HistoryAddsUp, Next
  PROVE  HistoryAddsUp'
<1>1. ASSUME NEW parents \in SUBSET (1 .. Len(hist)), NEW files, Adds(parents, files)
      PROVE  HistoryAddsUp'
  <2> SUFFICES ASSUME NEW n \in DOMAIN hist'
               PROVE  /\ hist'[n].parents \subseteq 1 .. (n - 1)
                      /\ hist'[n].past = (UNION {hist'[p].past : p \in hist'[n].parents}) \cup {n}
    BY DEF HistoryAddsUp
  <2>1. /\ DOMAIN hist = 1 .. Len(hist) /\ Len(hist) \in Nat /\ n \in 1 .. (Len(hist) + 1)
        /\ \A m \in 1 .. Len(hist) : hist'[m] = hist[m]
    BY <1>1, Types DEF Adds
  <2>2. CASE n \in 1 .. Len(hist)
    <3>1. hist'[n] = hist[n] /\ hist[n].parents \subseteq 1 .. (n - 1)
          /\ hist[n].past = (UNION {hist[p].past : p \in hist[n].parents}) \cup {n}
      BY <2>1, <2>2 DEF HistoryAddsUp
    <3>2. \A p \in hist[n].parents : hist'[p] = hist[p]
      BY <2>1, <2>2, <3>1
    <3>3. {hist'[p].past : p \in hist'[n].parents} = {hist[p].past : p \in hist[n].parents}
      BY <3>1, <3>2
    <3>4. QED
      BY <3>1, <3>3
  <2>3. CASE n = Len(hist) + 1
    <3>1. /\ hist'[n].parents = parents
          /\ hist'[n].past = (UNION {hist[p].past : p \in parents}) \cup {n}
      BY <1>1, <2>3 DEF Adds
    <3>2. {hist'[p].past : p \in hist'[n].parents} = {hist[p].past : p \in parents}
      BY <2>1, <3>1
    <3>3. parents \subseteq 1 .. (n - 1)
      BY <2>1, <2>3
    <3>4. QED
      BY <3>1, <3>2, <3>3
  <2>4. QED
    BY <2>1, <2>2, <2>3
<1>2. CASE hist' = hist
  BY <1>2 DEF HistoryAddsUp
<1>3. CASE \E u \in User : Written(u)
  <2>1. PICK u \in User : Written(u)
    BY <1>3
  <2>2. QED
    BY <1>1, <2>1 DEF Written
<1>4. CASE \E u \in User : Joined(u)
  <2>1. PICK u \in User : Joined(u)
    BY <1>4
  <2>2. QED
    BY <1>1, <2>1 DEF Joined
<1>5. QED
  BY <1>2, <1>3, <1>4, HistoryChanges

LEMMA BasesAndOpsStep ==
  ASSUME GitflowInv, BasesExist, OpsFit, Next
  PROVE  BasesExist' /\ OpsFit'
<1> SUFFICES ASSUME NEW u \in User
             PROVE  /\ task'[u].pc \in {"commit", "merge"} => task'[u].base # 0
                    /\ task'[u].pc = "remove" => task'[u].op = "delete"
                    /\ task'[u].pc \notin {"idle", "open", "commit", "remove"}
                          => task'[u].op \notin {"save", "delete"}
  BY DEF BasesExist, OpsFit
<1>1. CASE Stays(u)
  BY <1>1 DEF Stays, BasesExist, OpsFit
<1>2. CASE task'[u] = Idle
  BY <1>2 DEF Idle
<1>3. CASE \E f \in File : SaveOrUpdate(u, f) \/ Remove(u, f)
  <2>1. task'[u].pc = "open"
    BY <1>3, NewTasks
  <2>2. QED
    BY <2>1
<1>4. CASE OpenToWrite(u) \/ CommitFiles(u) \/ CommitRemove(u)
  BY <1>4, WriteSteps DEF SameEdit
<1>5. CASE Turns(u)
  BY <1>5 DEF Turns
<1>6. QED
  BY <1>1, <1>2, <1>3, <1>4, <1>5, RequestChanges

LEMMA CommitsFitStep ==
  ASSUME GitflowInv, BasesExist, CommitsFit, TempsFit, Next
  PROVE  CommitsFit'
<1>1. /\ calls \in Nat /\ calls' \in Nat /\ calls <= calls' /\ Len(hist) \in Nat
      /\ DOMAIN hist = 1 .. Len(hist)
      /\ \A n \in DOMAIN hist : hist[n].files \in [File -> Nat]
  BY Types, CallsAndRows
<1>2. ASSUME NEW parents, NEW files, Adds(parents, files),
             \A f \in File : files[f] \in Nat /\ files[f] <= calls + 1
      PROVE  CommitsFit'
  <2>1. \A n \in DOMAIN hist' : hist'[n].files = files \/ (n \in DOMAIN hist /\ hist'[n] = hist[n])
    BY <1>1, <1>2 DEF Adds
  <2>2. QED
    BY <1>1, <1>2, <2>1 DEF CommitsFit
<1>3. CASE hist' = hist
  BY <1>1, <1>3 DEF CommitsFit
<1>4. CASE \E u \in User : Written(u)
  <2>1. PICK u \in User : Written(u)
    BY <1>4
  <2>2. PICK F \in SUBSET File : task[u] \in Task(F)
    BY DEF GitflowInv, TypeOK
  <2>3. task[u].temp \in [F -> Nat]
    BY <2>2 DEF Task
  <2> DEFINE files == Overlay(task[u].temp, hist[task[u].base].files)
  <2>4. \A f \in File : files[f] \in Nat /\ files[f] <= calls + 1
    BY <1>1, <2>1, <2>3 DEF Overlay, TempsFit, CommitsFit, Written
  <2>5. QED
    BY <1>2, <2>1, <2>4 DEF Written
<1>5. CASE \E u \in User : Joined(u)
  <2>1. PICK u \in User : Joined(u)
    BY <1>5
  <2>2. PICK ours \in 1 .. Len(hist), theirs \in 1 .. Len(hist) :
           \E base : Adds({ours, theirs}, Merged(base, ours, theirs))
    BY <2>1 DEF Joined
  <2>b. PICK base : Adds({ours, theirs}, Merged(base, ours, theirs))
    BY <2>2
  <2>3. FilesAt(ours) = hist[ours].files /\ FilesAt(theirs) = hist[theirs].files
    BY DEF FilesAt
  <2> DEFINE files == Merged(base, ours, theirs)
  <2>4. \A f \in File : files[f] \in Nat /\ files[f] <= calls + 1
    BY <1>1, <2>3 DEF Merged, CommitsFit
  <2>5. QED
    BY <1>2, <2>b, <2>4
<1>6. QED
  BY <1>3, <1>4, <1>5, HistoryChanges

LEMMA RowsFitStep ==
  ASSUME GitflowInv, CommitsFit, RowsFit, Next
  PROVE  RowsFit'
<1>1. /\ calls \in Nat /\ calls' \in Nat /\ calls <= calls'
      /\ \A n \in DOMAIN hist : \A f \in File : hist[n].files[f] \in Nat
      /\ \A s \in Schema : HasTables(s) => db[s] \in [File -> Nat]
  BY Types, CallsAndRows
<1> SUFFICES ASSUME NEW s \in Schema, HasTables(s)', NEW f \in File
             PROVE  db'[s][f] <= calls' + 1
  BY DEF RowsFit
<1>2. db'[s] \notin {NoSchema, NoTables}
  BY DEF HasTables
<1>a. ASSUME NEW k \in Nat PROVE 0 <= k + 1
  OBVIOUS
<1>b. 0 <= calls' + 1
  BY <1>1, <1>a
<1>0. ASSUME NEW x, x = 0 PROVE x <= calls' + 1
  BY <1>0, <1>b
<1>3. ASSUME NEW r \in Schema, HasTables(r), db'[s] = db[r]
      PROVE  db'[s][f] <= calls' + 1
  BY <1>1, <1>3 DEF RowsFit
<1>4. ASSUME db'[s] = db[s]
      PROVE  db'[s][f] <= calls' + 1
  BY <1>2, <1>3, <1>4 DEF HasTables
<1>5. ASSUME db'[s] = Empty
      PROVE  db'[s][f] <= calls' + 1
  BY <1>0, <1>5 DEF Empty
<1>6. ASSUME NEW r \in Schema, Rewritten(r)
      PROVE  db'[s][f] <= calls' + 1
  <2>1. CASE s # r
    BY <1>4, <1>6, <2>1 DEF Rewritten
  <2>2. CASE s = r
    <3>1. CASE db'[s] = Empty \/ \E q \in Schema : HasTables(q) /\ db'[s] = db[q]
      BY <1>3, <1>5, <3>1
    <3>2. CASE RowIsKnown(s, f)
      <4>1. CASE db'[s][f] = 0
        BY <1>0, <4>1
      <4>2. CASE HasTables(s) /\ db'[s][f] = db[s][f]
        BY <1>1, <4>2 DEF RowsFit
      <4>3. CASE db'[s][f] = calls + 2 /\ calls' = calls + 1
        BY <1>1, <4>3
      <4>4. CASE \E n \in DOMAIN hist : db'[s][f] = hist[n].files[f]
        BY <1>1, <4>4 DEF CommitsFit
      <4>5. QED
        BY <3>2, <4>1, <4>2, <4>3, <4>4 DEF RowIsKnown
    <3>3. QED
      BY <1>2, <1>6, <2>2, <3>1, <3>2 DEF Rewritten
  <2>3. QED
    BY <2>1, <2>2
<1>7. CASE db' = db
  BY <1>4, <1>7
<1>8. CASE db' = [r \in Schema |-> IF db[r] = NoTables /\ \E b \in Branch \ {Master} : Exists(b) /\ SchemaOf[b] = r
                               THEN Empty ELSE db[r]]
  <2>1. db'[s] \in {Empty, db[s]}
    BY <1>8
  <2>2. QED
    BY <1>4, <1>5, <2>1
<1>9. QED
  BY <1>6, <1>7, <1>8, CallsAndRows DEF RowsWritten

LEMMA TempsFitStep ==
  ASSUME GitflowInv, OpsFit, RowsFit, TempsFit, Next
  PROVE  TempsFit'
<1>1. /\ calls \in Nat /\ calls' \in Nat /\ calls <= calls'
      /\ \A s \in Schema : HasTables(s) => db[s] \in [File -> Nat]
  BY Types, CallsAndRows
<1> SUFFICES ASSUME NEW u \in User, NEW f \in DOMAIN task'[u].temp
             PROVE  task'[u].temp[f] <= calls' + 1
  BY DEF TempsFit
<1>2. ASSUME f \in DOMAIN task[u].temp, task'[u].temp[f] = task[u].temp[f]
      PROVE  task'[u].temp[f] <= calls' + 1
  <2>1. PICK F \in SUBSET File : task[u] \in Task(F)
    BY DEF GitflowInv, TypeOK
  <2>2. task[u].temp[f] \in Nat
    BY <1>2, <2>1 DEF Task
  <2>3. QED
    BY <1>1, <1>2, <2>2 DEF TempsFit
<1>3. CASE Stays(u)
  BY <1>2, <1>3 DEF Stays
<1>4. CASE task'[u] = Idle
  BY <1>4 DEF Idle, Nothing
<1>5. ASSUME NEW g \in File, SaveOrUpdate(u, g)
      PROVE  task'[u].temp[f] <= calls' + 1
  <2>1. task'[u].temp = [h \in {g} |-> calls + 2]
    BY <1>5, NewTasks
  <2>2. calls' = calls + 1
    BY <1>5 DEF SaveOrUpdate, Begin
  <2>3. QED
    BY <1>1, <2>1, <2>2
<1>6. ASSUME NEW g \in File, Remove(u, g)
      PROVE  task'[u].temp[f] <= calls' + 1
  <2>1. task'[u].temp = [h \in {g} \cap Generated |-> 0]
    BY <1>6, NewTasks
  <2>2. QED
    BY <1>1, <2>1
<1>7. CASE OpenToWrite(u) \/ CommitFiles(u) \/ CommitRemove(u)
  <2>1. task'[u].temp = task[u].temp
    BY <1>7, WriteSteps DEF SameEdit
  <2>2. QED
    BY <1>2, <2>1
<1>8. CASE Turns(u)
  <2>a. ASSUME NEW k \in Nat PROVE 0 <= k + 1
    OBVIOUS
  <2>0. 0 <= calls' + 1
    BY <1>1, <2>a
  <2>1. CASE task'[u].temp[f] = 0
    BY <2>0, <2>1
  <2>2. CASE f \in File /\ HasTables(Current(u)) /\ task'[u].temp[f] = db[Current(u)][f]
    <3>1. Current(u) \in Schema
      BY Types
    <3>2. QED
      BY <1>1, <2>2, <3>1 DEF RowsFit
  <2>3. QED
    BY <1>2, <1>8, <2>1, <2>2 DEF Turns
<1>9. QED
  BY <1>3, <1>4, <1>5, <1>6, <1>7, <1>8, RequestChanges

LEMMA LineageStep ==
  ASSUME GitflowInv, LineageInv, [Next]_vars
  PROVE  LineageInv'
<1>1. CASE Next
  BY <1>1, HistoryAddsUpStep, BasesAndOpsStep, CommitsFitStep, RowsFitStep, TempsFitStep DEF LineageInv
<1>2. CASE UNCHANGED vars
  BY <1>2 DEF vars, LineageInv, HistoryAddsUp, BasesExist, CommitsFit, RowsFit, TempsFit, OpsFit, HasTables
<1>3. QED
  BY <1>1, <1>2

LEMMA LineageStart == Init => LineageInv
<1> SUFFICES ASSUME Init PROVE LineageInv
  OBVIOUS
<1>1. PICK files \in {Empty, [f \in File |-> 1]} :
          /\ hist = <<[parents |-> {}, past |-> {1}, files |-> files]>>
          /\ db = [s \in Schema |-> IF s = SchemaOf[Master] THEN files ELSE NoSchema]
  BY DEF Init
<1>2. /\ DOMAIN hist = {1} /\ hist[1].parents = {} /\ hist[1].past = {1} /\ hist[1].files = files
      /\ calls = 0 /\ \A u \in User : task[u] = Idle
  BY <1>1 DEF Init
<1>3. \A f \in File : files[f] <= 1
  BY DEF Empty
<1>4. HistoryAddsUp
  BY <1>2 DEF HistoryAddsUp
<1>5. CommitsFit /\ RowsFit
  BY <1>1, <1>2, <1>3 DEF CommitsFit, RowsFit, HasTables
<1>6. BasesExist /\ TempsFit /\ OpsFit
  BY <1>2 DEF BasesExist, TempsFit, OpsFit, Idle, Nothing
<1>7. QED
  BY <1>4, <1>5, <1>6 DEF LineageInv

\* For any users, branches and requests: the past of a commit of GitflowSvc is what its
\* parents reach, a write or a merge starts from a commit that exists, and no row, file or
\* write of a request is newer than the requests there were.
THEOREM LineageCorrect == Spec => []LineageInv
<1>1. GitflowInv /\ GitflowInv' /\ LineageInv /\ [Next]_vars => LineageInv'
  BY LineageStep
<1>2. QED
  BY <1>1, LineageStart, GitflowInvCorrect, PTL DEF Spec

-----------------------------------------------------------------------------
(***************************************************************************)
(* Edits stay in git, when nobody edits the objects of another and no      *)
(* request writes all the objects at once.  A version of an object has a   *)
(* source: the commit that brought it.  It is the version of the commits   *)
(* that have the source in their past, and of no others: a merge takes     *)
(* it from the side that has the source, for the base, without the source, *)
(* has another version.                                                    *)
(***************************************************************************)
EditorsApart ==
    /\ \A u, v \in User : u # v => Edits[u] \cap Edits[v] = {}
    /\ Ops \cap {"export", "drop"} = {}

Source(H, e, f, v) == \A n \in DOMAIN H : H[n].files[f] = v <=> e \in H[n].past

Unwritten(H, f, v) == \A n \in DOMAIN H : H[n].files[f] # v

OnBranch(H, h, b, e) == h[b] # 0 /\ e \in H[h[b]].past

\* What a request is about to write, has saved, and has deleted.
WritesFit(H, t, u, b) ==
    /\ t.op \in {"save", "delete"} /\ t.branch = b /\ DOMAIN t.temp \subseteq Edits[u]
    /\ \A f \in DOMAIN t.temp :
          IF t.op = "save" THEN t.temp[f] # 0 /\ Unwritten(H, f, t.temp[f]) ELSE t.temp[f] = 0

SavedFits(H, h, t, u) ==
    /\ DOMAIN t.temp \subseteq Edits[u]
    /\ \A f \in DOMAIN t.temp :
          \E e \in DOMAIN H : Source(H, e, f, t.temp[f]) /\ OnBranch(H, h, t.branch, e)

OnlySource(H, e, f, base) ==
    /\ H[e].parents = {base}
    /\ \A n \in DOMAIN H : H[n].files[f] = 0 => e \in H[n].past

DeletedFits(H, h, t, u) ==
    /\ DOMAIN t.temp \subseteq Edits[u]
    /\ \A f \in DOMAIN t.temp :
          /\ t.temp[f] = 0
          /\ \E n \in DOMAIN H : H[n].files[f] = 0
          /\ \A e \in DOMAIN H : OnlySource(H, e, f, t.base)
                => Source(H, e, f, 0) /\ OnBranch(H, h, t.branch, e)

EditFits(H, h, t, u, b) ==
    /\ t.op \notin {"export", "drop"}
    /\ t.pc \in {"open", "commit"} => WritesFit(H, t, u, b)
    /\ t.pc = "idle" /\ t.op = "save" /\ t.result = "returned" => SavedFits(H, h, t, u)
    /\ t.pc \in {"remove", "idle"} /\ t.op = "delete" /\ t.result = "returned"
          => DeletedFits(H, h, t, u)

EditsFit == \A u \in User : EditFits(hist, head, task[u], u, session[u])

\* The history only grows, by one commit.
LEMMA HistoryGrows ==
  ASSUME GitflowInv, BasesExist, Next
  PROVE  /\ \A n \in DOMAIN hist : n \in DOMAIN hist' /\ hist'[n] = hist[n]
         /\ DOMAIN hist' \subseteq DOMAIN hist \cup {Len(hist) + 1}
<1>1. CASE hist' = hist
  BY <1>1
<1>2. ASSUME NEW parents, NEW files, Adds(parents, files)
      PROVE  /\ \A n \in DOMAIN hist : n \in DOMAIN hist' /\ hist'[n] = hist[n]
             /\ DOMAIN hist' \subseteq DOMAIN hist \cup {Len(hist) + 1}
  BY <1>2, Types DEF Adds
<1>3. QED
  BY <1>1, <1>2, HistoryChanges DEF Written, Joined

\* The commit or merge of others keeps the source of a version.
LEMMA SourcesStay ==
  ASSUME GitflowInv, BasesExist, Next, NEW f \in File, NEW v,
         \A w \in User : CommitFiles(w) => f \notin DOMAIN task[w].temp
  PROVE  /\ \A e \in DOMAIN hist : Source(hist, e, f, v) => Source(hist', e, f, v)
         /\ Unwritten(hist, f, v) => Unwritten(hist', f, v)
<1>1. CASE hist' = hist
  BY <1>1
<1>2. ASSUME NEW w \in User, CommitFiles(w), Written(w)
      PROVE  /\ \A e \in DOMAIN hist : Source(hist, e, f, v) => Source(hist', e, f, v)
             /\ Unwritten(hist, f, v) => Unwritten(hist', f, v)
  <2>1. PICK base : base = task[w].base
    OBVIOUS
  <2>2. base \in 1 .. Len(hist) /\ Adds({base}, Overlay(task[w].temp, hist[base].files))
    BY <1>2, <2>1 DEF Written
  <2>3. PICK new : new = Len(hist) + 1
    OBVIOUS
  <2>4. /\ hist'[new].files[f] = hist[base].files[f]
        /\ hist'[new].past = hist[base].past \cup {new}
        /\ DOMAIN hist' = 1 .. new /\ \A n \in 1 .. Len(hist) : hist'[n] = hist[n]
    BY <1>2, <2>2, <2>3 DEF Adds, Overlay
  <2>5. DOMAIN hist = 1 .. Len(hist) /\ new \notin DOMAIN hist /\ base \in DOMAIN hist
        /\ \A n \in DOMAIN hist' : n \in DOMAIN hist \/ n = new
    BY <2>2, <2>3, <2>4, Types
  <2>6. ASSUME NEW e \in DOMAIN hist, Source(hist, e, f, v) PROVE Source(hist', e, f, v)
    BY <2>4, <2>5, <2>6 DEF Source
  <2>7. ASSUME Unwritten(hist, f, v) PROVE Unwritten(hist', f, v)
    BY <2>4, <2>5, <2>7 DEF Unwritten
  <2>8. QED
    BY <2>6, <2>7
<1>3. ASSUME NEW w \in User, Joined(w)
      PROVE  /\ \A e \in DOMAIN hist : Source(hist, e, f, v) => Source(hist', e, f, v)
             /\ Unwritten(hist, f, v) => Unwritten(hist', f, v)
  <2>1. PICK ours \in 1 .. Len(hist), theirs \in 1 .. Len(hist) :
           \E base \in hist[ours].past \cap hist[theirs].past :
              /\ \A g \in File : ~Conflicts(g, base, ours, theirs)
              /\ Adds({ours, theirs}, Merged(base, ours, theirs))
    BY <1>3 DEF Joined
  <2>2. PICK base \in hist[ours].past \cap hist[theirs].past :
              /\ ~Conflicts(f, base, ours, theirs)
              /\ Adds({ours, theirs}, Merged(base, ours, theirs))
    BY <2>1
  <2>3. PICK new : new = Len(hist) + 1
    OBVIOUS
  <2>4. /\ DOMAIN hist = 1 .. Len(hist) /\ Len(hist) \in Nat
        /\ base \in DOMAIN hist /\ ours \in DOMAIN hist /\ theirs \in DOMAIN hist
        /\ hist[base].past \subseteq hist[ours].past /\ hist[base].past \subseteq hist[theirs].past
    BY <2>1, <2>2, Types
  <2>5. FilesAt(base) = hist[base].files /\ FilesAt(ours) = hist[ours].files /\ FilesAt(theirs) = hist[theirs].files
    BY <2>4 DEF FilesAt
  <2>6. PICK B, O, T : B = hist[base].files[f] /\ O = hist[ours].files[f] /\ T = hist[theirs].files[f]
    OBVIOUS
  <2>7. ~(O # T /\ O # B /\ T # B)
    BY <2>2, <2>5, <2>6 DEF Conflicts
  <2>8. /\ hist'[new].files = Merged(base, ours, theirs)
        /\ hist'[new].past = hist[ours].past \cup hist[theirs].past \cup {new}
        /\ DOMAIN hist' = 1 .. new /\ \A n \in 1 .. Len(hist) : hist'[n] = hist[n]
    BY <2>2, <2>3 DEF Adds
  <2>9. hist'[new].files[f] = IF O = B THEN T ELSE O
    BY <2>5, <2>6, <2>8 DEF Merged
  <2>10. new \notin DOMAIN hist /\ \A n \in DOMAIN hist' : n \in DOMAIN hist \/ n = new
    BY <2>3, <2>4, <2>8
  <2>11. ASSUME NEW e \in DOMAIN hist, Source(hist, e, f, v) PROVE Source(hist', e, f, v)
    <3>1. /\ B = v <=> e \in hist[base].past
          /\ O = v <=> e \in hist[ours].past
          /\ T = v <=> e \in hist[theirs].past
      BY <2>4, <2>6, <2>11 DEF Source
    <3>2. hist'[new].files[f] = v <=> e \in hist'[new].past
      BY <2>4, <2>7, <2>8, <2>9, <2>10, <3>1
    <3>3. QED
      BY <2>4, <2>8, <2>10, <2>11, <3>2 DEF Source
  <2>12. ASSUME Unwritten(hist, f, v) PROVE Unwritten(hist', f, v)
    <3>1. O # v /\ T # v
      BY <2>4, <2>6, <2>12 DEF Unwritten
    <3>2. QED
      BY <2>4, <2>8, <2>9, <2>10, <2>12, <3>1 DEF Unwritten
  <2>13. QED
    BY <2>11, <2>12
<1>4. QED
  BY <1>1, <1>2, <1>3, HistoryChanges

\* What is on a branch stays on it, as long as no branch is deleted.
LEMMA BranchesStay ==
  ASSUME GitflowInv, BasesExist, Next, "drop" \notin Ops, NEW b \in Branch, NEW e,
         OnBranch(hist, head, b, e)
  PROVE  OnBranch(hist', head', b, e)
<1>1. head[b] # 0 /\ head[b] \in 1 .. Len(hist) /\ e \in hist[head[b]].past
      /\ head \in [Branch -> 0 .. Len(hist)] /\ Len(hist) + 1 # 0
  BY Types DEF OnBranch, GitflowInv, TypeOK
<1>2. head'[b] # 0
  <2>1. ASSUME NEW c, NEW n, head' = [head EXCEPT ![c] = n], n # 0 PROVE head'[b] # 0
    BY <1>1, <2>1
  <2>2. CASE head' = head
    BY <1>1, <2>2
  <2>3. ASSUME NEW u \in User, CommitFiles(u) PROVE head'[b] # 0
    <3>1. head' = head \/ head' = [head EXCEPT ![session[u]] = Len(hist) + 1]
      BY <2>3 DEF CommitFiles, Commits
    <3>2. QED
      BY <1>1, <2>1, <3>1
  <2>4. ASSUME NEW u \in User, GfsMerge(u) PROVE head'[b] # 0
    <3>1. \/ head' = head \/ head' = [head EXCEPT ![task[u].branch] = Len(hist) + 1]
          \/ head[task[u].from] # 0 /\ head' = [head EXCEPT ![task[u].branch] = head[task[u].from]]
      BY <2>4 DEF GfsMerge, Commits
    <3>2. QED
      BY <1>1, <2>1, <3>1
  <2>5. ASSUME NEW u \in User, NEW c \in Branch, CreateBranch(u, c) PROVE head'[b] # 0
    <3>1. head[session[u]] # 0 /\ head' = [head EXCEPT ![c] = head[session[u]]]
      BY <2>5 DEF CreateBranch, Exists
    <3>2. QED
      BY <2>1, <3>1
  <2>6. ASSUME NEW u \in User, Step(u) PROVE head' = head \/ CommitFiles(u) \/ GfsMerge(u)
    BY <2>6 DEF Step, OpenToWrite, CommitRemove, ReadObject, WriteExport, TagAsSynced,
       ImportFile, ImportFails, EndImport, CreateSchema, CopySchema, SchemaFails, PushDeletion, DropSchema,
       SyncCurrentBranch, FindChanges
  <2>7. ASSUME NEW u \in User,
               \/ \E f \in File : SaveOrUpdate(u, f) \/ Remove(u, f)
               \/ \E c \in Branch : DeleteBranch(u, c) \/ SetCurrentBranch(u, c) \/ Merge(u, c)
               \/ ExportCurrentBranch(u) \/ ImportCurrentBranch(u) \/ Login(u)
        PROVE  head' = head
    BY <2>7 DEF SaveOrUpdate, Remove, DeleteBranch, SetCurrentBranch, Merge,
       ExportCurrentBranch, ImportCurrentBranch, Login, Begin
  <2>8. CASE Restart \/ Quiescent
    BY <2>2, <2>8 DEF Restart, Quiescent, vars
  <2>9. CASE \E u \in User : Step(u)
    BY <2>2, <2>3, <2>4, <2>6, <2>9
  <2>10. CASE \E u \in User, c \in Branch : CreateBranch(u, c)
    BY <2>5, <2>10
  <2>11. CASE ~(Restart \/ Quiescent) /\ ~(\E u \in User : Step(u)) /\ ~(\E u \in User, c \in Branch : CreateBranch(u, c))
    <3>1. PICK u \in User :
               \/ \E f \in File : SaveOrUpdate(u, f) \/ Remove(u, f)
               \/ \E c \in Branch : DeleteBranch(u, c) \/ SetCurrentBranch(u, c) \/ Merge(u, c)
               \/ ExportCurrentBranch(u) \/ ImportCurrentBranch(u) \/ Login(u)
      BY <2>11 DEF Next
    <3>2. QED
      BY <2>2, <2>7, <3>1
  <2>12. QED
    BY <2>8, <2>9, <2>10, <2>11
<1>3. HeadsForward /\ GitflowInv'
  BY GitflowStep
<1>4. head[b] \in hist'[head'[b]].past
  BY <1>1, <1>2, <1>3 DEF HeadsForward, After
<1>5. /\ DOMAIN hist' = 1 .. Len(hist') /\ head'[b] \in 0 .. Len(hist') /\ HistoryIsClosed'
  BY <1>3 DEF GitflowInv, TypeOK
<1>6. hist'[head[b]].past \subseteq hist'[head'[b]].past
  <2>1. head'[b] \in DOMAIN hist'
    BY <1>2, <1>5
  <2>2. QED
    BY <1>4, <1>5, <2>1 DEF HistoryIsClosed
<1>7. hist'[head[b]] = hist[head[b]]
  BY <1>1, Types, HistoryGrows
<1>8. QED
  BY <1>1, <1>2, <1>6, <1>7 DEF OnBranch

\* A request that goes on, or has ended, keeps what holds of its edit while others commit.
LEMMA EditsKept ==
  ASSUME GitflowInv, BasesExist, Next, "drop" \notin Ops, NEW t, NEW u \in User, t.branch \in Branch,
         \E F \in SUBSET File : t \in Task(F),
         \A f \in Edits[u], w \in User : CommitFiles(w) => f \notin DOMAIN task[w].temp
  PROVE  /\ \A b : WritesFit(hist, t, u, b) => WritesFit(hist', t, u, b)
         /\ SavedFits(hist, head, t, u) => SavedFits(hist', head', t, u)
         /\ DeletedFits(hist, head, t, u) => DeletedFits(hist', head', t, u)
<1>1. ASSUME NEW f \in Edits[u], NEW v
      PROVE  /\ \A e \in DOMAIN hist : Source(hist, e, f, v) => Source(hist', e, f, v)
             /\ Unwritten(hist, f, v) => Unwritten(hist', f, v)
  <2>1. f \in File
    BY GitflowConstants
  <2>2. QED
    BY <2>1, SourcesStay
<1>2. /\ \A n \in DOMAIN hist : n \in DOMAIN hist' /\ hist'[n] = hist[n]
      /\ DOMAIN hist' \subseteq DOMAIN hist \cup {Len(hist) + 1}
  BY HistoryGrows
<1>3. \A e : OnBranch(hist, head, t.branch, e) => OnBranch(hist', head', t.branch, e)
  BY BranchesStay
<1>4. ASSUME NEW b, WritesFit(hist, t, u, b) PROVE WritesFit(hist', t, u, b)
  BY <1>1, <1>4 DEF WritesFit
<1>5. ASSUME SavedFits(hist, head, t, u) PROVE SavedFits(hist', head', t, u)
  BY <1>1, <1>2, <1>3, <1>5 DEF SavedFits
<1>6. ASSUME DeletedFits(hist, head, t, u) PROVE DeletedFits(hist', head', t, u)
  <2> SUFFICES ASSUME NEW f \in DOMAIN t.temp
               PROVE  /\ t.temp[f] = 0
                      /\ \E n \in DOMAIN hist' : hist'[n].files[f] = 0
                      /\ \A e \in DOMAIN hist' : OnlySource(hist', e, f, t.base)
                            => Source(hist', e, f, 0) /\ OnBranch(hist', head', t.branch, e)
    BY <1>6 DEF DeletedFits
  <2>1. f \in Edits[u] /\ t.temp[f] = 0
    BY <1>6 DEF DeletedFits
  <2>2. PICK n \in DOMAIN hist : hist[n].files[f] = 0
    BY <1>6 DEF DeletedFits
  <2>3. n \in DOMAIN hist' /\ hist'[n].files[f] = 0
    BY <1>2, <2>2
  <2>4. ASSUME NEW e \in DOMAIN hist', OnlySource(hist', e, f, t.base)
        PROVE  Source(hist', e, f, 0) /\ OnBranch(hist', head', t.branch, e)
    <3>1. e \in hist[n].past
      BY <1>2, <2>2, <2>3, <2>4 DEF OnlySource
    <3>2. e \in DOMAIN hist
      BY <2>2, <3>1, Types
    <3>3. OnlySource(hist, e, f, t.base)
      BY <1>2, <2>4, <3>2 DEF OnlySource
    <3>4. Source(hist, e, f, 0) /\ OnBranch(hist, head, t.branch, e)
      BY <1>6, <3>2, <3>3 DEF DeletedFits
    <3>5. QED
      BY <1>1, <1>3, <2>1, <3>2, <3>4
  <2>5. QED
    BY <2>1, <2>3, <2>4
<1>7. QED
  BY <1>4, <1>5, <1>6

\* What an edit leaves behind that is committed, or that finds the files as it would write them.
LEMMA CommitOfEdit ==
  ASSUME GitflowInv, LineageInv, NEW u \in User, CommitFiles(u),
         WritesFit(hist, task[u], u, session[u]),
         task'[u].pc # "open", task'[u].result = "returned"
  PROVE  /\ task[u].op = "save" => SavedFits(hist', head', task[u], u)
         /\ task[u].op = "delete" => DeletedFits(hist', head', task[u], u)
<1>1. PICK t : t = task[u]
  OBVIOUS
<1>2. PICK base : base = t.base
  OBVIOUS
<1>3. /\ base \in 1 .. Len(hist) /\ t.branch = session[u] /\ DOMAIN t.temp \subseteq Edits[u]
      /\ DOMAIN t.temp \subseteq File /\ t.op \in {"save", "delete"} /\ session[u] \in Branch
      /\ FilesAt(base) = hist[base].files
  <2>1. At(u, "commit")
    BY DEF CommitFiles
  <2>2. base \in 1 .. Len(hist)
    BY <1>1, <1>2, <2>1, Types DEF LineageInv, BasesExist, At
  <2>3. t.branch = session[u] /\ DOMAIN t.temp \subseteq Edits[u] /\ t.op \in {"save", "delete"}
    BY <1>1 DEF WritesFit
  <2>4. Edits[u] \subseteq File
    BY GitflowConstants
  <2>5. QED
    BY <2>2, <2>3, <2>4, Types DEF FilesAt
<1>4. PICK files : files = Overlay(t.temp, FilesAt(base))
  OBVIOUS
<1>5. \A f \in DOMAIN t.temp : files[f] = t.temp[f]
  BY <1>3, <1>4 DEF Overlay
<1>6. /\ \A n \in DOMAIN hist : hist[n].past \subseteq 1 .. n /\ n \in hist[n].past
      /\ \A n \in DOMAIN hist : hist[n].parents \subseteq 1 .. (n - 1)
      /\ DOMAIN hist = 1 .. Len(hist) /\ Len(hist) \in Nat
  BY Types DEF LineageInv, HistoryAddsUp
<1>7. \A f \in DOMAIN t.temp : IF t.op = "save" THEN t.temp[f] # 0 /\ Unwritten(hist, f, t.temp[f])
                              ELSE t.temp[f] = 0
  BY <1>1 DEF WritesFit
<1>8. CASE hist' = hist /\ files = FilesAt(base)
  <2>1. \A f \in DOMAIN t.temp : hist[base].files[f] = t.temp[f]
    BY <1>3, <1>5, <1>8
  <2>2. ASSUME t.op = "save", NEW f \in DOMAIN t.temp PROVE FALSE
    BY <1>3, <1>6, <1>7, <2>1, <2>2 DEF Unwritten
  <2>3. ASSUME t.op = "delete", NEW f \in DOMAIN t.temp
        PROVE  /\ t.temp[f] = 0 /\ \E n \in DOMAIN hist : hist[n].files[f] = 0
               /\ \A e \in DOMAIN hist : ~OnlySource(hist, e, f, base)
    <3>1. t.temp[f] = 0 /\ hist[base].files[f] = 0
      BY <1>7, <2>1, <2>3
    <3>2. ASSUME NEW e \in DOMAIN hist, OnlySource(hist, e, f, base) PROVE FALSE
      <4>1. e \in hist[base].past
        BY <1>3, <1>6, <3>1, <3>2 DEF OnlySource
      <4>2. base \in hist[e].parents
        BY <3>2 DEF OnlySource
      <4>3. e <= base /\ base <= e - 1 /\ e \in Nat /\ base \in Nat
        BY <1>3, <1>6, <4>1, <4>2
      <4>4. QED
        BY <4>3
    <3>3. QED
      BY <1>3, <1>6, <3>1, <3>2
  <2>4. QED
    BY <1>1, <1>2, <1>3, <1>8, <2>2, <2>3 DEF SavedFits, DeletedFits
<1>9. CASE Commits(session[u], {base}, files)
  <2>1. PICK new : new = Len(hist) + 1
    OBVIOUS
  <2>2. files \in Content
    <3>1. PICK F \in SUBSET File : task[u] \in Task(F)
      BY DEF GitflowInv, TypeOK
    <3>2. t.temp \in [F -> Nat] /\ hist[base].files \in [File -> Nat]
      BY <1>1, <1>3, <1>6, <3>1, Types DEF Task
    <3>3. QED
      BY <1>3, <1>4, <3>2 DEF Overlay, Content
  <2>3. /\ Adds({base}, files) /\ head'[session[u]] = new
    BY <1>3, <1>9, <2>1, <2>2, CommitsAdds
  <2>4. /\ DOMAIN hist' = 1 .. new /\ \A n \in 1 .. Len(hist) : hist'[n] = hist[n]
        /\ hist'[new].parents = {base} /\ hist'[new].files = files
        /\ hist'[new].past = hist[base].past \cup {new}
    BY <2>1, <2>3 DEF Adds
  <2>5. /\ new \in DOMAIN hist' /\ new # 0 /\ DOMAIN hist' = DOMAIN hist \cup {new}
        /\ \A n \in DOMAIN hist : new \notin hist[n].past /\ n # new /\ hist'[n] = hist[n]
    BY <1>6, <2>1, <2>4
  <2>6. OnBranch(hist', head', t.branch, new)
    BY <1>3, <2>3, <2>4, <2>5 DEF OnBranch
  <2>7. ASSUME NEW f \in DOMAIN t.temp, \A n \in DOMAIN hist : hist[n].files[f] # t.temp[f]
        PROVE  Source(hist', new, f, t.temp[f])
    BY <1>5, <2>4, <2>5, <2>7 DEF Source
  <2>8. ASSUME t.op = "save" PROVE SavedFits(hist', head', t, u)
    <3>1. ASSUME NEW f \in DOMAIN t.temp PROVE Source(hist', new, f, t.temp[f])
      BY <1>7, <2>7, <2>8 DEF Unwritten
    <3>2. QED
      BY <1>3, <2>5, <2>6, <3>1 DEF SavedFits
  <2>9. ASSUME t.op = "delete" PROVE DeletedFits(hist', head', t, u)
    <3> SUFFICES ASSUME NEW f \in DOMAIN t.temp
                 PROVE  /\ t.temp[f] = 0
                        /\ \E n \in DOMAIN hist' : hist'[n].files[f] = 0
                        /\ \A e \in DOMAIN hist' : OnlySource(hist', e, f, base)
                              => Source(hist', e, f, 0) /\ OnBranch(hist', head', t.branch, e)
      BY <1>2, <1>3 DEF DeletedFits
    <3>1. t.temp[f] = 0 /\ hist'[new].files[f] = 0
      BY <1>5, <1>7, <2>4, <2>9
    <3>2. ASSUME NEW e \in DOMAIN hist', OnlySource(hist', e, f, base)
          PROVE  Source(hist', e, f, 0) /\ OnBranch(hist', head', t.branch, e)
      <4>1. e \in hist'[new].past
        BY <2>5, <3>1, <3>2 DEF OnlySource
      <4>2. e = new
        <5>1. ASSUME e # new PROVE FALSE
          <6>1. e \in hist[base].past /\ e \in DOMAIN hist /\ hist[e].parents = {base}
            BY <2>4, <2>5, <3>2, <4>1, <5>1 DEF OnlySource
          <6>2. e <= base /\ base <= e - 1 /\ e \in Nat /\ base \in Nat
            BY <1>3, <1>6, <6>1
          <6>3. QED
            BY <6>2
        <5>2. QED
          BY <5>1
      <4>3. ASSUME NEW n \in DOMAIN hist, hist[n].files[f] = 0 PROVE FALSE
        BY <2>5, <3>2, <4>2, <4>3 DEF OnlySource
      <4>4. QED
        BY <2>6, <2>7, <3>1, <4>2, <4>3
    <3>3. QED
      BY <2>5, <3>1, <3>2
  <2>10. QED
    BY <1>1, <2>8, <2>9
<1>10. (hist' = hist /\ files = FilesAt(base)) \/ Commits(session[u], {base}, files)
  <2>1. \/ hist' = hist /\ files = FilesAt(base)
        \/ Commits(session[u], {base}, files)
        \/ task' = [task EXCEPT ![u].pc = "open", ![u].attempt = @ + 1]
        \/ Fail(u)
    BY <1>1, <1>2, <1>4 DEF CommitFiles
  <2>2. CASE task' = [task EXCEPT ![u].pc = "open", ![u].attempt = @ + 1]
    <3>1. task'[u].pc = "open"
      BY <2>2, AgainForm
    <3>2. QED
      BY <3>1
  <2>3. CASE Fail(u)
    <3>1. task'[u].result = "failed"
      BY <2>3, EndForm DEF Fail, End
    <3>2. QED
      BY <3>1
  <2>4. QED
    BY <2>1, <2>2, <2>3
<1>11. QED
  BY <1>8, <1>9, <1>10

\* Two requests with the same edit.
LEMMA SameFits ==
  ASSUME NEW t, NEW s, SameEdit(t, s), NEW H, NEW h, NEW u, NEW b
  PROVE  /\ WritesFit(H, t, u, b) => WritesFit(H, s, u, b)
         /\ SavedFits(H, h, t, u) => SavedFits(H, h, s, u)
         /\ s.base = t.base /\ DeletedFits(H, h, t, u) => DeletedFits(H, h, s, u)
BY DEF SameEdit, WritesFit, SavedFits, DeletedFits

\* Every step.
LEMMA EditsFitStep ==
  ASSUME EditorsApart, GitflowInv, LineageInv, EditsFit, Next
  PROVE  EditsFit'
<1> SUFFICES ASSUME NEW u \in User
             PROVE  EditFits(hist', head', task'[u], u, session'[u])
  BY DEF EditsFit
<1>a. BasesExist /\ OpsFit /\ "drop" \notin Ops /\ "export" \notin Ops /\ EditFits(hist, head, task[u], u, session[u])
  BY DEF LineageInv, EditorsApart, EditsFit
<1>b. task[u].branch \in Branch /\ \E F \in SUBSET File : task[u] \in Task(F)
  BY Types DEF GitflowInv, TypeOK
<1>1. ASSUME ~CommitFiles(u)
      PROVE  \A f \in Edits[u], w \in User : CommitFiles(w) => f \notin DOMAIN task[w].temp
  <2> SUFFICES ASSUME NEW f \in Edits[u], NEW w \in User, CommitFiles(w) PROVE f \notin DOMAIN task[w].temp
    OBVIOUS
  <2>1. task[w].pc = "commit" /\ w # u
    BY <1>1 DEF CommitFiles, At
  <2>2. WritesFit(hist, task[w], w, session[w])
    BY <2>1 DEF EditsFit, EditFits
  <2>3. QED
    BY <2>1, <2>2 DEF WritesFit, EditorsApart
<1>2. ASSUME ~CommitFiles(u)
      PROVE  /\ \A b : WritesFit(hist, task[u], u, b) => WritesFit(hist', task[u], u, b)
             /\ SavedFits(hist, head, task[u], u) => SavedFits(hist', head', task[u], u)
             /\ DeletedFits(hist, head, task[u], u) => DeletedFits(hist', head', task[u], u)
  BY <1>a, <1>b, <1>1, <1>2, EditsKept
<1>3. CASE Stays(u)
  <2>1. ~CommitFiles(u)
    BY <1>3, <1>a, WriteSteps DEF Stays
  <2>2. QED
    BY <1>2, <1>3, <1>a, <2>1 DEF Stays, EditFits
<1>4. CASE task'[u] = Idle
  BY <1>4 DEF EditFits, Idle
<1>5. ASSUME NEW f \in File, SaveOrUpdate(u, f)
      PROVE  EditFits(hist', head', task'[u], u, session'[u])
  <2>1. /\ task'[u].pc = "open" /\ task'[u].op = "save" /\ task'[u].branch = session[u]
        /\ task'[u].temp = [g \in {f} |-> calls + 2]
    BY <1>5, NewTasks
  <2>2. hist' = hist /\ session' = session /\ f \in Edits[u]
    BY <1>5 DEF SaveOrUpdate
  <2>3. calls \in Nat /\ \A n \in DOMAIN hist : hist[n].files[f] \in Nat /\ hist[n].files[f] <= calls + 1
    BY Types DEF LineageInv, CommitsFit
  <2>4. Unwritten(hist, f, calls + 2) /\ calls + 2 # 0
    BY <2>3 DEF Unwritten
  <2>5. WritesFit(hist', task'[u], u, session'[u])
    BY <2>1, <2>2, <2>4 DEF WritesFit
  <2>6. QED
    BY <2>1, <2>5 DEF EditFits
<1>6. ASSUME NEW f \in File, Remove(u, f)
      PROVE  EditFits(hist', head', task'[u], u, session'[u])
  <2>1. /\ task'[u].pc = "open" /\ task'[u].op = "delete" /\ task'[u].branch = session[u]
        /\ task'[u].temp = [g \in {f} \cap Generated |-> 0]
    BY <1>6, NewTasks
  <2>2. session' = session /\ f \in Edits[u]
    BY <1>6 DEF Remove
  <2>3. WritesFit(hist', task'[u], u, session'[u])
    BY <2>1, <2>2 DEF WritesFit
  <2>4. QED
    BY <2>1, <2>3 DEF EditFits
<1>7. CASE OpenToWrite(u) \/ CommitFiles(u) \/ CommitRemove(u)
  <2>1. /\ SameEdit(task[u], task'[u])
        /\ task'[u].pc \in {"commit", "open", "idle", "remove", "tag"}
        /\ task'[u].pc \in {"open", "commit"} => task[u].pc \in {"open", "commit"}
        /\ ~OpenToWrite(u) => task'[u].base = task[u].base
        /\ task'[u].pc = "remove" /\ task'[u].result = "returned" => CommitFiles(u)
        /\ task'[u].pc = "idle" /\ task'[u].op = "save" /\ task'[u].result = "returned" => CommitFiles(u)
        /\ CommitFiles(u) => task[u].pc = "commit" /\ task'[u].pc # "commit"
        /\ CommitRemove(u) => /\ task'[u].pc = "idle" /\ task[u].pc = "remove"
                              /\ task'[u].result \in {task[u].result, "failed"}
    BY <1>7, <1>a, WriteSteps
  <2>2. session' = session /\ (hist' = hist \/ CommitFiles(u))
    BY <1>7 DEF OpenToWrite, CommitFiles, CommitRemove
  <2>3. task'[u].op = task[u].op /\ task'[u].op \notin {"export", "drop"}
    BY <1>a, <2>1 DEF SameEdit, EditFits
  <2>4. ASSUME task'[u].pc \in {"open", "commit"}
        PROVE  WritesFit(hist', task'[u], u, session'[u])
    <3>1. WritesFit(hist, task[u], u, session[u])
      BY <1>a, <2>1, <2>4 DEF EditFits
    <3>2. hist' = hist
      <4>1. CASE CommitFiles(u)
        <5>1. task'[u].pc = "open"
          BY <2>1, <2>4, <4>1
        <5>2. hist' = hist \/ task' = [task EXCEPT ![u].pc = NextAfterCommit(task[u].op), ![u].result = "returned"]
          BY <4>1 DEF CommitFiles
        <5>3. ASSUME task' = [task EXCEPT ![u].pc = NextAfterCommit(task[u].op), ![u].result = "returned"]
              PROVE  FALSE
          <6>1. task'[u].pc = NextAfterCommit(task[u].op)
            BY <5>3, EndForm
          <6>2. task[u].op \in {"save", "delete"}
            BY <3>1 DEF WritesFit
          <6>3. QED
            BY <5>1, <6>1, <6>2 DEF NextAfterCommit
        <5>4. QED
          BY <5>2, <5>3
      <4>2. QED
        BY <2>2, <4>1
    <3>3. QED
      BY <2>1, <2>2, <3>1, <3>2, SameFits
  <2>5. CASE CommitFiles(u)
    <3>1. WritesFit(hist, task[u], u, session[u])
      BY <1>a, <2>1, <2>5 DEF EditFits
    <3>2. ASSUME task'[u].pc # "open", task'[u].result = "returned"
          PROVE  /\ task'[u].op = "save" => SavedFits(hist', head', task'[u], u)
                 /\ task'[u].op = "delete" => DeletedFits(hist', head', task'[u], u)
      <4>1. /\ task[u].op = "save" => SavedFits(hist', head', task[u], u)
            /\ task[u].op = "delete" => DeletedFits(hist', head', task[u], u)
        BY <2>5, <3>1, <3>2, CommitOfEdit
      <4>2. task'[u].base = task[u].base
        <5>1. CASE OpenToWrite(u)
          BY <2>1, <2>5, <5>1 DEF OpenToWrite, At
        <5>2. QED
          BY <2>1, <5>1
      <4>3. QED
        BY <2>1, <2>3, <4>1, <4>2, SameFits
    <3>3. QED
      BY <2>3, <2>4, <3>2 DEF EditFits
  <2>6. CASE ~CommitFiles(u)
    <3>1. ASSUME task'[u].pc \in {"remove", "idle"}, task'[u].op = "delete", task'[u].result = "returned"
          PROVE  DeletedFits(hist', head', task'[u], u)
      <4>1. CASE OpenToWrite(u)
        <5>1. At(u, "open")
          BY <4>1 DEF OpenToWrite
        <5>2. CASE Exists(session[u])
          <6>1. PICK n : n = head[session[u]]
            OBVIOUS
          <6>2. Rebases(u, "commit", n)
            BY <4>1, <5>2, <6>1 DEF OpenToWrite, Rebases
          <6>3. task'[u].pc = "commit"
            BY <6>2, BaseForm
          <6>4. QED
            BY <3>1, <6>3
        <5>3. CASE ~Exists(session[u])
          <6>1. Fail(u)
            BY <4>1, <5>3 DEF OpenToWrite
          <6>2. task'[u].result = "failed"
            BY <6>1, EndForm DEF Fail, End
          <6>3. QED
            BY <3>1, <6>2
        <5>4. QED
          BY <5>2, <5>3
      <4>2. CASE CommitRemove(u)
        <5>1. task[u].pc = "remove" /\ task[u].op = "delete" /\ task[u].result = "returned"
          BY <2>1, <2>3, <3>1, <4>2
        <5>2. DeletedFits(hist, head, task[u], u)
          BY <1>a, <5>1 DEF EditFits
        <5>3. DeletedFits(hist', head', task[u], u)
          BY <1>2, <2>6, <5>2
        <5>4. ~OpenToWrite(u)
          BY <5>1 DEF OpenToWrite, At
        <5>5. QED
          BY <2>1, <5>3, <5>4, SameFits
      <4>3. QED
        BY <1>7, <2>6, <4>1, <4>2
    <3>2. QED
      BY <2>1, <2>3, <2>4, <2>6, <3>1 DEF EditFits
  <2>7. QED
    BY <2>5, <2>6
<1>8. CASE Turns(u)
  <2>1. task[u].pc = "read" => task[u].op = "export"
    BY DEF GitflowInv, TasksFit, TaskFits
  <2>2. task[u].op \notin {"export", "drop"}
    BY <1>a DEF EditFits
  <2>3. QED
    BY <1>8, <1>a, <2>1, <2>2 DEF Turns, EditFits
<1>9. QED
  BY <1>3, <1>4, <1>5, <1>6, <1>7, <1>8, <1>a, RequestChanges

\* What the invariant says of requests that have returned.
LEMMA EditsFitStay ==
  ASSUME GitflowInv, EditsFit
  PROVE  EditsStayInGit
<1> SUFFICES ASSUME NEW u \in User, Returned(u, {"save", "delete"}), NEW f \in DOMAIN task[u].temp,
                    task[u].temp[f] # 0 \/ DeletedOnce(u, f)
             PROVE  FilesAt(head[task[u].branch])[f] = task[u].temp[f]
  BY DEF EditsStayInGit
<1>1. /\ task[u].pc = "idle" /\ task[u].op \in {"save", "delete"} /\ task[u].result = "returned"
      /\ EditFits(hist, head, task[u], u, session[u])
  BY DEF Returned, At, EditsFit
<1>2. ASSUME NEW e, Source(hist, e, f, task[u].temp[f]), OnBranch(hist, head, task[u].branch, e)
      PROVE  FilesAt(head[task[u].branch])[f] = task[u].temp[f]
  <2>1. head[task[u].branch] \in DOMAIN hist /\ head[task[u].branch] # 0
    BY <1>2, Types DEF OnBranch
  <2>2. hist[head[task[u].branch]].files[f] = task[u].temp[f]
    BY <1>2, <2>1 DEF Source, OnBranch
  <2>3. QED
    BY <2>1, <2>2 DEF FilesAt
<1>3. CASE task[u].op = "save"
  <2>1. PICK e \in DOMAIN hist : /\ Source(hist, e, f, task[u].temp[f])
                                 /\ OnBranch(hist, head, task[u].branch, e)
    BY <1>1, <1>3 DEF EditFits, SavedFits
  <2>2. QED
    BY <1>2, <2>1
<1>4. CASE task[u].op = "delete"
  <2>1. DeletedFits(hist, head, task[u], u)
    BY <1>1, <1>4 DEF EditFits
  <2>2. task[u].temp[f] = 0
    BY <2>1 DEF DeletedFits
  <2>3. PICK e \in DOMAIN hist : /\ hist[e].parents = {task[u].base}
                                 /\ \A n \in DOMAIN hist : hist[n].files[f] = 0 => e \in Reachable(n)
    BY <2>2 DEF DeletedOnce
  <2>4. \A n \in DOMAIN hist : Reachable(n) = hist[n].past
    BY Types DEF Reachable
  <2>5. OnlySource(hist, e, f, task[u].base)
    BY <2>3, <2>4 DEF OnlySource
  <2>6. Source(hist, e, f, task[u].temp[f]) /\ OnBranch(hist, head, task[u].branch, e)
    BY <2>1, <2>2, <2>5 DEF DeletedFits
  <2>7. QED
    BY <1>2, <2>6
<1>5. QED
  BY <1>1, <1>3, <1>4

\* When users edit objects of their own, and nobody exports a whole branch or deletes one: an
\* edit of GitflowSvc that has returned stays in its branch, through the commits, retries and
\* merges of everybody else.
THEOREM EditsStayCorrect ==
  ASSUME EditorsApart
  PROVE  Spec => []EditsStayInGit
<1>1. Init => EditsFit
  <2> SUFFICES ASSUME Init, NEW u \in User PROVE EditFits(hist, head, task[u], u, session[u])
    BY DEF EditsFit
  <2>1. task[u] = Idle
    BY DEF Init
  <2>2. QED
    BY <2>1 DEF EditFits, Idle
<1>2. GitflowInv /\ LineageInv /\ EditsFit /\ [Next]_vars => EditsFit'
  <2>1. CASE UNCHANGED vars
    BY <2>1 DEF vars, EditsFit
  <2>2. QED
    BY <2>1, EditsFitStep
<1>3. GitflowInv /\ EditsFit => EditsStayInGit
  BY EditsFitStay
<1>4. QED
  BY <1>1, <1>2, <1>3, GitflowInvCorrect, LineageCorrect, PTL DEF Spec

-----------------------------------------------------------------------------
(***************************************************************************)
(* What changedFiles finds, in any history.                                *)
(***************************************************************************)
Past(H, n) == IF n = 0 THEN {} ELSE H[n].past

FilesOf(H, n) == IF n = 0 THEN Empty ELSE H[n].files

\* ChangedFiles in a history.
Changed(H, m, n) ==
    {f \in File : \E k \in Past(H, n) \ Past(H, m) : \E p \in H[k].parents :
        H[k].files[f] # 0 /\ H[k].files[f] # H[p].files[f]}

\* Between a commit and one of its past, a file that no commit between them changed is as it
\* was, or gone.
ChangesAreFound ==
    \A n \in DOMAIN hist : \A m \in hist[n].past : \A f \in File \ Changed(hist, m, n) :
        hist[n].files[f] \in {0, hist[m].files[f]}

LEMMA ChangedStays ==
  ASSUME GitflowInv, LineageInv, Next, NEW m \in 0 .. Len(hist), NEW n \in 0 .. Len(hist)
  PROVE  Changed(hist', m, n) = Changed(hist, m, n)
<1>1. /\ DOMAIN hist = 1 .. Len(hist) /\ Len(hist) \in Nat
      /\ \A k \in DOMAIN hist : hist'[k] = hist[k] /\ hist[k].past \subseteq DOMAIN hist
      /\ \A k \in DOMAIN hist : hist[k].parents \subseteq DOMAIN hist
  <2>1. /\ DOMAIN hist = 1 .. Len(hist) /\ Len(hist) \in Nat
        /\ \A k \in DOMAIN hist : hist[k].past \subseteq 1 .. k
    BY Types
  <2>2. \A k \in DOMAIN hist : hist'[k] = hist[k] /\ hist[k].parents \subseteq 1 .. (k - 1)
    BY HistoryGrows DEF LineageInv, HistoryAddsUp
  <2>3. QED
    BY <2>1, <2>2
<1>2. Past(hist', m) = Past(hist, m) /\ Past(hist', n) = Past(hist, n) /\ Past(hist, n) \subseteq DOMAIN hist
  BY <1>1 DEF Past
<1>3. ASSUME NEW f \in File, NEW k \in Past(hist, n)
      PROVE  (\E p \in hist'[k].parents : hist'[k].files[f] # 0 /\ hist'[k].files[f] # hist'[p].files[f])
               <=> (\E p \in hist[k].parents : hist[k].files[f] # 0 /\ hist[k].files[f] # hist[p].files[f])
  BY <1>1, <1>2
<1>4. QED
  BY <1>2, <1>3 DEF Changed

LEMMA ChangesAreFoundStep ==
  ASSUME GitflowInv, LineageInv, ChangesAreFound, Next
  PROVE  ChangesAreFound'
<1>a. /\ DOMAIN hist = 1 .. Len(hist) /\ Len(hist) \in Nat
      /\ \A k \in DOMAIN hist : hist[k].past \subseteq 1 .. k
      /\ \A k \in DOMAIN hist : hist'[k] = hist[k]
      /\ BasesExist
  BY Types, HistoryGrows DEF LineageInv
<1>1. ASSUME NEW n \in DOMAIN hist, NEW m \in hist'[n].past, NEW f \in File \ Changed(hist', m, n)
      PROVE  hist'[n].files[f] \in {0, hist'[m].files[f]}
  <2>1. m \in hist[n].past /\ m \in DOMAIN hist /\ hist'[n] = hist[n] /\ hist'[m] = hist[m]
    BY <1>1, <1>a
  <2>2. Changed(hist', m, n) = Changed(hist, m, n)
    BY <1>a, <2>1, ChangedStays
  <2>3. QED
    BY <1>1, <2>1, <2>2 DEF ChangesAreFound
<1>2. ASSUME NEW parents \in SUBSET (1 .. Len(hist)), NEW files, Adds(parents, files),
             NEW m \in hist'[Len(hist) + 1].past, NEW f \in File \ Changed(hist', m, Len(hist) + 1)
      PROVE  hist'[Len(hist) + 1].files[f] \in {0, hist'[m].files[f]}
  <2>1. PICK new : new = Len(hist) + 1
    OBVIOUS
  <2>2. /\ hist'[new].past = (UNION {hist[p].past : p \in parents}) \cup {new}
        /\ hist'[new].parents = parents /\ new \notin DOMAIN hist /\ new # 0
    BY <1>2, <1>a, <2>1 DEF Adds
  <2>3. CASE m = new
    BY <2>1, <2>3
  <2>4. CASE m # new
    <3>1. PICK p \in parents : m \in hist[p].past
      BY <1>2, <2>1, <2>2, <2>4
    <3>2. p \in DOMAIN hist /\ m \in DOMAIN hist /\ hist'[p] = hist[p] /\ hist'[m] = hist[m] /\ m # 0 /\ p # 0
      BY <1>a, <3>1
    <3>3. Past(hist', new) = hist'[new].past /\ Past(hist', p) = hist[p].past /\ Past(hist', m) = hist[m].past
      BY <2>2, <3>2 DEF Past
    <3>4. Past(hist', p) \subseteq Past(hist', new)
      BY <2>2, <3>1, <3>3
    <3>5. f \notin Changed(hist', m, p)
      BY <1>2, <2>1, <3>4 DEF Changed
    <3>6. hist[p].files[f] \in {0, hist[m].files[f]}
      <4>1. Changed(hist', m, p) = Changed(hist, m, p)
        BY <1>a, <3>2, ChangedStays
      <4>2. QED
        BY <3>1, <3>2, <3>5, <4>1 DEF ChangesAreFound
    <3>7. new \in Past(hist', new) \ Past(hist', m)
      BY <1>a, <2>2, <3>2, <3>3
    <3>8. hist'[new].files[f] = 0 \/ hist'[new].files[f] = hist'[p].files[f]
      BY <1>2, <2>1, <2>2, <3>7 DEF Changed
    <3>9. QED
      BY <2>1, <3>2, <3>6, <3>8
  <2>5. QED
    BY <2>3, <2>4
<1>3. CASE hist' = hist
  BY <1>1, <1>3 DEF ChangesAreFound
<1>4. ASSUME NEW parents \in SUBSET (1 .. Len(hist)), NEW files, Adds(parents, files)
      PROVE  ChangesAreFound'
  <2>1. \A n \in DOMAIN hist' : n \in DOMAIN hist \/ n = Len(hist) + 1
    BY <1>4, <1>a DEF Adds
  <2>2. QED
    BY <1>1, <1>2, <1>4, <2>1 DEF ChangesAreFound
<1>5. CASE \E u \in User : Written(u) \/ Joined(u)
  <2>1. PICK u \in User : Written(u) \/ Joined(u)
    BY <1>5
  <2>2. CASE Written(u)
    BY <1>4, <2>2 DEF Written
  <2>3. CASE Joined(u)
    BY <1>4, <2>3 DEF Joined
  <2>4. QED
    BY <2>1, <2>2, <2>3
<1>6. QED
  BY <1>3, <1>5, <1>a, HistoryChanges

\* The first commit has no past but itself.
LEMMA ChangesStart == Init => ChangesAreFound
<1> SUFFICES ASSUME Init PROVE ChangesAreFound
  OBVIOUS
<1>1. PICK files : hist = <<[parents |-> {}, past |-> {1}, files |-> files]>>
  BY DEF Init
<1>2. DOMAIN hist = {1} /\ hist[1].past = {1}
  <2>1. PICK c : c = [parents |-> {}, past |-> {1}, files |-> files]
    OBVIOUS
  <2>2. hist = <<c>> /\ c.past = {1}
    BY <1>1, <2>1
  <2>3. DOMAIN hist = {1} /\ hist[1] = c
    BY <2>2
  <2>4. QED
    BY <2>2, <2>3
<1>3. QED
  BY <1>2 DEF ChangesAreFound

\* What changedFiles of GitflowSvc leaves out between a commit and an earlier one has not
\* changed, for any history of commits and merges, unless it was removed: the parents of a
\* merge are compared one by one.
THEOREM ChangesCorrect == Spec => []ChangesAreFound
<1>1. GitflowInv /\ LineageInv /\ ChangesAreFound /\ [Next]_vars => ChangesAreFound'
  <2>1. CASE UNCHANGED vars
    BY <2>1 DEF vars, ChangesAreFound, Changed, Past
  <2>2. QED
    BY <2>1, ChangesAreFoundStep
<1>2. QED
  BY <1>1, ChangesStart, GitflowInvCorrect, LineageCorrect, PTL DEF Spec

-----------------------------------------------------------------------------
(***************************************************************************)
(* What the sync leaves out is in the database, when one user works, every *)
(* file can be imported and no other branch has the schema of master.      *)
(* The head of master may take over commits of another branch at once: a   *)
(* file that none of them changed is as it was, or gone.                   *)
(***************************************************************************)
OneUserSyncs ==
    /\ \A u, v \in User : u = v
    /\ ~FileMayBeInvalid
    /\ \A b \in Branch \ {Master} : SchemaOf[b] # SchemaOf[Master]

\* The schema of master, and the versions of an object that are in it or accounted for: those
\* up to its row or to the row that a user removed, and all while a truncation has its row.
Home == SchemaOf[Master]

Held == [f \in File |-> {v \in Nat : db[Home][f] >= v \/ removed[f] >= v \/ f \in emptied}]

Fresh(held, files, f) == files[f] \in held[f]

\* What a request knows of the branch it works on.
SyncFits(t, b, h, rows, held, files) ==
    /\ t.pc \in {"schema", "copy"} => t.branch # Master /\ h[t.branch] # 0
    /\ t.pc \in {"unpush", "drop"} => t.branch # Master
    /\ t.pc \in {"commit", "compare", "import"} => t.base = h[b]
    /\ t.pc \in {"merge", "sync", "compare"} => t.op # "import"
    /\ t.pc = "tag" /\ b = Master => \A f \in File : Fresh(held, files, f)
    /\ t.pc = "import" /\ b = Master /\ t.op # "import" =>
          \A f \in File \ t.todo : t.truncate \/ Fresh(held, files, f)
    /\ t.pc = "import" /\ b = Master /\ t.op = "import" =>
          \A f \in File \ t.todo : files[f] = 0 \/ (~t.truncate /\ rows[f] >= files[f])
    /\ t.op = "export" /\ t.pc \in {"read", "open", "commit"} =>
          /\ DOMAIN t.temp = File
          /\ b = Master => \A f \in File : (t.pc = "read" /\ f \in t.todo) \/ t.temp[f] = rows[f]

\* What did not change since the tag of master is in its schema, or accounted for.
TagFresh(H, from, to, held) ==
    from # 0 => \A f \in File \ Changed(H, from, to) : Fresh(held, FilesOf(H, to), f)

SyncInv ==
    /\ HasTables(Home)
    /\ \A f \in File : db[Home][f] = 0 \/ removed[f] = 0
    /\ TagFresh(hist, tag[Master], head[Master], Held)
    /\ \A u \in User : SyncFits(task[u], session[u], head, db[Home], Held, FilesOf(hist, head[Master]))

LEMMA HomeFacts ==
  ASSUME GitflowInv, OneUserSyncs, HasTables(Home)
  PROVE  /\ Home \in Schema /\ DOMAIN db = Schema /\ db[Home] \in [File -> Nat]
         /\ Master \in Branch /\ head[Master] # 0 /\ head[Master] \in DOMAIN hist
         /\ DOMAIN hist = 1 .. Len(hist) /\ Len(hist) \in Nat
         /\ FilesOf(hist, head[Master]) = hist[head[Master]].files
         /\ FilesOf(hist, head[Master]) \in [File -> Nat]
         /\ \A n : FilesAt(n) = FilesOf(hist, n) /\ Reachable(n) = Past(hist, n)
         /\ \A u \in User : session[u] \in Branch /\ Current(u) \in Schema
                            /\ (Current(u) = Home <=> session[u] = Master)
         /\ \A u \in User : task[u].branch \in Branch /\ (SchemaOf[task[u].branch] = Home <=> task[u].branch = Master)
         /\ \A u, v \in User : u = v
         /\ \A u \in User : InMaster(u) <=> session[u] = Master
         /\ removed \in [File -> Nat] /\ emptied \subseteq File
<1>1. /\ Master \in Branch /\ Home \in Schema /\ DOMAIN db = Schema
  BY GitflowConstants DEF GitflowInv, TypeOK, Home
<1>2. db[Home] \in [File -> Nat]
  BY <1>1, Types
<1>3. /\ head[Master] # 0 /\ head[Master] \in DOMAIN hist
      /\ DOMAIN hist = 1 .. Len(hist) /\ Len(hist) \in Nat
  BY <1>1, Types DEF GitflowInv, TagsAreBehindMaster
<1>4. /\ FilesOf(hist, head[Master]) = hist[head[Master]].files
      /\ FilesOf(hist, head[Master]) \in [File -> Nat]
  BY <1>3, Types DEF FilesOf
<1>5. \A n : FilesAt(n) = FilesOf(hist, n) /\ Reachable(n) = Past(hist, n)
  BY DEF FilesAt, FilesOf, Reachable, Past
<1>6. \A u \in User : session[u] \in Branch /\ Current(u) \in Schema
                            /\ (Current(u) = Home <=> session[u] = Master)
  BY Types DEF Current, Home, OneUserSyncs
<1>7. \A u \in User : task[u].branch \in Branch /\ (SchemaOf[task[u].branch] = Home <=> task[u].branch = Master)
  BY Types DEF Home, OneUserSyncs
<1>8. removed \in [File -> Nat] /\ emptied \subseteq File
  BY DEF GitflowInv, TypeOK, Content
<1>9. \A u \in User : InMaster(u) <=> session[u] = Master
  BY <1>6 DEF InMaster, Home
<1>10. QED
  BY <1>1, <1>2, <1>3, <1>4, <1>5, <1>6, <1>7, <1>8, <1>9 DEF OneUserSyncs

\* What is held stays so: the row stays, or is written no older than the file, or goes away
\* in a way that is remembered.
RowStays(f) ==
    /\ db'[Home][f] = db[Home][f] /\ removed'[f] = removed[f]
    /\ f \in emptied => f \in emptied'

RowIsWritten(f, files) == db'[Home][f] >= files[f] /\ (db'[Home][f] = 0 \/ removed'[f] = 0)

RowIsEmptied(f) == db'[Home][f] = 0 /\ f \in emptied'

RowIsRemoved(f) ==
    /\ db[Home][f] # 0 /\ db'[Home][f] = 0 /\ removed'[f] = db[Home][f]
    /\ f \in emptied => f \in emptied'

RowFits(f, files) == RowStays(f) \/ RowIsWritten(f, files) \/ RowIsEmptied(f) \/ RowIsRemoved(f)

LEMMA HeldStays ==
  ASSUME GitflowInv, OneUserSyncs, SyncInv,
         db'[Home] \in [File -> Nat], removed' \in [File -> Nat],
         NEW f \in File, RowFits(f, FilesOf(hist, head[Master]))
  PROVE  /\ db'[Home][f] = 0 \/ removed'[f] = 0
         /\ \A v \in Held[f] : v <= FilesOf(hist, head[Master])[f] => v \in Held'[f]
<1>1. /\ db[Home] \in [File -> Nat] /\ removed \in [File -> Nat]
      /\ FilesOf(hist, head[Master]) \in [File -> Nat]
      /\ db[Home][f] = 0 \/ removed[f] = 0
  BY HomeFacts DEF SyncInv
<1>2. PICK n \in Nat : n = FilesOf(hist, head[Master])[f]
  BY <1>1
<1>3. /\ Held[f] = {v \in Nat : db[Home][f] >= v \/ removed[f] >= v \/ f \in emptied}
      /\ Held'[f] = {v \in Nat : db'[Home][f] >= v \/ removed'[f] >= v \/ f \in emptied'}
  BY DEF Held, Home
<1>4. \/ RowStays(f)
      \/ db'[Home][f] >= n /\ (db'[Home][f] = 0 \/ removed'[f] = 0)
      \/ RowIsEmptied(f)
      \/ RowIsRemoved(f)
  <2>1. RowIsWritten(f, FilesOf(hist, head[Master])) =>
          db'[Home][f] >= n /\ (db'[Home][f] = 0 \/ removed'[f] = 0)
    BY <1>2 DEF RowIsWritten
  <2>2. QED
    BY <2>1 DEF RowFits
<1>5. db'[Home][f] \in Nat /\ removed'[f] \in Nat /\ db[Home][f] \in Nat /\ removed[f] \in Nat
  BY <1>1
<1>6. db'[Home][f] = 0 \/ removed'[f] = 0
  BY <1>1, <1>4 DEF RowStays, RowIsEmptied, RowIsRemoved
<1>7. ASSUME NEW v \in Held[f], v <= n PROVE v \in Held'[f]
  <2>1. v \in Nat /\ (db[Home][f] >= v \/ removed[f] >= v \/ f \in emptied)
    BY <1>3, <1>7
  <2>2. db'[Home][f] >= v \/ removed'[f] >= v \/ f \in emptied'
    <3>1. CASE RowStays(f)
      BY <2>1, <3>1 DEF RowStays
    <3>2. CASE db'[Home][f] >= n
      BY <1>2, <1>5, <1>7, <2>1, <3>2
    <3>3. CASE RowIsEmptied(f)
      BY <3>3 DEF RowIsEmptied
    <3>4. CASE RowIsRemoved(f)
      BY <1>1, <1>5, <2>1, <3>4 DEF RowIsRemoved
    <3>5. QED
      BY <1>4, <3>1, <3>2, <3>3, <3>4
  <2>3. QED
    BY <1>3, <2>1, <2>2
<1>8. QED
  BY <1>2, <1>6, <1>7

\* Every step leaves a row of master, writes it no older than the file, or takes it away in a
\* way that is remembered; what an import forgets, it has given back.
HomeFits == HasTables(Home)' /\ \A f \in File : RowFits(f, FilesOf(hist, head[Master]))

LEMMA HomeRows ==
  ASSUME GitflowInv, LineageInv, OneUserSyncs, SyncInv, Next
  PROVE  HomeFits
<1>a. HasTables(Home)
  BY DEF SyncInv
<1> DEFINE files == FilesOf(hist, head[Master])
<1>b. /\ Home \in Schema /\ DOMAIN db = Schema /\ db[Home] \in [File -> Nat]
      /\ files = hist[head[Master]].files /\ files \in [File -> Nat] /\ head[Master] \in DOMAIN hist
      /\ \A n : FilesAt(n) = FilesOf(hist, n)
      /\ \A u \in User : /\ Current(u) \in Schema /\ (Current(u) = Home <=> session[u] = Master)
                         /\ (InMaster(u) <=> session[u] = Master)
      /\ \A u \in User : SchemaOf[task[u].branch] = Home <=> task[u].branch = Master
      /\ removed \in [File -> Nat] /\ emptied \subseteq File
  BY <1>a, HomeFacts
<1>c. \A s \in [File -> Nat] : s \notin {NoSchema, NoTables}
  BY GitflowConstants
<1> HIDE DEF files
<1>1. ASSUME db'[Home] = db[Home], UNCHANGED absent PROVE HomeFits
  BY <1>1, <1>a DEF HasTables, Home, HomeFits, RowFits, RowStays, absent
<1>2. ASSUME NEW u \in User, Current(u) # Home, NEW x, NEW F, NEW S,
             db' = [db EXCEPT ![Current(u)] = x], GivenBack(u, F, S)
      PROVE  HomeFits
  <2>1. db'[Home] = db[Home]
    BY <1>2, <1>b
  <2>2. /\ emptied' = emptied /\ \A f \in File : removed'[f] = removed[f]
    BY <1>2, <1>b DEF GivenBack
  <2>3. QED
    BY <1>a, <2>1, <2>2 DEF HasTables, Home, HomeFits, RowFits, RowStays
<1>3. ASSUME NEW x \in [File -> Nat], db' = [db EXCEPT ![Home] = x]
      PROVE  HasTables(Home)' /\ db'[Home] = x
  <2>1. db'[Home] = x
    BY <1>3, <1>b
  <2>2. QED
    BY <1>c, <2>1 DEF HasTables, Home
<1>4. ASSUME NEW u \in User, NEW f \in File, SaveOrUpdate(u, f) PROVE HomeFits
  <2>1. /\ HasTables(Current(u)) /\ db' = [db EXCEPT ![Current(u)][f] = calls + 2]
        /\ GivenBack(u, {f}, emptied)
    BY <1>4 DEF SaveOrUpdate
  <2>2. PICK x : x = [db[Current(u)] EXCEPT ![f] = calls + 2]
    OBVIOUS
  <2>3. db' = [db EXCEPT ![Current(u)] = x]
    BY <1>b, <2>1, <2>2
  <2>4. CASE Current(u) = Home
    <3>1. calls \in Nat /\ files[f] \in Nat /\ files[f] <= calls + 1
      BY <1>b, Types DEF LineageInv, CommitsFit
    <3>2. calls + 2 >= files[f] /\ calls + 2 \in Nat
      BY <3>1
    <3>3. /\ x \in [File -> Nat] /\ x[f] = calls + 2
          /\ \A g \in File \ {f} : x[g] = db[Home][g]
      BY <1>b, <2>2, <2>4, <3>2
    <3>4. HasTables(Home)' /\ db'[Home] = x
      BY <1>3, <2>3, <2>4, <3>3
    <3>5. /\ removed'[f] = 0 /\ emptied' = emptied \ {f}
          /\ \A g \in File \ {f} : removed'[g] = removed[g]
      BY <1>b, <2>1, <2>4 DEF GivenBack
    <3>6. RowIsWritten(f, files)
      BY <3>2, <3>3, <3>4, <3>5 DEF RowIsWritten
    <3>7. \A g \in File \ {f} : RowStays(g)
      BY <3>3, <3>4, <3>5 DEF RowStays
    <3>8. QED
      BY <3>4, <3>6, <3>7 DEF HomeFits, RowFits, files
  <2>5. CASE Current(u) # Home
    BY <1>2, <2>1, <2>3, <2>5
  <2>6. QED
    BY <2>4, <2>5
<1>5. ASSUME NEW u \in User, CommitRemove(u) PROVE HomeFits
  <2>0. emptied' = emptied
    BY <1>5 DEF CommitRemove
  <2>1. CASE HasTables(Current(u))
    <3>1. PICK x : x = [f \in File |-> IF f \in task[u].todo THEN 0 ELSE db[Current(u)][f]]
      OBVIOUS
    <3>2. /\ db' = [db EXCEPT ![Current(u)] = x]
          /\ removed' = [f \in File |-> IF InMaster(u) /\ f \in task[u].todo /\ db[Current(u)][f] # 0
                                        THEN db[Current(u)][f] ELSE removed[f]]
      BY <1>5, <1>b, <2>1, <3>1 DEF CommitRemove
    <3>3. CASE Current(u) = Home
      <4>1. x \in [File -> Nat]
        BY <1>b, <3>1, <3>3
      <4>2. HasTables(Home)' /\ db'[Home] = x
        BY <1>3, <3>2, <3>3, <4>1
      <4>3. ASSUME NEW f \in File PROVE RowStays(f) \/ RowIsRemoved(f)
        <5>1. CASE f \in task[u].todo /\ db[Home][f] # 0
          <6>1. db'[Home][f] = 0 /\ removed'[f] = db[Home][f]
            BY <1>b, <3>1, <3>2, <3>3, <4>2, <5>1
          <6>2. QED
            BY <2>0, <5>1, <6>1 DEF RowIsRemoved
        <5>2. CASE ~(f \in task[u].todo /\ db[Home][f] # 0)
          <6>1. db'[Home][f] = db[Home][f] /\ removed'[f] = removed[f]
            BY <1>b, <3>1, <3>2, <3>3, <4>2, <5>2
          <6>2. QED
            BY <2>0, <6>1 DEF RowStays
        <5>3. QED
          BY <5>1, <5>2
      <4>4. QED
        BY <4>2, <4>3 DEF HomeFits, RowFits
    <3>4. CASE Current(u) # Home
      <4>1. db'[Home] = db[Home] /\ \A f \in File : removed'[f] = removed[f]
        BY <1>b, <3>2, <3>4
      <4>2. QED
        BY <1>a, <2>0, <4>1 DEF HasTables, Home, HomeFits, RowFits, RowStays
    <3>5. QED
      BY <3>3, <3>4
  <2>2. CASE ~HasTables(Current(u))
    <3>1. db' = db /\ UNCHANGED absent
      BY <1>5, <2>0, <2>2 DEF CommitRemove, absent
    <3>2. QED
      BY <1>1, <3>1
  <2>3. QED
    BY <2>1, <2>2
<1>6. ASSUME NEW u \in User, ImportFile(u) PROVE HomeFits
  <2>1. CASE db' = db /\ UNCHANGED absent
    BY <1>1, <2>1
  <2>2. CASE ~(db' = db /\ UNCHANGED absent)
    <3>1. PICK f \in task[u].todo :
             /\ db' = [db EXCEPT ![Current(u)] = [Rows(u) EXCEPT ![f] = FilesAt(task[u].base)[f]]]
             /\ GivenBack(u, {f}, Lost(u))
      BY <1>6, <2>2 DEF ImportFile
    <3>0. f \in File
      BY DEF GitflowInv, TypeOK, Task
    <3>2. PICK x : x = [Rows(u) EXCEPT ![f] = FilesAt(task[u].base)[f]]
      OBVIOUS
    <3>3. db' = [db EXCEPT ![Current(u)] = x]
      BY <3>1, <3>2
    <3>4. CASE Current(u) = Home
      <4>1. task[u].base = head[Master]
        BY <1>6, <1>b, <3>4 DEF SyncInv, SyncFits, ImportFile, At
      <4>2. FilesAt(task[u].base) = files
        BY <1>b, <4>1 DEF files
      <4>3. Rows(u) \in [File -> Nat]
        BY <1>b, <3>4 DEF Rows, Empty
      <4>4. /\ x \in [File -> Nat] /\ x[f] = files[f]
            /\ \A g \in File \ {f} : x[g] = Rows(u)[g]
        BY <1>b, <3>0, <3>2, <4>2, <4>3
      <4>5. HasTables(Home)' /\ db'[Home] = x
        BY <1>3, <3>3, <3>4, <4>4
      <4>6. /\ removed'[f] = 0 /\ emptied' = Lost(u) \ {f}
            /\ \A g \in File \ {f} : removed'[g] = removed[g]
        BY <1>b, <3>0, <3>1, <3>4 DEF GivenBack
      <4>7. RowIsWritten(f, files)
        <5>1. files[f] \in Nat
          BY <1>b, <3>0
        <5>2. QED
          BY <4>4, <4>5, <4>6, <5>1 DEF RowIsWritten
      <4>8. ASSUME NEW g \in File \ {f} PROVE RowFits(g, files)
        <5>1. CASE task[u].truncate
          <6>1. db'[Home][g] = 0 /\ g \in emptied'
            BY <4>4, <4>5, <4>6, <5>1 DEF Rows, Lost, Empty
          <6>2. QED
            BY <6>1 DEF RowFits, RowIsEmptied
        <5>2. CASE ~task[u].truncate
          <6>1. db'[Home][g] = db[Home][g] /\ emptied' = emptied \ {f}
            BY <3>4, <4>4, <4>5, <4>6, <5>2 DEF Rows, Lost
          <6>2. QED
            BY <4>6, <6>1 DEF RowFits, RowStays
        <5>3. QED
          BY <5>1, <5>2
      <4>9. \A g \in File : RowFits(g, files)
        BY <4>7, <4>8 DEF RowFits
      <4>10. QED
        BY <4>5, <4>9 DEF HomeFits, files
    <3>5. CASE Current(u) # Home
      BY <1>2, <3>1, <3>3, <3>5
    <3>6. QED
      BY <3>4, <3>5
  <2>3. QED
    BY <2>1, <2>2
<1>d. Empty \in [File -> Nat] /\ \A f \in File : Empty[f] = 0
  BY DEF Empty
<1>7. ASSUME NEW u \in User, ImportFails(u) PROVE HomeFits
  <2>1. CASE db' = db /\ UNCHANGED absent
    BY <1>1, <2>1
  <2>2. CASE ~(db' = db /\ UNCHANGED absent)
    <3>1. db' = [db EXCEPT ![Current(u)] = Empty] /\ GivenBack(u, {}, File)
      BY <1>7, <2>2 DEF ImportFails
    <3>2. CASE Current(u) = Home
      <4>1. HasTables(Home)' /\ db'[Home] = Empty
        BY <1>3, <1>d, <3>1, <3>2
      <4>2. emptied' = File
        BY <1>b, <3>1, <3>2 DEF GivenBack
      <4>3. QED
        BY <1>d, <4>1, <4>2 DEF HomeFits, RowFits, RowIsEmptied
    <3>3. CASE Current(u) # Home
      BY <1>2, <3>1, <3>3
    <3>4. QED
      BY <3>2, <3>3
  <2>3. QED
    BY <2>1, <2>2
<1>8. ASSUME NEW u \in User, EndImport(u) PROVE HomeFits
  <2>1. PICK S : /\ S = IF task[u].op = "import" THEN {} ELSE Lost(u)
                 /\ GivenBack(u, {}, S)
    BY <1>8 DEF EndImport
  <2>2. CASE Current(u) # Home
    <3>1. CASE db' = db
      <4>1. /\ emptied' = emptied /\ \A f \in File : removed'[f] = removed[f]
        BY <1>b, <2>1, <2>2 DEF GivenBack
      <4>2. QED
        BY <1>a, <3>1, <4>1 DEF HasTables, Home, HomeFits, RowFits, RowStays
    <3>2. CASE db' # db
      <4>1. db' = [db EXCEPT ![Current(u)] = Empty]
        BY <1>8, <3>2 DEF EndImport
      <4>2. QED
        BY <1>2, <2>1, <2>2, <4>1
    <3>3. QED
      BY <3>1, <3>2
  <2>3. CASE Current(u) = Home
    <3>1. /\ emptied' = S /\ \A f \in File : removed'[f] = removed[f]
      BY <1>b, <2>1, <2>3 DEF GivenBack
    <3>2. /\ HasTables(Home)'
          /\ db'[Home] = IF task[u].truncate THEN Empty ELSE db[Home]
      <4>1. CASE task[u].truncate
        <5>1. db' = [db EXCEPT ![Home] = Empty]
          BY <1>8, <1>a, <2>3, <4>1 DEF EndImport
        <5>2. QED
          BY <1>3, <1>d, <4>1, <5>1
      <4>2. CASE ~task[u].truncate
        <5>1. db' = db
          BY <1>8, <4>2 DEF EndImport
        <5>2. QED
          BY <1>a, <4>2, <5>1 DEF HasTables, Home
      <4>3. QED
        BY <4>1, <4>2
    <3>3. task[u].pc = "import" /\ task[u].todo = {} /\ session[u] = Master
      BY <1>8, <1>b, <2>3 DEF EndImport, At
    <3>4. ASSUME NEW f \in File PROVE RowFits(f, files)
      <4>1. files[f] \in Nat /\ db[Home][f] \in Nat /\ (db[Home][f] = 0 \/ removed[f] = 0)
        BY <1>b DEF SyncInv
      <4>2. CASE task[u].op = "import"
        <5>1. files[f] = 0 \/ (~task[u].truncate /\ db[Home][f] >= files[f])
          BY <3>3, <4>2 DEF SyncInv, SyncFits, files
        <5>2. db'[Home][f] >= files[f] /\ (db'[Home][f] = 0 \/ removed'[f] = 0)
          BY <1>d, <3>1, <3>2, <4>1, <5>1
        <5>3. QED
          BY <5>2 DEF RowFits, RowIsWritten
      <4>3. CASE task[u].op # "import" /\ task[u].truncate
        <5>1. db'[Home][f] = 0 /\ f \in emptied'
          BY <1>d, <2>1, <3>1, <3>2, <4>3 DEF Lost
        <5>2. QED
          BY <5>1 DEF RowFits, RowIsEmptied
      <4>4. CASE task[u].op # "import" /\ ~task[u].truncate
        <5>1. db'[Home][f] = db[Home][f] /\ emptied' = emptied
          BY <2>1, <3>1, <3>2, <4>4 DEF Lost
        <5>2. QED
          BY <3>1, <5>1 DEF RowFits, RowStays
      <4>5. QED
        BY <4>2, <4>3, <4>4
    <3>5. QED
      BY <3>2, <3>4 DEF HomeFits, files
  <2>4. QED
    BY <2>2, <2>3
<1>9. ASSUME NEW u \in User, CreateSchema(u) \/ CopySchema(u) \/ DropSchema(u) PROVE HomeFits
  <2>1. /\ \E x : db' = [db EXCEPT ![SchemaOf[task[u].branch]] = x]
        /\ UNCHANGED absent
    BY <1>9 DEF CreateSchema, CopySchema, DropSchema
  <2>2. task[u].branch # Master
    BY <1>9 DEF CreateSchema, CopySchema, DropSchema, At, SyncInv, SyncFits
  <2>3. SchemaOf[task[u].branch] \in Schema \ {Home}
    BY <1>b, <2>2, Types, GitflowConstants
  <2>4. db'[Home] = db[Home]
    BY <1>b, <2>1, <2>3
  <2>5. QED
    BY <1>1, <2>1, <2>4
<1>10. ASSUME Restart PROVE HomeFits
  <2>1. db'[Home] = db[Home] /\ UNCHANGED absent
    BY <1>10, <1>a, <1>b DEF Restart, HasTables
  <2>2. QED
    BY <1>1, <2>1
<1>11. ASSUME Quiescent PROVE HomeFits
  BY <1>1, <1>11 DEF Quiescent, vars
<1>12. ASSUME NEW u \in User, Step(u) PROVE HomeFits
  <2>1. \/ db' = db /\ UNCHANGED absent
        \/ CommitRemove(u) \/ ImportFile(u) \/ ImportFails(u)
        \/ EndImport(u) \/ CreateSchema(u) \/ CopySchema(u) \/ DropSchema(u)
    BY <1>12 DEF Step, OpenToWrite, CommitFiles, ReadObject, WriteExport, TagAsSynced,
       SchemaFails, PushDeletion, GfsMerge, SyncCurrentBranch, FindChanges
  <2>2. QED
    BY <1>1, <1>5, <1>6, <1>7, <1>8, <1>9, <2>1
<1>13. ASSUME NEW u \in User,
             \/ \E f \in File : Remove(u, f)
             \/ \E b \in Branch : \/ CreateBranch(u, b) \/ DeleteBranch(u, b)
                                  \/ SetCurrentBranch(u, b) \/ Merge(u, b)
             \/ ExportCurrentBranch(u) \/ ImportCurrentBranch(u) \/ Login(u)
      PROVE  HomeFits
  <2>1. db' = db /\ UNCHANGED absent
    BY <1>13 DEF Remove, CreateBranch, DeleteBranch, SetCurrentBranch, Merge,
       ExportCurrentBranch, ImportCurrentBranch, Login
  <2>2. QED
    BY <1>1, <2>1
<1>14. CASE \E u \in User : Step(u)
  BY <1>12, <1>14
<1>15. CASE Restart \/ Quiescent
  BY <1>10, <1>11, <1>15
<1>16. CASE ~(Restart \/ Quiescent \/ \E u \in User : Step(u))
  <2>1. PICK u \in User :
             \/ \E f \in File : SaveOrUpdate(u, f) \/ Remove(u, f)
             \/ \E b \in Branch : \/ CreateBranch(u, b) \/ DeleteBranch(u, b)
                                  \/ SetCurrentBranch(u, b) \/ Merge(u, b)
             \/ ExportCurrentBranch(u) \/ ImportCurrentBranch(u) \/ Login(u)
    BY <1>16 DEF Next
  <2>2. QED
    BY <1>4, <1>13, <2>1
<1>17. QED
  BY <1>14, <1>15, <1>16

\* So the rows of master are told apart from what users removed, and what is held stays so.
LEMMA HomeHolds ==
  ASSUME GitflowInv, LineageInv, OneUserSyncs, SyncInv, Next
  PROVE  /\ HasTables(Home)' /\ db'[Home] \in [File -> Nat]
         /\ \A f \in File : db'[Home][f] = 0 \/ removed'[f] = 0
         /\ \A f \in File : \A v \in Held[f] : v <= FilesOf(hist, head[Master])[f] => v \in Held'[f]
<1>1. HomeFits
  BY HomeRows
<1>2. GitflowInv' /\ Home \in Schema
  BY GitflowStep, HomeFacts DEF SyncInv
<1>3. db'[Home] \in [File -> Nat] /\ removed' \in [File -> Nat]
  <2>1. /\ db' \in [Schema -> Content \cup {NoSchema, NoTables}]
        /\ removed' \in Content
    BY <1>2 DEF GitflowInv, TypeOK
  <2>2. QED
    BY <1>1, <1>2, <2>1 DEF HomeFits, HasTables, Home, Content
<1>4. \A f \in File : RowFits(f, FilesOf(hist, head[Master]))
  BY <1>1 DEF HomeFits
<1>5. ASSUME NEW f \in File
      PROVE  /\ db'[Home][f] = 0 \/ removed'[f] = 0
             /\ \A v \in Held[f] : v <= FilesOf(hist, head[Master])[f] => v \in Held'[f]
  BY <1>3, <1>4, HeldStays
<1>6. QED
  BY <1>1, <1>3, <1>5 DEF HomeFits

\* What is held by rows alone, by a truncation, and in any case.
LEMMA HeldBy ==
  ASSUME GitflowInv', db'[Home] \in [File -> Nat], NEW f \in File, NEW v \in Nat,
         db'[Home][f] >= v \/ f \in emptied'
  PROVE  v \in Held'[f]
BY DEF Held, Home

\* The tag stays, and the head of master moves to a commit that has the old one.
LEMMA TagFreshStep ==
  ASSUME GitflowInv, LineageInv, OneUserSyncs, SyncInv, ChangesAreFound, Next
  PROVE  TagFresh(hist', tag'[Master], head'[Master], Held')
<1> DEFINE m == head[Master]
           n == head'[Master]
           T == tag[Master]
<1>a. /\ HasTables(Home) /\ GitflowInv' /\ ChangesAreFound'
      /\ TagFresh(hist, T, m, Held)
  BY GitflowStep, ChangesAreFoundStep DEF SyncInv
<1>b. /\ db[Home] \in [File -> Nat] /\ Master \in Branch /\ m # 0 /\ m \in DOMAIN hist
      /\ DOMAIN hist = 1 .. Len(hist) /\ Len(hist) \in Nat
      /\ FilesOf(hist, m) = hist[m].files /\ FilesOf(hist, m) \in [File -> Nat]
      /\ \A k : Reachable(k) = Past(hist, k)
  BY <1>a, HomeFacts
<1>c. /\ db'[Home] \in [File -> Nat]
      /\ \A f \in File : \A v \in Held[f] : v <= hist[m].files[f] => v \in Held'[f]
  BY <1>b, HomeHolds
<1>d. /\ n # 0 /\ n \in DOMAIN hist' /\ m \in hist'[n].past
      /\ \A k \in DOMAIN hist : hist'[k] = hist[k]
  <2>1. TypeOK /\ TasksFit /\ HistoryOK
    BY InvParts
  <2>2. HeadsForward
    BY <2>1, HistoryStep
  <2>3. n # 0 /\ n \in 0 .. Len(hist') /\ DOMAIN hist' = 1 .. Len(hist') /\ Len(hist') \in Nat
    BY <1>a, <1>b DEF GitflowInv, TypeOK, TagsAreBehindMaster
  <2>4. m \in hist'[n].past
    BY <1>b, <2>2, <2>3 DEF HeadsForward, After
  <2>5. QED
    BY <2>3, <2>4, HistoryGrows DEF LineageInv
<1> HIDE DEF m, n, T
<1>1. CASE tag'[Master] = T
  <2> SUFFICES ASSUME T # 0, NEW f \in File, f \notin Changed(hist', T, n)
               PROVE  Fresh(Held', FilesOf(hist', n), f)
    BY <1>1 DEF TagFresh, n
  <2>1. T \in hist[m].past /\ T \in DOMAIN hist /\ hist[T].past \subseteq hist[m].past
    <3>1. T \in hist[m].past
      BY <1>b DEF GitflowInv, TagsAreBehindMaster, Past, T, m
    <3>2. T \in DOMAIN hist
      BY <1>b, <3>1, Types
    <3>3. QED
      BY <1>b, <3>1, <3>2, Types
  <2>2. /\ Past(hist', T) = hist[T].past /\ Past(hist', m) = hist[m].past
        /\ Past(hist', n) = hist'[n].past /\ hist[m].past \subseteq hist'[n].past
    <3>1. hist'[m].past \subseteq hist'[n].past
      BY <1>a, <1>d DEF GitflowInv, HistoryIsClosed
    <3>2. QED
      BY <1>b, <1>d, <2>1, <3>1 DEF Past
  <2>3. f \notin Changed(hist', m, n) /\ f \notin Changed(hist', T, m)
    BY <2>1, <2>2 DEF Changed
  <2>4. f \notin Changed(hist, T, m)
    BY <1>b, <2>1, <2>3, ChangedStays
  <2>5. hist[m].files[f] \in Held[f]
    BY <1>a, <1>b, <2>4 DEF TagFresh, Fresh
  <2>6. hist'[n].files[f] \in {0, hist[m].files[f]}
    BY <1>a, <1>b, <1>d, <2>3 DEF ChangesAreFound
  <2>7. FilesOf(hist', n) = hist'[n].files /\ hist[m].files[f] \in Nat
    BY <1>b, <1>d DEF FilesOf
  <2>8. hist[m].files[f] \in Held'[f]
    BY <1>c, <2>5, <2>7
  <2>9. 0 \in Held'[f]
    <3>1. db'[Home][f] \in Nat
      BY <1>c
    <3>2. db'[Home][f] >= 0 /\ 0 \in Nat
      BY <3>1
    <3>3. QED
      BY <1>a, <1>c, <3>2, HeldBy
  <2>10. QED
    BY <2>6, <2>7, <2>8, <2>9 DEF Fresh
<1>2. CASE \E u \in User : TagAsSynced(u) /\ session[u] = Master
  <2>1. PICK u \in User : TagAsSynced(u) /\ session[u] = Master
    BY <1>2
  <2>2. \A f \in File : Fresh(Held, FilesOf(hist, m), f)
    BY <2>1 DEF TagAsSynced, At, SyncInv, SyncFits, m
  <2>3. hist' = hist /\ head' = head /\ Held' = Held
    BY <2>1 DEF TagAsSynced, Held, Home, absent
  <2>4. QED
    BY <2>2, <2>3 DEF TagFresh, m
<1>3. tag'[Master] = T \/ \E u \in User : TagAsSynced(u) /\ session[u] = Master
  <2>0. ASSUME NEW u \in User, Step(u) PROVE tag' = tag \/ TagAsSynced(u)
    BY <2>0 DEF Step, OpenToWrite, CommitFiles, CommitRemove, ReadObject, WriteExport,
       ImportFile, ImportFails, EndImport, CreateSchema, CopySchema, SchemaFails, PushDeletion, DropSchema,
       GfsMerge, SyncCurrentBranch, FindChanges
  <2>a. ASSUME NEW u \in User,
               \/ \E f \in File : SaveOrUpdate(u, f) \/ Remove(u, f)
               \/ \E b \in Branch : \/ CreateBranch(u, b) \/ DeleteBranch(u, b)
                                    \/ SetCurrentBranch(u, b) \/ Merge(u, b)
               \/ ExportCurrentBranch(u) \/ ImportCurrentBranch(u) \/ Login(u)
        PROVE  tag' = tag
    BY <2>a DEF SaveOrUpdate, Remove, CreateBranch, DeleteBranch, SetCurrentBranch, Merge,
       ExportCurrentBranch, ImportCurrentBranch, Login
  <2>b. Restart \/ Quiescent => tag' = tag
    BY DEF Restart, Quiescent, vars
  <2>1. tag' = tag \/ \E u \in User : TagAsSynced(u)
    <3>1. CASE Restart \/ Quiescent
      BY <2>b, <3>1
    <3>2. CASE ~(Restart \/ Quiescent)
      <4>1. PICK u \in User :
               \/ \E f \in File : SaveOrUpdate(u, f) \/ Remove(u, f)
               \/ \E b \in Branch : \/ CreateBranch(u, b) \/ DeleteBranch(u, b)
                                    \/ SetCurrentBranch(u, b) \/ Merge(u, b)
               \/ ExportCurrentBranch(u) \/ ImportCurrentBranch(u) \/ Login(u)
               \/ Step(u)
        BY <3>2 DEF Next
      <4>2. QED
        BY <2>0, <2>a, <4>1
    <3>3. QED
      BY <3>1, <3>2
  <2>2. ASSUME NEW u \in User, TagAsSynced(u), session[u] # Master PROVE tag'[Master] = T
    <3>1. tag \in [Branch -> 0 .. Len(hist)]
      BY DEF GitflowInv, TypeOK
    <3>2. tag' = [tag EXCEPT ![session[u]] = HeadOfRepository(u)]
      BY <2>2 DEF TagAsSynced
    <3>3. QED
      BY ONLY <3>1, <3>2, <2>2, <1>b DEF T
  <2>3. QED
    BY <2>1, <2>2 DEF T
<1>4. QED
  BY <1>1, <1>2, <1>3

\* What a step leaves a request to know.
SyncFitsNext(u) ==
    SyncFits(task'[u], session'[u], head', db'[Home], Held', FilesOf(hist', head'[Master]))

LEMMA NothingToKnow ==
  ASSUME NEW u, task'[u].pc \in {"idle", "remove"}
  PROVE  SyncFitsNext(u)
BY DEF SyncFitsNext, SyncFits

\* The snapshots of a write, of an export and of a sync.
LEMMA OpenForm ==
  ASSUME GitflowInv, NEW u \in User, OpenToWrite(u), Exists(session[u])
  PROVE  SameEdit(task[u], task'[u]) /\ task'[u].pc = "commit" /\ task'[u].base = head[session[u]]
<1>1. PICK n : n = head[session[u]]
  OBVIOUS
<1>2. Rebases(u, "commit", n)
  BY <1>1 DEF OpenToWrite, Rebases
<1>3. Alone(u) /\ SameEdit(task[u], task'[u]) /\ task'[u].pc = "commit" /\ task'[u].base = n
  BY <1>2, BaseForm
<1>4. QED
  BY <1>1, <1>3

LEMMA CompareForm ==
  ASSUME GitflowInv, NEW u \in User, SyncCurrentBranch(u)
  PROVE  /\ task'[u].pc = "compare" /\ task'[u].base = head[session[u]]
         /\ task'[u].op = task[u].op
<1>1. PICK n : n = head[session[u]]
  OBVIOUS
<1>2. Rebases(u, "compare", n)
  BY <1>1 DEF SyncCurrentBranch, Rebases
<1>3. Alone(u) /\ SameEdit(task[u], task'[u]) /\ task'[u].pc = "compare" /\ task'[u].base = n
  BY <1>2, BaseForm
<1>4. QED
  BY <1>1, <1>3 DEF SameEdit

LEMMA FoundForm ==
  ASSUME GitflowInv, NEW u \in User, FindChanges(u), tag[session[u]] # 0
  PROVE  /\ task'[u].pc = "import" /\ task'[u].op = task[u].op /\ task'[u].base = task[u].base
         /\ task'[u].todo = {f \in ChangedFiles(tag[session[u]], head[Master]) : FilesAt(task[u].base)[f] # 0}
<1>1. PICK todo : todo = {f \in ChangedFiles(tag[session[u]], head[Master]) : FilesAt(task[u].base)[f] # 0}
  OBVIOUS
<1>2. Lists(u, "import", todo)
  BY <1>1 DEF FindChanges, Lists
<1>3. /\ Alone(u) /\ SameEdit(task[u], task'[u]) /\ task'[u].pc = "import"
      /\ task'[u].base = task[u].base /\ task'[u].todo = todo
  BY <1>2, TodoForm
<1>4. QED
  BY <1>1, <1>3 DEF SameEdit

LEMMA ReadStepForm ==
  ASSUME GitflowInv, NEW u \in User, ReadObject(u), HasTables(Current(u))
  PROVE  \E f \in task[u].todo :
            /\ task'[u].pc = task[u].pc /\ task'[u].op = task[u].op /\ task'[u].todo = task[u].todo \ {f}
            /\ DOMAIN task'[u].temp = DOMAIN task[u].temp
            /\ \A g \in DOMAIN task[u].temp :
                  task'[u].temp[g] = IF g = f THEN db[Current(u)][f] ELSE task[u].temp[g]
<1>1. PICK f \in task[u].todo : task' = [task EXCEPT ![u].todo = @ \ {f}, ![u].temp[f] = db[Current(u)][f]]
  BY DEF ReadObject
<1>2. PICK x : x = db[Current(u)][f] /\ Reads(u, f, x)
  BY <1>1 DEF Reads
<1>3. /\ task'[u].pc = task[u].pc /\ task'[u].op = task[u].op /\ task'[u].todo = task[u].todo \ {f}
      /\ DOMAIN task'[u].temp = DOMAIN task[u].temp
      /\ \A g \in DOMAIN task[u].temp : task'[u].temp[g] = IF g = f THEN x ELSE task[u].temp[g]
  BY <1>2, ReadForm
<1>4. QED
  BY <1>2, <1>3

\* The steps that write to git.
LEMMA SyncOfWrites ==
  ASSUME GitflowInv, LineageInv, OneUserSyncs, SyncInv, NEW u \in User, OpenToWrite(u) \/ CommitFiles(u)
  PROVE  SyncFitsNext(u)
<1> DEFINE rows == db[Home]
           files == FilesOf(hist, head[Master])
<1>a. /\ rows \in [File -> Nat] /\ head[Master] \in DOMAIN hist /\ files \in [File -> Nat]
      /\ \A n : FilesAt(n) = FilesOf(hist, n) /\ session[u] \in Branch
      /\ Master \in Branch
  BY HomeFacts DEF SyncInv
<1>b. SyncFits(task[u], session[u], head, rows, Held, files)
  BY DEF SyncInv
<1>c. db' = db /\ session' = session /\ Held' = Held
  BY DEF OpenToWrite, CommitFiles, Held, Home, absent
<1>1. ASSUME Fail(u) PROVE SyncFitsNext(u)
  <2>1. task'[u].pc \in {"idle", "remove"}
    BY <1>1, EndForm DEF Fail, End
  <2>2. QED
    BY <2>1, NothingToKnow
<1>2. CASE OpenToWrite(u) /\ Exists(session[u])
  <2>1. SameEdit(task[u], task'[u]) /\ task'[u].pc = "commit" /\ task'[u].base = head[session[u]]
    BY <1>2, OpenForm
  <2>2. head' = head /\ hist' = hist /\ task[u].pc = "open"
    BY <1>2 DEF OpenToWrite, At
  <2>3. QED
    BY <1>b, <1>c, <2>1, <2>2 DEF SyncFits, SyncFitsNext, SameEdit
<1>3. CASE CommitFiles(u)
  <2>1. task[u].pc = "commit" /\ task[u].op \in {"save", "delete", "export"} /\ task[u].base = head[session[u]]
    BY <1>3, <1>b, Types DEF CommitFiles, At, SyncFits
  <2>2. CASE task' = [task EXCEPT ![u].pc = "open", ![u].attempt = @ + 1] /\ UNCHANGED <<hist, head>>
    <3>1. SameEdit(task[u], task'[u]) /\ task'[u].pc = "open"
      BY <2>2, AgainForm
    <3>2. QED
      BY <1>b, <1>c, <2>1, <2>2, <3>1 DEF SyncFits, SyncFitsNext, SameEdit
  <2>3. ASSUME task' = [task EXCEPT ![u].pc = NextAfterCommit(task[u].op), ![u].result = "returned"],
               \/ Overlay(task[u].temp, FilesAt(task[u].base)) = FilesAt(task[u].base) /\ UNCHANGED <<hist, head>>
               \/ Commits(session[u], {task[u].base}, Overlay(task[u].temp, FilesAt(task[u].base)))
        PROVE  SyncFitsNext(u)
    <3>1. task'[u].pc = NextAfterCommit(task[u].op)
      BY <2>3, EndForm
    <3>2. CASE task[u].op # "export"
      BY <2>1, <3>1, <3>2, NothingToKnow DEF NextAfterCommit
    <3>3. CASE task[u].op = "export" /\ session[u] # Master
      <4>1. task'[u].pc = "tag"
        BY <3>1, <3>3 DEF NextAfterCommit
      <4>2. QED
        BY <1>c, <3>3, <4>1 DEF SyncFits, SyncFitsNext
    <3>4. CASE task[u].op = "export" /\ session[u] = Master
      <4>1. task'[u].pc = "tag"
        BY <3>1, <3>4 DEF NextAfterCommit
      <4>2. DOMAIN task[u].temp = File /\ \A f \in File : task[u].temp[f] = rows[f]
        BY <1>b, <2>1, <3>4 DEF SyncFits
      <4>3. Overlay(task[u].temp, FilesAt(task[u].base)) = rows
        BY <1>a, <4>2 DEF Overlay
      <4>4. FilesOf(hist', head'[Master]) = rows
        <5>1. CASE Overlay(task[u].temp, FilesAt(task[u].base)) = FilesAt(task[u].base) /\ UNCHANGED <<hist, head>>
          BY <1>a, <2>1, <3>4, <4>3, <5>1
        <5>2. CASE Commits(session[u], {task[u].base}, Overlay(task[u].temp, FilesAt(task[u].base)))
          <6>1. Commits(Master, {task[u].base}, rows)
            BY <3>4, <4>3, <5>2
          <6>2. {task[u].base} \in SUBSET (1 .. Len(hist)) /\ rows \in Content
            BY <1>a, <2>1, <3>4, Types DEF Content
          <6>3. Adds({task[u].base}, rows) /\ head'[Master] = Len(hist) + 1
            BY <1>a, <6>1, <6>2, CommitsAdds
          <6>4. Len(hist) + 1 # 0
            BY Types
          <6>5. QED
            BY <6>3, <6>4 DEF Adds, FilesOf
        <5>3. QED
          BY <2>3, <5>1, <5>2
      <4>5. \A f \in File : Fresh(Held, rows, f)
        BY <1>a DEF Fresh, Held
      <4>6. QED
        BY <1>c, <4>1, <4>4, <4>5 DEF SyncFits, SyncFitsNext
    <3>5. QED
      BY <3>2, <3>3, <3>4
  <2>4. QED
    <3>1. \/ /\ task' = [task EXCEPT ![u].pc = NextAfterCommit(task[u].op), ![u].result = "returned"]
             /\ \/ Overlay(task[u].temp, FilesAt(task[u].base)) = FilesAt(task[u].base) /\ UNCHANGED <<hist, head>>
                \/ Commits(session[u], {task[u].base}, Overlay(task[u].temp, FilesAt(task[u].base)))
          \/ task' = [task EXCEPT ![u].pc = "open", ![u].attempt = @ + 1] /\ UNCHANGED <<hist, head>>
          \/ Fail(u)
      BY <1>3 DEF CommitFiles
    <3>2. QED
      BY <1>1, <2>2, <2>3, <3>1
<1>4. QED
  BY <1>1, <1>2, <1>3 DEF OpenToWrite

\* The steps of an export and of an import.
LEMMA SyncOfCopies ==
  ASSUME GitflowInv, LineageInv, OneUserSyncs, SyncInv, Next, NEW u \in User,
         \/ ReadObject(u) \/ WriteExport(u) \/ ImportFile(u) \/ ImportFails(u) \/ EndImport(u)
         \/ SyncCurrentBranch(u) \/ FindChanges(u)
  PROVE  SyncFitsNext(u)
<1> DEFINE rows == db[Home]
           files == FilesOf(hist, head[Master])
<1>a. /\ rows \in [File -> Nat] /\ head[Master] \in DOMAIN hist /\ files \in [File -> Nat]
      /\ \A n : FilesAt(n) = FilesOf(hist, n) /\ Reachable(n) = Past(hist, n)
      /\ session[u] \in Branch /\ (Current(u) = Home <=> session[u] = Master)
      /\ Home \in Schema /\ DOMAIN db = Schema
  BY HomeFacts DEF SyncInv
<1>b. /\ SyncFits(task[u], session[u], head, rows, Held, files) /\ HasTables(Home)
      /\ TagFresh(hist, tag[Master], head[Master], Held)
  BY DEF SyncInv
<1>c. hist' = hist /\ head' = head /\ session' = session
  BY DEF ReadObject, WriteExport, ImportFile, ImportFails, EndImport, SyncCurrentBranch, FindChanges
<1>d. \A f \in File : files[f] = 0 => Fresh(Held, files, f)
  BY <1>a DEF Fresh, Held
<1>e. /\ GitflowInv' /\ db'[Home] \in [File -> Nat]
      /\ \A f \in File : Fresh(Held, files, f) => Fresh(Held', files, f)
  <2>1. \A f \in File : files[f] \in Nat /\ files[f] <= files[f]
    BY <1>a
  <2>2. QED
    BY <2>1, GitflowStep, HomeHolds DEF Fresh
<1>f. ASSUME NEW f \in File, db'[Home][f] >= files[f] \/ f \in emptied' PROVE Fresh(Held', files, f)
  BY <1>a, <1>e, <1>f, HeldBy DEF Fresh
<1>g. InMaster(u) <=> session[u] = Master
  BY HomeFacts DEF SyncInv
<1>1. ASSUME End(u, "failed") PROVE SyncFitsNext(u)
  <2>1. task'[u].pc = "idle"
    BY <1>1, EndForm DEF End
  <2>2. QED
    BY <2>1, NothingToKnow
<1>2. CASE ReadObject(u) /\ HasTables(Current(u))
  <2>1. PICK f \in task[u].todo :
           /\ task'[u].pc = task[u].pc /\ task'[u].op = task[u].op /\ task'[u].todo = task[u].todo \ {f}
           /\ DOMAIN task'[u].temp = DOMAIN task[u].temp
           /\ \A g \in DOMAIN task[u].temp :
                 task'[u].temp[g] = IF g = f THEN db[Current(u)][f] ELSE task[u].temp[g]
    BY <1>2, ReadStepForm
  <2>2. task[u].pc = "read" /\ task[u].op = "export" /\ db' = db
    BY <1>2 DEF ReadObject, At, GitflowInv, TasksFit, TaskFits
  <2>3. DOMAIN task[u].temp = File /\ (session[u] = Master => \A g \in File : g \in task[u].todo \/ task[u].temp[g] = rows[g])
    BY <1>b, <2>2 DEF SyncFits
  <2>4. DOMAIN task'[u].temp = File
    BY <2>1, <2>3
  <2>5. ASSUME session[u] = Master, NEW g \in File PROVE g \in task'[u].todo \/ task'[u].temp[g] = rows[g]
    <3>1. db[Current(u)][f] = rows[f]
      BY <1>a, <2>5
    <3>2. QED
      BY <2>1, <2>3, <2>5, <3>1
  <2>6. QED
    BY <1>c, <2>1, <2>2, <2>4, <2>5 DEF SyncFits, SyncFitsNext
<1>3. CASE WriteExport(u)
  <2>1. task'[u].pc = "open" /\ SameEdit(task[u], task'[u])
    BY <1>3, GoToForm DEF WriteExport
  <2>2. task[u].pc = "read" /\ task[u].op = "export" /\ task[u].todo = {} /\ db' = db
    BY <1>3 DEF WriteExport, At, GitflowInv, TasksFit, TaskFits
  <2>3. QED
    BY <1>b, <1>c, <2>1, <2>2 DEF SyncFits, SyncFitsNext, SameEdit
<1>4. CASE ImportFile(u)
  <2>1. task[u].pc = "import" /\ task[u].base = head[session[u]]
    BY <1>4, <1>b DEF ImportFile, At, SyncFits
  <2>2. PICK f \in task[u].todo :
           /\ task' = [task EXCEPT ![u].todo = @ \ {f}, ![u].truncate = FALSE]
           /\ \/ /\ HasTables(Current(u))
                 /\ db' = [db EXCEPT ![Current(u)] = [Rows(u) EXCEPT ![f] = FilesAt(task[u].base)[f]]]
                 /\ GivenBack(u, {f}, Lost(u))
              \/ FileMayBeInvalid \/ ~HasTables(Current(u))
    BY <1>4 DEF ImportFile
  <2>3. /\ task'[u].pc = "import" /\ task'[u].op = task[u].op /\ task'[u].base = task[u].base
        /\ task'[u].todo = task[u].todo \ {f} /\ task'[u].truncate = FALSE
    BY <2>1, <2>2, ImportForm DEF SameEdit
  <2>4. ASSUME session[u] = Master
        PROVE  /\ db'[Home] = [Rows(u) EXCEPT ![f] = files[f]] /\ Rows(u) \in [File -> Nat]
               /\ emptied' = Lost(u) \ {f} /\ f \in File
    <3>1. Rows(u) \in [File -> Nat] /\ f \in File
      BY <1>a, <2>4 DEF Rows, Empty, GitflowInv, TypeOK, Task
    <3>2. /\ db' = [db EXCEPT ![Home] = [Rows(u) EXCEPT ![f] = files[f]]]
          /\ GivenBack(u, {f}, Lost(u))
      BY <1>a, <1>b, <2>1, <2>2, <2>4 DEF OneUserSyncs
    <3>3. QED
      BY <1>a, <1>g, <2>4, <3>1, <3>2 DEF GivenBack
  <2>5. ASSUME session[u] = Master, task[u].op # "import", NEW g \in File, g \notin task'[u].todo
        PROVE  Fresh(Held', files, g)
    <3>1. CASE g = f
      <4>1. db'[Home][g] = files[g] /\ files[g] \in Nat
        BY <1>a, <2>4, <2>5, <3>1
      <4>2. db'[Home][g] >= files[g]
        BY <4>1
      <4>3. QED
        BY <1>f, <4>2
    <3>2. CASE g # f /\ task[u].truncate
      BY <1>f, <2>4, <2>5, <3>2 DEF Lost
    <3>3. CASE g # f /\ ~task[u].truncate
      <4>1. g \in File \ task[u].todo
        BY <2>3, <2>5, <3>3
      <4>2. Fresh(Held, files, g)
        BY <1>b, <2>1, <2>5, <3>3, <4>1 DEF SyncFits
      <4>3. QED
        BY <1>e, <4>2
    <3>4. QED
      BY <3>1, <3>2, <3>3
  <2>6. ASSUME session[u] = Master, task[u].op = "import", NEW g \in File, g \notin task'[u].todo
        PROVE  files[g] = 0 \/ db'[Home][g] >= files[g]
    <3>0. files[g] \in Nat
      BY <1>a
    <3>1. CASE g = f
      <4>1. db'[Home][g] = files[g]
        BY <2>4, <2>6, <3>1
      <4>2. QED
        BY <3>0, <4>1
    <3>2. CASE g # f
      <4>1. g \in File \ task[u].todo /\ db'[Home][g] = Rows(u)[g]
        BY <2>3, <2>4, <2>6, <3>2
      <4>2. files[g] = 0 \/ (~task[u].truncate /\ rows[g] >= files[g])
        BY <1>b, <2>1, <2>6, <4>1 DEF SyncFits
      <4>3. ~task[u].truncate => Rows(u) = rows
        BY <1>a, <2>6 DEF Rows
      <4>4. QED
        BY <4>1, <4>2, <4>3
    <3>3. QED
      BY <3>1, <3>2
  <2>7. QED
    BY <1>c, <2>1, <2>3, <2>5, <2>6 DEF SyncFits, SyncFitsNext
<1>5. CASE EndImport(u)
  <2>1. task[u].pc = "import" /\ task[u].todo = {} /\ task'[u].pc = "tag"
    BY <1>5, GoToForm DEF EndImport, At
  <2>2. ASSUME session[u] = Master
        PROVE  db'[Home] = IF task[u].truncate THEN Empty ELSE rows
    <3>1. CASE task[u].truncate
      <4>1. db' = [db EXCEPT ![Home] = Empty]
        BY <1>5, <1>a, <1>b, <2>2, <3>1 DEF EndImport
      <4>2. QED
        BY <1>a, <3>1, <4>1
    <3>2. CASE ~task[u].truncate
      BY <1>5, <3>2 DEF EndImport
    <3>3. QED
      BY <3>1, <3>2
  <2>3. ASSUME session[u] = Master, NEW f \in File PROVE Fresh(Held', files, f)
    <3>1. CASE task[u].op = "import"
      <4>1. files[f] = 0 \/ (~task[u].truncate /\ rows[f] >= files[f])
        BY <1>b, <2>1, <2>3, <3>1 DEF SyncFits
      <4>2. db'[Home][f] >= files[f]
        <5>1. db'[Home][f] \in Nat
          BY <1>e
        <5>2. CASE files[f] = 0
          BY <5>1, <5>2
        <5>3. CASE ~task[u].truncate /\ rows[f] >= files[f]
          BY <2>2, <2>3, <5>3
        <5>4. QED
          BY <4>1, <5>2, <5>3
      <4>3. QED
        BY <1>f, <4>2
    <3>2. CASE task[u].op # "import" /\ task[u].truncate
      <4>1. GivenBack(u, {}, File)
        BY <1>5, <3>2 DEF EndImport, Lost
      <4>2. emptied' = File \ {}
        BY <1>g, <2>3, <4>1 DEF GivenBack
      <4>3. QED
        BY <1>f, <2>3, <4>2
    <3>3. CASE task[u].op # "import" /\ ~task[u].truncate
      <4>1. Fresh(Held, files, f)
        BY <1>b, <2>1, <2>3, <3>3 DEF SyncFits
      <4>2. QED
        BY <1>e, <4>1
    <3>4. QED
      BY <3>1, <3>2, <3>3
  <2>4. QED
    BY <1>c, <2>1, <2>3 DEF SyncFits, SyncFitsNext
<1>6. CASE SyncCurrentBranch(u)
  <2>1. task'[u].pc = "compare" /\ task'[u].base = head[session[u]] /\ task'[u].op = task[u].op
    BY <1>6, CompareForm
  <2>2. task[u].op # "import"
    BY <1>6, <1>b DEF SyncCurrentBranch, At, SyncFits
  <2>3. QED
    BY <1>c, <2>1, <2>2 DEF SyncFits, SyncFitsNext
<1>7. CASE FindChanges(u) /\ tag[session[u]] # 0
  <2>1. PICK todo : todo = {f \in ChangedFiles(tag[session[u]], head[Master]) : FilesAt(task[u].base)[f] # 0}
    OBVIOUS
  <2>2. At(u, "compare") /\ task[u].op # "import"
    BY <1>7, <1>b DEF FindChanges, At, SyncFits
  <2>3. /\ task'[u].pc = "import" /\ task'[u].op = task[u].op
        /\ task'[u].base = task[u].base /\ task'[u].todo = todo
    BY <1>7, <2>1, FoundForm
  <2>4. task[u].base = head[session[u]]
    BY <1>b, <2>2 DEF SyncFits, At
  <2>5. ASSUME session[u] = Master, NEW f \in File \ todo PROVE Fresh(Held, files, f)
    <3>1. CASE FilesAt(task[u].base)[f] = 0
      BY <1>a, <1>d, <2>4, <2>5, <3>1
    <3>2. CASE f \notin ChangedFiles(tag[session[u]], head[Master])
      <4>1. f \notin Changed(hist, tag[Master], head[Master])
        BY <1>a, <2>5, <3>2 DEF ChangedFiles, Changed
      <4>2. QED
        BY <1>7, <1>b, <2>5, <4>1 DEF TagFresh
    <3>3. QED
      BY <2>1, <2>5, <3>1, <3>2
  <2>6. ASSUME session[u] = Master, NEW f \in File \ todo PROVE Fresh(Held', files, f)
    BY <1>e, <2>5, <2>6
  <2>7. QED
    BY <1>c, <2>2, <2>3, <2>4, <2>6 DEF SyncFits, SyncFitsNext
<1>8. QED
  BY <1>1, <1>2, <1>3, <1>4, <1>5, <1>6, <1>7 DEF ReadObject, ImportFails, FindChanges

\* The other steps of a request: what its branch is remains, or there is nothing to know.
LEMMA SyncOfBranches ==
  ASSUME GitflowInv, LineageInv, OneUserSyncs, SyncInv, NEW u \in User,
         \/ CommitRemove(u) \/ TagAsSynced(u) \/ CreateSchema(u) \/ CopySchema(u) \/ SchemaFails(u)
         \/ PushDeletion(u) \/ DropSchema(u) \/ GfsMerge(u)
         \/ ReadObject(u) /\ ~HasTables(Current(u))
  PROVE  SyncFitsNext(u)
<1>a. SyncFits(task[u], session[u], head, db[Home], Held, FilesOf(hist, head[Master]))
  BY DEF SyncInv
<1>1. CASE CommitRemove(u) /\ GoTo(u, "idle")
  <2>1. task'[u].pc = "idle"
    BY <1>1, GoToForm
  <2>2. QED
    BY <2>1, NothingToKnow
<1>0. CASE GfsMerge(u) /\ GoTo(u, "sync")
  <2>1. task'[u].pc = "sync" /\ task'[u].op = task[u].op
    BY <1>0, GoToForm DEF SameEdit
  <2>2. task[u].op # "import"
    BY <1>0, <1>a DEF GfsMerge, At, SyncFits
  <2>3. QED
    BY <2>1, <2>2 DEF SyncFits, SyncFitsNext
<1>2. ASSUME NEW r, End(u, r) PROVE SyncFitsNext(u)
  <2>1. task'[u].pc = "idle"
    BY <1>2, EndForm DEF End
  <2>2. QED
    BY <2>1, NothingToKnow
<1>3. CASE CreateSchema(u)
  <2>1. task[u].pc = "schema" /\ GoTo(u, "copy") /\ head' = head
    BY <1>3 DEF CreateSchema, At
  <2>2. task'[u].pc = "copy" /\ task'[u].branch = task[u].branch
    BY <2>1, GoToForm DEF SameEdit
  <2>3. QED
    BY <1>a, <2>1, <2>2 DEF SyncFits, SyncFitsNext
<1>4. CASE CopySchema(u)
  <2>1. task[u].pc = "copy" /\ GoTo(u, "tag") /\ SetSession(u, OrMaster(task[u].branch))
    BY <1>4 DEF CopySchema, At
  <2>2. task[u].branch # Master /\ OrMaster(task[u].branch) = task[u].branch
    BY <1>a, <2>1 DEF SyncFits, OrMaster, Exists
  <2>3. session'[u] # Master
    BY <2>1, <2>2 DEF SetSession, GitflowInv, TypeOK
  <2>4. task'[u].pc = "tag"
    BY <2>1, GoToForm
  <2>5. QED
    BY <2>3, <2>4 DEF SyncFits, SyncFitsNext
<1>5. CASE PushDeletion(u) /\ GoTo(u, "drop")
  <2>1. task[u].pc = "unpush"
    BY <1>5 DEF PushDeletion, At
  <2>2. task'[u].pc = "drop" /\ task'[u].branch = task[u].branch
    BY <1>5, GoToForm DEF SameEdit
  <2>3. QED
    BY <1>a, <2>1, <2>2 DEF SyncFits, SyncFitsNext
<1>6. QED
  BY <1>0, <1>1, <1>2, <1>3, <1>4, <1>5 DEF CommitRemove, TagAsSynced, SchemaFails, PushDeletion, DropSchema,
     GfsMerge, ReadObject

\* New requests.
LEMMA SyncOfRequests ==
  ASSUME GitflowInv, OneUserSyncs, SyncInv, NEW u \in User,
         \/ \E f \in File : SaveOrUpdate(u, f) \/ Remove(u, f)
         \/ \E b \in Branch : \/ CreateBranch(u, b) \/ DeleteBranch(u, b)
                              \/ SetCurrentBranch(u, b) \/ Merge(u, b)
         \/ ExportCurrentBranch(u) \/ ImportCurrentBranch(u) \/ Login(u)
  PROVE  SyncFitsNext(u)
<1>a. /\ db[Home] \in [File -> Nat] /\ head[Master] # 0 /\ Master \in Branch /\ session[u] \in Branch
      /\ FilesOf(hist, head[Master]) \in [File -> Nat]
      /\ \A n : FilesAt(n) = FilesOf(hist, n)
      /\ head \in [Branch -> 0 .. Len(hist)]
  BY HomeFacts DEF SyncInv, GitflowInv, TypeOK
<1>1. ASSUME NEW f \in File, SaveOrUpdate(u, f) \/ Remove(u, f) PROVE SyncFitsNext(u)
  <2>1. task'[u].pc = "open" /\ task'[u].op \in {"save", "delete"}
    BY <1>1, NewTasks
  <2>2. QED
    BY <2>1 DEF SyncFits, SyncFitsNext
<1>2. ASSUME NEW b \in Branch, CreateBranch(u, b) PROVE SyncFitsNext(u)
  <2>1. task'[u].pc = "schema" /\ task'[u].op = "create" /\ task'[u].branch = b
    BY <1>2, NewTasks
  <2>2. head[b] = 0 /\ head[session[u]] # 0 /\ head' = [head EXCEPT ![b] = head[session[u]]]
    BY <1>2 DEF CreateBranch, Exists
  <2>3. b # Master /\ head'[b] # 0
    BY <1>a, <2>2
  <2>4. QED
    BY <2>1, <2>3 DEF SyncFits, SyncFitsNext
<1>3. ASSUME NEW b \in Branch, DeleteBranch(u, b) PROVE SyncFitsNext(u)
  <2>1. task'[u].pc = "unpush" /\ task'[u].op = "drop" /\ task'[u].branch = b /\ b # Master
    BY <1>3, NewTasks DEF DeleteBranch
  <2>2. QED
    BY <2>1 DEF SyncFits, SyncFitsNext
<1>4. ASSUME NEW b \in Branch, SetCurrentBranch(u, b) \/ Login(u) PROVE SyncFitsNext(u)
  <2>1. task' = task /\ task[u].pc = "idle"
    BY <1>4 DEF SetCurrentBranch, Login, Begin, At
  <2>2. QED
    BY <2>1, NothingToKnow
<1>5. ASSUME NEW b \in Branch, Merge(u, b) PROVE SyncFitsNext(u)
  <2>1. task'[u].pc = (IF Exists(b) THEN "merge" ELSE "idle") /\ task'[u].op = "merge"
    BY <1>5, NewTasks
  <2>2. QED
    BY <2>1 DEF SyncFits, SyncFitsNext
<1>6. CASE ExportCurrentBranch(u)
  <2>1. task'[u].pc = "read" /\ task'[u].op = "export" /\ task'[u].temp = Empty /\ task'[u].todo = File
    BY <1>6, NewTasks
  <2>2. DOMAIN Empty = File
    BY DEF Empty
  <2>3. QED
    BY <2>1, <2>2 DEF SyncFits, SyncFitsNext
<1>7. CASE ImportCurrentBranch(u)
  <2>1. /\ task'[u].pc = "import" /\ task'[u].op = "import" /\ task'[u].base = head[session[u]]
        /\ task'[u].todo = {f \in File : FilesAt(head[session[u]])[f] # 0}
    BY <1>7, NewTasks
  <2>2. UNCHANGED <<hist, head, db, session>>
    BY <1>7 DEF ImportCurrentBranch
  <2>3. ASSUME session[u] = Master, NEW f \in File \ task'[u].todo
        PROVE  FilesOf(hist, head[Master])[f] = 0
    BY <1>a, <2>1, <2>3
  <2>4. QED
    BY <2>1, <2>2, <2>3 DEF SyncFits, SyncFitsNext
<1>8. QED
  <2>1. Login(u) => \E b \in Branch : SetCurrentBranch(u, b) \/ Login(u)
    BY <1>a
  <2>2. QED
    BY <1>1, <1>2, <1>3, <1>4, <1>5, <1>6, <1>7, <2>1

LEMMA SyncStep ==
  ASSUME GitflowInv, LineageInv, OneUserSyncs, ChangesAreFound, SyncInv, Next
  PROVE  SyncInv'
<1>1. HasTables(Home)' /\ \A f \in File : db'[Home][f] = 0 \/ removed'[f] = 0
  BY HomeHolds
<1>2. TagFresh(hist', tag'[Master], head'[Master], Held')
  BY TagFreshStep
<1>3. ASSUME NEW u \in User PROVE SyncFitsNext(u)
  <2>1. CASE Restart
    <3>1. task'[u].pc = "idle"
      BY <2>1 DEF Restart, Idle
    <3>2. QED
      BY <3>1, NothingToKnow
  <2>2. CASE Quiescent
    BY <2>2 DEF Quiescent, vars, absent, SyncInv, SyncFitsNext, Held, Home
  <2>3. CASE ~(Restart \/ Quiescent)
    <3>1. PICK v \in User :
             \/ \E f \in File : SaveOrUpdate(v, f) \/ Remove(v, f)
             \/ \E b \in Branch : \/ CreateBranch(v, b) \/ DeleteBranch(v, b)
                                  \/ SetCurrentBranch(v, b) \/ Merge(v, b)
             \/ ExportCurrentBranch(v) \/ ImportCurrentBranch(v) \/ Login(v)
             \/ Step(v)
      BY <2>3 DEF Next
    <3>2. v = u
      BY DEF OneUserSyncs
    <3>3. CASE Step(u)
      <4>1. \/ OpenToWrite(u) \/ CommitFiles(u)
            \/ ReadObject(u) \/ WriteExport(u) \/ ImportFile(u) \/ ImportFails(u) \/ EndImport(u)
            \/ SyncCurrentBranch(u) \/ FindChanges(u)
            \/ CommitRemove(u) \/ TagAsSynced(u) \/ CreateSchema(u) \/ CopySchema(u) \/ SchemaFails(u)
            \/ PushDeletion(u) \/ DropSchema(u) \/ GfsMerge(u)
        BY <3>3 DEF Step
      <4>2. QED
        BY <4>1, SyncOfWrites, SyncOfCopies, SyncOfBranches
    <3>4. CASE ~Step(u)
      BY <3>1, <3>2, <3>4, SyncOfRequests
    <3>5. QED
      BY <3>3, <3>4
  <2>4. QED
    BY <2>1, <2>2, <2>3
<1>4. QED
  BY <1>1, <1>2, <1>3 DEF SyncInv, SyncFitsNext, Home

\* At the start the schema of master is what its files are.
LEMMA SyncStart ==
  ASSUME OneUserSyncs, Init
  PROVE  SyncInv
<1>1. PICK files \in {Empty, [f \in File |-> 1]} :
         /\ hist = <<[parents |-> {}, past |-> {1}, files |-> files]>>
         /\ db = [s \in Schema |-> IF s = SchemaOf[Master] THEN files ELSE NoSchema]
         /\ tag \in [Branch -> {0}] \cup {[b \in Branch |-> IF b = Master THEN 1 ELSE 0]}
  BY DEF Init
<1>2. files \in [File -> Nat] /\ files \notin {NoSchema, NoTables}
  BY GitflowConstants DEF Empty
<1>3. hist[1].files = files /\ Master \in Branch /\ Home \in Schema
  <2>1. PICK c : c = [parents |-> {}, past |-> {1}, files |-> files]
    OBVIOUS
  <2>2. hist = <<c>> /\ c.files = files
    BY <1>1, <2>1
  <2>3. hist[1] = c
    BY <2>2
  <2>4. QED
    BY <2>2, <2>3, GitflowConstants DEF Home
<1>4. db[Home] = files /\ head[Master] = 1 /\ FilesOf(hist, head[Master]) = files
  BY <1>1, <1>3 DEF Init, FilesOf, Home
<1>5. TagFresh(hist, tag[Master], head[Master], Held)
  BY <1>2, <1>4 DEF TagFresh, Fresh, Held
<1>6. \A u \in User : task[u].pc = "idle"
  BY DEF Init, Idle
<1>7. \A u \in User : SyncFits(task[u], session[u], head, db[Home], Held, FilesOf(hist, head[Master]))
  BY <1>6 DEF SyncFits
<1>8. HasTables(Home)
  BY <1>2, <1>4 DEF HasTables
<1>9. \A f \in File : removed[f] = 0
  BY DEF Init, Empty
<1>10. QED
  BY <1>5, <1>7, <1>8, <1>9 DEF SyncInv

\* When one user works at a time, every file can be imported and master has its schema for
\* itself: a row of master that is older than a file that the next sync of GitflowSvc leaves
\* out, or is not there, was removed by a user, or was truncated by an import that failed or
\* that a restart cut off, and no import has ended since.
THEOREM SyncedCorrect ==
  ASSUME OneUserSyncs
  PROVE  Spec => []SyncedUnlessEmptied
<1>1. Init => SyncInv
  BY SyncStart
<1>2. GitflowInv /\ LineageInv /\ ChangesAreFound /\ SyncInv /\ [Next]_vars => SyncInv'
  <2>1. CASE UNCHANGED vars
    BY <2>1 DEF vars, absent, SyncInv, TagFresh, SyncFits, Changed, Past, FilesOf, Fresh, HasTables, Held, Home
  <2>2. QED
    BY <2>1, SyncStep
<1>3. GitflowInv /\ SyncInv => SyncedUnlessEmptied
  <2> SUFFICES ASSUME GitflowInv, SyncInv, tag[Master] # 0,
                      NEW f \in LeftOut, f \in Behind
               PROVE  f \in emptied
    BY DEF SyncedUnlessEmptied
  <2>1. \A n : FilesAt(n) = FilesOf(hist, n) /\ Reachable(n) = Past(hist, n)
    BY DEF FilesAt, FilesOf, Reachable, Past
  <2>2. f \in File /\ f \notin Changed(hist, tag[Master], head[Master])
    BY <2>1 DEF LeftOut, ChangedFiles, Changed
  <2>3. PICK v : v = FilesAt(head[Master])[f]
    OBVIOUS
  <2>4. v \in Held[f]
    BY <2>1, <2>2, <2>3 DEF SyncInv, TagFresh, Fresh
  <2>5. db[Home][f] >= v \/ removed[f] >= v \/ f \in emptied
    BY <2>2, <2>4 DEF Held
  <2>6. db[Home][f] < v /\ removed[f] < v
    BY <2>3 DEF Behind, Home
  <2>7. v \in Nat /\ db[Home][f] \in Nat /\ removed[f] \in Nat
    BY <2>2, <2>4, HomeFacts DEF SyncInv, Held
  <2>8. QED
    BY <2>5, <2>6, <2>7
<1>4. QED
  BY <1>1, <1>2, <1>3, GitflowInvCorrect, LineageCorrect, ChangesCorrect, PTL DEF Spec
=============================================================================
