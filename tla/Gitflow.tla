------------------------------ MODULE Gitflow ------------------------------
(***************************************************************************)
(* Branches of the server (svc/GitflowSvc.java, controllers/               *)
(* SystemController.java, controllers/EntityController.java).              *)
(*                                                                         *)
(* A branch is a git branch and a database schema.  The objects of the     *)
(* branch are rows of the schema and, each, a file of the branch; an edit  *)
(* writes both, an export or an import copies all of one to the other, and *)
(* a merge of git branches is followed by an import of the files that were *)
(* changed.  The tag db-<branch> says up to which commit the schema is     *)
(* known to hold what the files hold.                                      *)
(*                                                                         *)
(* A user is a session, which does one request at a time.  Every action is *)
(* one transaction of the database or one update of a git ref.             *)
(***************************************************************************)
EXTENDS Integers, Sequences, FiniteSets

CONSTANTS User,
          Branch,
          Master,         \* the branch the repository's HEAD points to
          File,           \* an object, with its file
          Edits,          \* user -> the objects the user edits
          Generated,      \* the objects with generated sources
          Schema,
          SchemaOf,       \* branch -> its schema (getSchema)
          NoSchema,
          NoTables,       \* a schema as it is created
          Ops,            \* the requests the users make
          Requests,       \* the users that make requests other than edits
          PushMayFail,    \* may a push fail?
          SchemaMayFail,  \* may a statement on a schema fail?
          FileMayBeInvalid,
          MaxAttempts,    \* 10 in the code
          MaxRestarts,    \* bound: the restarts of the server
          MaxCalls        \* bound: the requests of the whole behaviour

ASSUME GitflowConstants ==
    /\ Master \in Branch
    /\ Edits \in [User -> SUBSET File]
    /\ Generated \subseteq File
    /\ SchemaOf \in [Branch -> Schema]
    /\ {NoSchema, NoTables} \cap [File -> Nat] = {} /\ NoSchema # NoTables
    /\ Requests \subseteq User
    /\ {PushMayFail, SchemaMayFail, FileMayBeInvalid} \subseteq BOOLEAN
    /\ MaxAttempts \in Nat \ {0}
    /\ MaxRestarts \in Nat /\ MaxCalls \in Nat

VARIABLES
    hist,     \* the git commits, in the order of their creation
    head,     \* refs/heads: branch -> its commit, 0 for no branch
    tag,      \* refs/tags/db-<branch>: branch -> a commit, 0 for no tag
    db,       \* schema -> the committed rows
    session,  \* user -> its current branch
    threads,  \* the branches the server's threads were left with
    task,     \* user -> its request
    calls,
    restarts,
    removed,  \* history: the version of the row of master that a user removed
    emptied   \* history: master's rows that a truncation took and nothing gave back

absent == <<removed, emptied>>

vars == <<hist, head, tag, db, session, threads, task, calls, restarts, absent>>

(* The content of an object is a number, 0 for no object.                  *)
Content == [File -> Nat]

Empty == [f \in File |-> 0]

Commit == [parents : SUBSET Nat, past : SUBSET Nat, files : Content]

Reachable(n) == IF n = 0 THEN {} ELSE hist[n].past

FilesAt(n) == IF n = 0 THEN Empty ELSE hist[n].files

(* base @@ temp, for the files of a commit.                                *)
Overlay(temp, base) == [f \in File |-> IF f \in DOMAIN temp THEN temp[f] ELSE base[f]]

Nothing == [f \in {} |-> 0]

Idle == [pc       |-> "idle",
         op       |-> "none",
         branch   |-> Master,  \* the branch to edit, create, delete or merge into
         from     |-> Master,  \* the branch to merge, or that was current
         temp     |-> Nothing, \* the content to write to files
         todo     |-> {},      \* the objects still to export or to import
         truncate |-> FALSE,
         base     |-> 0,       \* the commit of the snapshot
         attempt  |-> 1,
         result   |-> "none"]

Init ==
    /\ \E files \in {Empty, [f \in File |-> 1]} :
          /\ hist = <<[parents |-> {}, past |-> {1}, files |-> files]>>
          /\ db = [s \in Schema |-> IF s = SchemaOf[Master] THEN files ELSE NoSchema]
          /\ tag \in [Branch -> {0}] \cup {[b \in Branch |-> IF b = Master THEN 1 ELSE 0]}
    /\ head = [b \in Branch |-> IF b = Master THEN 1 ELSE 0]
    /\ session = [u \in User |-> Master]
    /\ threads = {Master}
    /\ task = [u \in User |-> Idle]
    /\ calls = 0
    /\ restarts = 0
    /\ removed = Empty /\ emptied = {}

-----------------------------------------------------------------------------
(* The schema the connections of a user are set to.                        *)
Current(u) == SchemaOf[session[u]]

HasTables(s) == db[s] \notin {NoSchema, NoTables}

InMaster(u) == Current(u) = SchemaOf[Master]

Exists(b) == head[b] # 0

(* setCurrentBranch: master instead of a branch that does not exist.  The  *)
(* branch stays with the thread as well.                                   *)
OrMaster(b) == IF Exists(b) THEN b ELSE Master

SetSession(u, b) ==
    /\ session' = [session EXCEPT ![u] = b]
    /\ threads' = threads \cup {b}

At(u, pc) == task[u].pc = pc

Begin(u, op) ==
    /\ At(u, "idle")
    /\ op \in Ops
    /\ calls < MaxCalls
    /\ calls' = calls + 1

GoTo(u, pc) == task' = [task EXCEPT ![u].pc = pc]

End(u, result) == task' = [task EXCEPT ![u].pc = "idle", ![u].result = result]

-----------------------------------------------------------------------------
(***************************************************************************)
(* Git transactions that write (inGitTransaction with a message): a        *)
(* snapshot of the current branch, the new content of some files, and a    *)
(* commit that moves the branch forward from the snapshot or is tried      *)
(* again.  A branch that is gone is made again by the commit.              *)
(***************************************************************************)
AnyMove(b, n) == TRUE                                           \* mutant

CanMove(b, past) == head[b] = 0 \/ head[b] \in past

NextAfterCommit(op) ==
    CASE op = "save" -> "idle" [] op = "delete" -> "remove" [] op = "export" -> "tag"

(* The request fails; only a delete has a row still to remove.             *)
Fail(u) == IF task[u].op = "delete"
           THEN task' = [task EXCEPT ![u].pc = "remove", ![u].result = "failed"]
           ELSE End(u, "failed")

OpenToWrite(u) ==
    /\ At(u, "open")
    /\ IF Exists(session[u])
       THEN task' = [task EXCEPT ![u].pc = "commit", ![u].base = head[session[u]]]
       ELSE Fail(u)
    /\ UNCHANGED <<hist, head, tag, db, session, threads, calls, restarts, absent>>

RetriesOnceMore(u) == task[u].attempt <= MaxAttempts             \* mutant

MayRetry(u) == task[u].attempt < MaxAttempts

Commits(b, parents, files) ==
    /\ hist' = Append(hist, [parents |-> parents,
                             past |-> (UNION {Reachable(p) : p \in parents}) \cup {Len(hist) + 1},
                             files |-> files])
    /\ head' = [head EXCEPT ![b] = Len(hist) + 1]

CommitFiles(u) ==
    LET t == task[u]
        files == Overlay(t.temp, FilesAt(t.base))
        Done == task' = [task EXCEPT ![u].pc = NextAfterCommit(t.op), ![u].result = "returned"]
    IN  /\ At(u, "commit")
        /\ \/ /\ files = FilesAt(t.base)
              /\ Done
              /\ UNCHANGED <<hist, head>>
           \/ /\ files # FilesAt(t.base)
              /\ CanMove(session[u], Reachable(t.base))
              /\ Commits(session[u], {t.base}, files)
              /\ Done
           \/ /\ files # FilesAt(t.base)
              /\ ~CanMove(session[u], Reachable(t.base))
              /\ IF MayRetry(u)
                 THEN task' = [task EXCEPT ![u].pc = "open", ![u].attempt = @ + 1]
                 ELSE Fail(u)
              /\ UNCHANGED <<hist, head>>
        /\ UNCHANGED <<tag, db, session, threads, calls, restarts, absent>>

-----------------------------------------------------------------------------
(***************************************************************************)
(* Edits.  The save of an object is committed to the database before the   *)
(* export of its file begins.  The delete of an object is written to git   *)
(* first, if the object has sources, and committed to the database even    *)
(* when git has failed.                                                    *)
(***************************************************************************)
(* History: the objects of F have rows again, of those lost before.        *)
GivenBack(u, F, lost) ==
    /\ removed' = [f \in File |-> IF InMaster(u) /\ f \in F THEN 0 ELSE removed[f]]
    /\ emptied' = IF InMaster(u) THEN lost \ F ELSE emptied

SaveOrUpdate(u, f) ==
    /\ Begin(u, "save")
    /\ f \in Edits[u]
    /\ HasTables(Current(u))
    /\ db' = [db EXCEPT ![Current(u)][f] = calls + 2]
    /\ task' = [task EXCEPT ![u] = [Idle EXCEPT !.pc = "open", !.op = "save",
                                                !.branch = session[u],
                                                !.temp = [g \in {f} |-> calls + 2]]]
    /\ GivenBack(u, {f}, emptied)
    /\ UNCHANGED <<hist, head, tag, session, threads, restarts>>

Remove(u, f) ==
    /\ Begin(u, "delete")
    /\ f \in Edits[u]
    /\ HasTables(Current(u))
    /\ db[Current(u)][f] # 0
    /\ task' = [task EXCEPT ![u] = [Idle EXCEPT !.pc = "open", !.op = "delete",
                                                !.branch = session[u], !.todo = {f},
                                                !.temp = [g \in {f} \cap Generated |-> 0]]]
    /\ UNCHANGED <<hist, head, tag, db, session, threads, restarts, absent>>

CommitRemove(u) ==
    /\ At(u, "remove")
    /\ IF HasTables(Current(u))
       THEN /\ db' = [db EXCEPT ![Current(u)] =
                        [f \in File |-> IF f \in task[u].todo THEN 0 ELSE @[f]]]
            /\ removed' = [f \in File |->
                              IF InMaster(u) /\ f \in task[u].todo /\ db[Current(u)][f] # 0
                              THEN db[Current(u)][f] ELSE removed[f]]
            /\ GoTo(u, "idle")
       ELSE End(u, "failed") /\ UNCHANGED <<db, removed>>
    /\ UNCHANGED <<hist, head, tag, session, threads, calls, restarts, emptied>>

-----------------------------------------------------------------------------
(***************************************************************************)
(* exportCurrentBranch: the objects are read one by one, and replace all   *)
(* that the branch holds.  The tag goes to the HEAD of the repository.     *)
(***************************************************************************)
ExportCurrentBranch(u) ==
    /\ u \in Requests
    /\ Begin(u, "export")
    /\ HasTables(Current(u))
    /\ task' = [task EXCEPT ![u] = [Idle EXCEPT !.pc = "read", !.op = "export",
                                                !.branch = session[u],
                                                !.todo = File, !.temp = Empty]]
    /\ UNCHANGED <<hist, head, tag, db, session, threads, restarts, absent>>

ReadObject(u) ==
    /\ At(u, "read")
    /\ task[u].todo # {}
    /\ IF HasTables(Current(u))
       THEN \E f \in task[u].todo :
               task' = [task EXCEPT ![u].todo = @ \ {f}, ![u].temp[f] = db[Current(u)][f]]
       ELSE End(u, "failed")
    /\ UNCHANGED <<hist, head, tag, db, session, threads, calls, restarts, absent>>

WriteExport(u) ==
    /\ At(u, "read")
    /\ task[u].todo = {}
    /\ GoTo(u, "open")
    /\ UNCHANGED <<hist, head, tag, db, session, threads, calls, restarts, absent>>

HeadOfBranch(u) == head[session[u]]                             \* mutant

HeadOfRepository(u) == head[Master]

TagAsSynced(u) ==
    /\ At(u, "tag")
    /\ tag' = [tag EXCEPT ![session[u]] = HeadOfRepository(u)]
    /\ End(u, "returned")
    /\ UNCHANGED <<hist, head, db, session, threads, calls, restarts, absent>>

-----------------------------------------------------------------------------
(***************************************************************************)
(* importCurrentBranch: the files of a snapshot, one transaction each, the *)
(* truncation of the schema in the first of them.  A file that is invalid  *)
(* as an object is rolled back, with a truncation before it, and the next  *)
(* file follows.  A file that cannot be read, a transaction that fails or  *)
(* a reference to no object ends the import without a tag; a truncation    *)
(* that waits for its commit is committed then, or rolled back with it.    *)
(* The snapshot of a branch that is gone has no files.                     *)
(***************************************************************************)
ImportCurrentBranch(u) ==
    /\ u \in Requests
    /\ Begin(u, "import")
    /\ \E truncate \in BOOLEAN :
          /\ truncate => HasTables(Current(u))
          /\ LET n == head[session[u]]
             IN  task' = [task EXCEPT ![u] =
                            [Idle EXCEPT !.pc = "import", !.op = "import", !.truncate = truncate,
                                         !.base = n, !.todo = {f \in File : FilesAt(n)[f] # 0}]]
    /\ UNCHANGED <<hist, head, tag, db, session, threads, restarts, absent>>

Rows(u) == IF task[u].truncate THEN Empty ELSE db[Current(u)]

Lost(u) == IF task[u].truncate THEN File ELSE emptied

ImportFile(u) ==
    /\ At(u, "import")
    /\ \E f \in task[u].todo :
          \/ /\ HasTables(Current(u))
             /\ db' = [db EXCEPT ![Current(u)] =
                         [Rows(u) EXCEPT ![f] = FilesAt(task[u].base)[f]]]
             /\ GivenBack(u, {f}, Lost(u))
             /\ task' = [task EXCEPT ![u].todo = @ \ {f}, ![u].truncate = FALSE]
          \/ /\ FileMayBeInvalid \/ ~HasTables(Current(u))
             /\ task' = [task EXCEPT ![u].todo = @ \ {f}, ![u].truncate = FALSE]
             /\ UNCHANGED <<db, absent>>
    /\ UNCHANGED <<hist, head, tag, session, threads, calls, restarts>>

ImportFails(u) ==
    /\ At(u, "import")
    /\ \/ /\ task[u].truncate /\ HasTables(Current(u))
          /\ db' = [db EXCEPT ![Current(u)] = Empty]
          /\ GivenBack(u, {}, File)
       \/ UNCHANGED <<db, absent>>
    /\ End(u, "failed")
    /\ UNCHANGED <<hist, head, tag, session, threads, calls, restarts>>

(* An import that ends has given back what there is to give.               *)
EndImport(u) ==
    /\ At(u, "import")
    /\ task[u].todo = {}
    /\ db' = IF task[u].truncate /\ HasTables(Current(u))
             THEN [db EXCEPT ![Current(u)] = Empty] ELSE db
    /\ GivenBack(u, {}, IF task[u].op = "import" THEN {} ELSE Lost(u))
    /\ GoTo(u, "tag")
    /\ UNCHANGED <<hist, head, tag, session, threads, calls, restarts>>

-----------------------------------------------------------------------------
(***************************************************************************)
(* createBranch: the ref, an empty schema in the place of any that has its *)
(* name, the copy of the current one, and the switch to the new branch.    *)
(***************************************************************************)
CreateBranch(u, b) ==
    /\ u \in Requests
    /\ Begin(u, "create")
    /\ ~Exists(b)
    /\ Exists(session[u])
    /\ head' = [head EXCEPT ![b] = head[session[u]]]
    /\ task' = [task EXCEPT ![u] = [Idle EXCEPT !.pc = "schema", !.op = "create", !.branch = b,
                                                !.from = session[u]]]
    /\ UNCHANGED <<hist, tag, db, session, threads, restarts, absent>>

CreateSchema(u) ==
    /\ At(u, "schema")
    /\ db' = [db EXCEPT ![SchemaOf[task[u].branch]] = NoTables]
    /\ GoTo(u, "copy")
    /\ UNCHANGED <<hist, head, tag, session, threads, calls, restarts, absent>>

CopySchema(u) ==
    LET to == SchemaOf[task[u].branch]
        template == SchemaOf[task[u].from]
    IN  /\ At(u, "copy")
        /\ db[to] # NoSchema
        /\ db' = [db EXCEPT ![to] = IF HasTables(template) THEN db[template] ELSE Empty]
        /\ SetSession(u, OrMaster(task[u].branch))
        /\ GoTo(u, "tag")
        /\ UNCHANGED <<hist, head, tag, calls, restarts, absent>>

SchemaFails(u) ==
    /\ \/ At(u, "schema") /\ SchemaMayFail
       \/ At(u, "copy") /\ (SchemaMayFail \/ db[SchemaOf[task[u].branch]] = NoSchema)
    /\ End(u, "failed")
    /\ UNCHANGED <<hist, head, tag, db, session, threads, calls, restarts, absent>>

-----------------------------------------------------------------------------
(***************************************************************************)
(* deleteBranch: the ref, the ref of the remote, the schema, and a session *)
(* on a branch that exists.                                                *)
(***************************************************************************)
DeleteBranch(u, b) ==
    /\ u \in Requests
    /\ Begin(u, "drop")
    /\ Exists(b)
    /\ b # Master
    /\ head' = [head EXCEPT ![b] = 0]
    /\ task' = [task EXCEPT ![u] = [Idle EXCEPT !.pc = "unpush", !.op = "drop", !.branch = b,
                                                !.from = session[u]]]
    /\ UNCHANGED <<hist, tag, db, session, threads, restarts, absent>>

PushDeletion(u) ==
    /\ At(u, "unpush")
    /\ \/ GoTo(u, "drop")
       \/ PushMayFail /\ End(u, "failed")
    /\ UNCHANGED <<hist, head, tag, db, session, threads, calls, restarts, absent>>

DropSchema(u) ==
    /\ At(u, "drop")
    /\ db' = [db EXCEPT ![SchemaOf[task[u].branch]] = NoSchema]
    /\ SetSession(u, IF task[u].from = task[u].branch THEN Master ELSE OrMaster(task[u].from))
    /\ End(u, "returned")
    /\ UNCHANGED <<hist, head, tag, calls, restarts, absent>>

SetCurrentBranch(u, b) ==
    /\ Begin(u, "switch")
    /\ SetSession(u, OrMaster(b))
    /\ UNCHANGED <<hist, head, tag, db, task, restarts, absent>>

(* getCurrentBranch in a new session: the branch the thread was left with. *)
Login(u) ==
    /\ Begin(u, "login")
    /\ \E b \in threads : SetSession(u, b)
    /\ UNCHANGED <<hist, head, tag, db, task, restarts, absent>>

-----------------------------------------------------------------------------
(***************************************************************************)
(* merge: the session goes to the target; GfsMerge moves the target to the *)
(* source, or to a commit of both, without a second attempt; then the sync *)
(* imports the files of the target that have changed on HEAD since the tag *)
(* of the target.                                                          *)
(***************************************************************************)
Merge(u, to) ==
    /\ u \in Requests
    /\ Begin(u, "merge")
    /\ SetSession(u, OrMaster(to))
    /\ task' = [task EXCEPT ![u] = [Idle EXCEPT !.op = "merge", !.branch = to,
                                                !.from = session[u], !.base = head[to],
                                                !.pc = IF Exists(to) THEN "merge" ELSE "idle"]]
    /\ UNCHANGED <<hist, head, tag, db, restarts, absent>>

(* The best common ancestors of two commits.                               *)
MergeBases(m, n) ==
    LET common == Reachable(m) \cap Reachable(n)
    IN  {c \in common : \A d \in common : c \in Reachable(d) => d = c}

Conflicts(f, base, ours, theirs) ==
    /\ FilesAt(ours)[f] # FilesAt(theirs)[f]
    /\ FilesAt(ours)[f] # FilesAt(base)[f]
    /\ FilesAt(theirs)[f] # FilesAt(base)[f]

Merged(base, ours, theirs) ==
    [f \in File |-> IF FilesAt(ours)[f] = FilesAt(base)[f]
                    THEN FilesAt(theirs)[f] ELSE FilesAt(ours)[f]]

GfsMerge(u) ==
    LET to == task[u].branch
        ours == task[u].base
        theirs == head[task[u].from]
        upToDate == theirs \in Reachable(ours)
        canMove == CanMove(to, Reachable(ours) \cup Reachable(theirs))
    IN  /\ At(u, "merge")
        /\ \/ /\ Exists(to) /\ theirs # 0 /\ upToDate
              /\ GoTo(u, "sync")
              /\ UNCHANGED <<hist, head>>
           \/ /\ Exists(to) /\ theirs # 0 /\ ~upToDate /\ canMove
              /\ ours \in Reachable(theirs)
              /\ head' = [head EXCEPT ![to] = theirs]
              /\ GoTo(u, "sync")
              /\ UNCHANGED hist
           \/ /\ Exists(to) /\ theirs # 0 /\ ~upToDate /\ canMove
              /\ ours \notin Reachable(theirs)
              /\ \E base \in MergeBases(ours, theirs) :
                    /\ \A f \in File : ~Conflicts(f, base, ours, theirs)
                    /\ Commits(to, {ours, theirs}, Merged(base, ours, theirs))
              /\ GoTo(u, "sync")
           \/ /\ \/ ~Exists(to) \/ theirs = 0
                 \/ ~upToDate /\ ~canMove
                 \/ \E base \in MergeBases(ours, theirs), f \in File :
                       Conflicts(f, base, ours, theirs)
              /\ End(u, "failed")
              /\ UNCHANGED <<hist, head>>
        /\ UNCHANGED <<tag, db, session, threads, calls, restarts, absent>>

(* changedFiles: what a commit changed or added against one of its         *)
(* parents, for the commits between two revisions.                         *)
NoneChanged(from, to) == {}                                     \* mutant

ChangedFiles(from, to) ==
    {f \in File : \E n \in Reachable(to) \ Reachable(from) : \E p \in hist[n].parents :
        hist[n].files[f] # 0 /\ hist[n].files[f] # hist[p].files[f]}

(* A branch that is gone by now has no files, and the tag is set before    *)
(* the commit of the sync, which would fail then and else has no change.   *)
SyncCurrentBranch(u) ==
    /\ At(u, "sync")
    /\ task' = [task EXCEPT ![u].pc = "compare", ![u].base = head[session[u]]]
    /\ UNCHANGED <<hist, head, tag, db, session, threads, calls, restarts, absent>>

(* Without a tag the sync fails.                                           *)
FindChanges(u) ==
    LET from == tag[session[u]]
    IN  /\ At(u, "compare")
        /\ IF from = 0
           THEN End(u, "failed")
           ELSE task' = [task EXCEPT
                           ![u].pc = "import",
                           ![u].todo = {f \in ChangedFiles(from, head[Master]) :
                                            FilesAt(task[u].base)[f] # 0}]
        /\ UNCHANGED <<hist, head, tag, db, session, threads, calls, restarts, absent>>

-----------------------------------------------------------------------------
(* The server restarts: the requests and the sessions are gone, the        *)
(* schemas of the branches get their tables.                               *)
Restart ==
    /\ restarts < MaxRestarts
    /\ restarts' = restarts + 1
    /\ db' = [s \in Schema |->
                 IF db[s] = NoTables /\ \E b \in Branch \ {Master} : Exists(b) /\ SchemaOf[b] = s
                 THEN Empty ELSE db[s]]
    /\ session' = [u \in User |-> Master]
    /\ threads' = {Master}
    /\ task' = [u \in User |-> Idle]
    /\ UNCHANGED <<hist, head, tag, calls, absent>>

Step(u) ==
    \/ OpenToWrite(u) \/ CommitFiles(u) \/ CommitRemove(u)
    \/ ReadObject(u) \/ WriteExport(u) \/ TagAsSynced(u)
    \/ ImportFile(u) \/ ImportFails(u) \/ EndImport(u)
    \/ CreateSchema(u) \/ CopySchema(u) \/ SchemaFails(u)
    \/ PushDeletion(u) \/ DropSchema(u)
    \/ GfsMerge(u) \/ SyncCurrentBranch(u) \/ FindChanges(u)

Quiescent ==
    /\ calls = MaxCalls
    /\ \A u \in User : At(u, "idle")
    /\ UNCHANGED vars

Next ==
    \/ \E u \in User :
          \/ \E f \in File : SaveOrUpdate(u, f) \/ Remove(u, f)
          \/ \E b \in Branch : \/ CreateBranch(u, b) \/ DeleteBranch(u, b)
                               \/ SetCurrentBranch(u, b) \/ Merge(u, b)
          \/ ExportCurrentBranch(u) \/ ImportCurrentBranch(u) \/ Login(u)
          \/ Step(u)
    \/ Restart
    \/ Quiescent

Spec == Init /\ [][Next]_vars
-----------------------------------------------------------------------------
Task(F) ==
        [pc : {"idle", "open", "commit", "remove", "read", "tag", "import", "schema", "copy",
               "unpush", "drop", "merge", "sync", "compare"},
         op : {"none", "save", "delete", "export", "import", "create", "drop", "merge"},
         branch : Branch, from : Branch,
         temp : [F -> Nat],
         todo : SUBSET File, truncate : BOOLEAN,
         base : Nat, attempt : 1 .. MaxAttempts,
         result : {"none", "returned", "failed"}]

TypeOK ==
    /\ hist \in Seq(Commit)
    /\ head \in [Branch -> 0 .. Len(hist)]
    /\ tag \in [Branch -> 0 .. Len(hist)]
    /\ db \in [Schema -> Content \cup {NoSchema, NoTables}]
    /\ session \in [User -> Branch]
    /\ threads \subseteq Branch
    /\ DOMAIN task = User
    /\ \A u \in User : \E F \in SUBSET File : task[u] \in Task(F)
    /\ calls \in 0 .. MaxCalls
    /\ restarts \in 0 .. MaxRestarts
    /\ removed \in Content /\ emptied \subseteq File

Returned(u, ops) == At(u, "idle") /\ task[u].op \in ops /\ task[u].result = "returned"

(* The delete of a user is where the object went: it is in every commit    *)
(* but the one that the delete made and those that came after that one.    *)
DeletedOnce(u, f) ==
    \E e \in DOMAIN hist :
        /\ hist[e].parents = {task[u].base}
        /\ \A n \in DOMAIN hist : hist[n].files[f] = 0 => e \in Reachable(n)

(***************************************************************************)
(* An edit that has returned is in its branch, and stays there while       *)
(* others edit other objects and merge branches: the commit or merge of    *)
(* another user that was prepared before it does not undo it.  A merge may *)
(* bring a deleted object back only when another commit lacked it as well, *)
(* before the delete or beside it: then a branch can have added it.        *)
(***************************************************************************)
EditsStayInGit ==
    \A u \in User : Returned(u, {"save", "delete"}) =>
        \A f \in DOMAIN task[u].temp :
            task[u].temp[f] # 0 \/ DeletedOnce(u, f) =>
                FilesAt(head[task[u].branch])[f] = task[u].temp[f]

(* The files of master that the next sync leaves out.                      *)
LeftOut == File \ ChangedFiles(tag[Master], head[Master])

(* The rows of master that are older than their file, or not there though  *)
(* no user has removed that version or a newer one.                        *)
Behind == {f \in File : LET n == FilesAt(head[Master])[f]
                        IN  db[SchemaOf[Master]][f] < n /\ removed[f] < n}

(***************************************************************************)
(* The database of master is not behind a file that the sync leaves out:   *)
(* what is in git and not older than the tag was imported or comes from    *)
(* the database, and is missing only if a user has removed it.             *)
(***************************************************************************)
SyncedFilesAreInDb ==
    tag[Master] # 0 /\ HasTables(SchemaOf[Master]) => LeftOut \cap Behind = {}

(***************************************************************************)
(* The same, but for the rows that an import has truncated and, because it *)
(* failed or the server stopped, has not given back: those the sync leaves *)
(* out as well, until an import ends or the object is edited.              *)
(***************************************************************************)
SyncedUnlessEmptied ==
    tag[Master] # 0 /\ HasTables(SchemaOf[Master]) => LeftOut \cap Behind \subseteq emptied

(***************************************************************************)
(* A branch moves forward until it is deleted: merges and commits keep     *)
(* what was committed on it.                                               *)
(***************************************************************************)
HeadsMoveForward ==
    [][\A b \in Branch : \A n \in {head[b]} :
          n # 0 => (head[b] # 0 => n \in Reachable(head[b]))']_vars

(***************************************************************************)
(* The tag of a branch moves forward, even when the branch is deleted and  *)
(* made again: no file is imported a second time over a later edit.        *)
(***************************************************************************)
TagsMoveForward ==
    [][\A b \in Branch : \A n \in {tag[b]} : n # 0 => (n \in Reachable(tag[b]))']_vars
=============================================================================
