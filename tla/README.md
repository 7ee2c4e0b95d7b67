# A TLA+ model of Datagram

Datagram is a program for designing, generating and running data transformations. Its objects
(transformations, workflows, servers, notebooks, scheduled tasks) are EMF objects that the server
(`src/mserver`) keeps in a relational database and in a git repository; users edit them over REST with a
browser client (`src/ddesigner`); remote services run what is made of them. This directory holds TLA+
modules for the parts of the server and of the client where order and concurrency decide what is right,
the TLC configurations that check them, and proofs.

Contents: [parts](#1-the-parts-of-the-system), [plan](#2-the-plan),
[emfgit](#3-emfgit-the-git-object-store), [Gitflow](#4-gitflow-branches-of-git-and-of-the-database),
[services](#5-the-services-jobs-and-scheduled-tasks), [client](#6-the-client),
[proofs](#7-what-is-proved), [only checked](#8-what-is-only-model-checked),
[not modelled](#9-what-is-not-modelled), [how to run](#10-running-the-checks).

Paths of the server are relative to `src/mserver/src/main/java/ru/neoflex/meta/`, those of the client to
`src/ddesigner/src/`, unless they begin with `src/` or `parallelgit/`
(`src/mserver/src/main/java/com/beijunyi/parallelgit/`).

## 1. The parts of the system

The server:

| part | state | operations | hard behaviour | what makes it correct | module |
|---|---|---|---|---|---|
| **emfgit** (`emfgit/*`): a transactional store of EMF objects in a git repository | git commits and refs; a reentrant read-write lock; per transaction a snapshot of a branch and the changes to it; two index directories beside the objects | `inTransaction` with a READ, WRITE or EXCLUSIVE lock; create, update, delete of objects; `reindex`; `createBranch` | several threads, optimistic commits with up to 100 retries, stale revisions, snapshots that fail to open, index maintenance in event handlers | calls are atomic; no update is lost; no reference dangles; the indexes are exact; branches move forward; exclusive transactions are alone; calls return | `EmfTree`, `EmfTransactions`, `EmfStore`, `EmfRefinement` |
| **parallelgit** (`parallelgit/`): a file system over a git tree | one snapshot per file system | commit, merge, creation and deletion of branches by ref updates | compare-and-set of refs under lock files, races of commits and merges | as above | in `EmfTransactions` and `Gitflow` |
| **Gitflow service** (`svc/GitflowSvc.java`) with `controllers/EntityController.java` and `controllers/SystemController.java`: a branch is a git branch, a database schema and a tag | commits, heads, tags `db-<branch>`, schemas with their rows, sessions' current branches, thread-local branches | save, delete, export, import, create, delete, switch and merge branches, sync, start | a request makes several transactions of two stores, without a common one; other users' requests come between; pushes and DDL fail; retries | no committed edit is undone; what the sync leaves out is in the database; heads and tags move forward | `Gitflow` |
| **request context** (`utils/Context.java`, `svc/ContextSvc.java`) | per thread a database session and a git file system | commit and rollback at the end of a request | commits in a `finally` | order of git and database | in `Gitflow` |
| **import and export of objects** (`utils/ECoreUtils.java`) | none | object to files and back, merge of an object into the database | invalid files are skipped | round trip | in `Gitflow`, abstracted |
| **Livy job handler** (`src/livyjobserver/.../job/LivyJobHandler.java`, `pool/*`) with `controllers/LivyController.java` | a pool of at most 8 clients, three unsynchronised maps, listeners | submit, submit without waiting, status | the end of a job races with the listener and with polls; failures leave clients lent; the pool blocks | clients come back, are used by one request at a time, requests are served | `LivyJobs` |
| **scheduling** (`svc/SchedulingSvc.java`) | rows of tasks; futures of a Spring scheduler; a map of them | refresh, runs, retries, start | rows are read and written as a whole while users, refreshes and runs change them; a refresh fails half way | every live future is known and single; a refresh leaves exactly the enabled tasks | `Scheduling` |
| emfgit `Exporter`, `Finder` | none | object trees to zip files and back, queries over the indexes | two passes of an import | | not modelled yet |
| `model/Database.java`, `svc/TeneoSvc.java`, `svc/DbAdapter.java`, `svc/PersistentEventsListener.java` | Hibernate's | queries and updates of rows, listeners | | | only the schema of a session, in `Gitflow` |
| `runtime/TaskList.java` | none | ordering of tasks under their parents | | | not modelled yet |
| scripts, templates, builds, version control (`svc/*`), Groovy services (`src/mserver/src/main/groovy/MetaServer`), JMS, web sockets, licence, security | little or none | remote calls and I/O | | | not modelled |
| Spark libraries (`src/spark2lib`, `src/runtime`), models and generators (`src/pim`, `src/MetaServer`, `src/emfatic2ecore`) | | | | | not modelled |

The client. Its views are React components whose handlers run one at a time; what is concurrent are the
answers of the server, timers, and the user.

| part | state | hard behaviour | what makes it correct | module |
|---|---|---|---|---|
| **requests and sessions** (`Resource.js`, `components/App.js`, `components/Login.js`, `components/BranchesInfo.js`) | the user, requests under way, requests put off by a 401, the count of processes, the branch shown | a session expires between any two requests; what was put off is sent again after a login; switches of the branch cross | no request is forgotten or executed twice; the count is exact; the branch shown is that of the session | `UiSession` |
| **log socket** (`Resource.js`, `components/Logs.js`) | STOMP clients, timers that reconnect, the log and the panel | a new client replaces one that still connects; the server goes away; the panel draws later | a page that wants its log gets it | `UiStomp` |
| **page of an object** (`components/views/ViewContainer.js`, `App.js`, `utils/encode.js`) | the object, the one that was loaded, the path, requests under way | one view serves one object after another, and an answer is applied to the one it has then | unsaved work is asked about before it is left | `UiEntity` |
| **workspaces** (`dataspace/WorkspaceView.js`, `WorkspaceGridView.js`, `ImportDatasetView.js`, `datasetMethods.js`) | the list of data sets shown, lists, changes, deletions and imports under way | answers cross, views are left while they wait | the map shows what the server has | `UiWorkspace` |
| **diagram** (`designer/DesignerView.js`, `TransformationDesignerView.js`, `step.js`) | the entity and a graph with a cell per object of it | the entity is replaced by saves and loads behind the graph; timers rebuild it | the graph shows the entity; a deletion takes nothing else | `UiDesigner` |
| **ports** (`utils/transformationPorts.js`) | the fields of each port | a change is propagated along the transitions, to steps that come earlier in the lists | both ends of a transition have the same fields; sources are fields of the input | `UiPorts` |
| **editors of a step** (`ProjectionEditor.js`, `AggregationEditor.js`) | output fields or expressions, one code editor, checks on the server | what is typed is handed over half a second later | a text becomes the expression it was typed for | `UiProjection`, `UiAggregation` |
| **notebook** (`dataspace/notebook/NotebookView.js`, `Paragraph.js`, `CodeEditor.js`, `LinkParagraphView.js`) | the list of paragraphs, requests with the list they captured, runs in the server's queue | every answer writes the whole list | paragraphs stay distinct; the end of a run is shown | `UiNotebook` |
| **Oozie and Livy pages** (`views/OozieView.js`, `LivyView.js`) | rows, details by row | details arrive for lists that were replaced | a row shows its own | `UiTasks`, `UiLivy` |
| **event rules** (`EventsProcessorView.js`, `EventsProcessorComponents.js`) | rules, their conditions and actions, fields, dialogs | things are found by name, number or position, some half a second later | an edit reaches what the user pointed at | `UiEvents` |
| **structure of a data set** (`structure/*.js`) | a tree of columns | rows are found by a name that is made from counters | no other column changes | `UiStructure` |
| **forms** (`FieldList.js`, `Debounced.js`) | texts under way, open rows | a delayed text lands in the list its field was last given | what was typed arrives | `UiFields` |
| **deployment and run** (`views/Run.js`) | one table with the parameters of all deployments | rows are found by keys that are made from counts | an edit changes the row it was made in | `UiDeployment` |
| **references of an object** (`utils/meta.js`) | an object with references between its parts | parts get ids in the first of two requests of a save | each reference follows its part | `UiReferences` |
| wizards, other pages, query builders, grids | | | | not modelled |

How they interact. A REST request runs in `ContextSvc.inContext`, on a thread whose current branch
chooses the database schema. A save changes the row and then asks the Gitflow service to write the
object's file in a git transaction, over parallelgit. A merge of branches moves git refs and then
imports the changed files into the database. Scheduled tasks are rows like others: the scheduler
reads them, runs a Groovy method of their entity on a thread of its own, and writes them back. Jobs go
to a Livy server through the job handler, which the controller and the stand-alone
`src/jobserver-runner` share. emfgit is a second store of the same design as the Gitflow service's git
side, offered as an API over the same parallelgit commit and branch utilities.
In the client, every view sends its requests through `Resource.js`, which puts them off while a login is
needed; a view of an object gives its editors the object and takes back a changed one.

The hazards of this code, each at its line and with the properties that watch it, are in
`PROJECT.json` under `hazards`.

## 2. The plan

Done, in this order:

1. `EmfTree`: the tree of a commit and the effect of one operation, as pure operators.
2. `EmfTransactions`: threads, locks, snapshots, ref updates, retries. It composes with `EmfTree`.
3. `EmfStore`, `EmfRefinement`: the abstract store of atomic calls, and the mapping to it.
4. `Gitflow`: branches, schemas, tags and sessions.
5. `LivyJobs` and `Scheduling`, joined by `Services`.
6. The client: `UiSession`, `UiStomp`, `UiEntity`, `UiWorkspace`, joined by `UiServer`; the pages and their
   algorithms, joined by `UiPages`, and some of them by `UiTexts` and `UiAnswers`; `UiNotebook` and
   `UiDesigner`, joined by `UiEditors`.
7. The theorems of section 7.

Next, the most important first:

1. Nested contexts and savepoints (`utils/Context.java`) as a module of their own that `Gitflow` refers
   to for its order of commits.
2. Two users who save one object (row locks of the database), push and pull, in `Gitflow`.
3. The registry of job handlers in `LivyJobs`.
4. Pure algorithms: `getSchema` and its collisions, `TaskList`, `Exporter`'s two passes, the merge of an
   object into the database.

## 3. emfgit: the git object store

### Modules

`EmfTree` is the content of `db/` in a commit. A tree has three parts, which are the three directories
of `emfgit/Database.java`: `ent` (`db/ids`), `names` (`db/idx/type_name`) and `refs` (`db/idx/ref`).
The operators are the code's handlers in the order in which a save or a delete calls them:
`QNameIsUnique` (`checkUniqueQName`), `RevisionMatches` (`Transaction.update`), `CanUpdateIndexes` and
`NamesAfterSave`/`RefsAfterSave` (`updateResourceIndexes`), `IsReferenced` (`checkDependencies`),
`Deleted` (`deleteResourceIndexes`), `Reindexed` (`reindex`). The revision of an object is the hash of
its file, so the model names a revision by the content.

`EmfTransactions` has a thread (`Worker`) step through `Database.inTransaction`:

| action | code |
|---|---|
| `Call`, `Lock`, `Open`, `OpenThrows` | `inTransaction`, the constructor of `Transaction`: lock, then snapshot |
| `CreateObject`, `UpdateObject`, `DeleteObject`, `Reindex` | what the client's function does; a refused operation is an exception (`Throw`) |
| `Return`, `Throw` | the function returns without a commit, or throws |
| `CommitTree`, `Resolve`, `LockRef`, `UpdateRef` | `GfsCommit`, `BranchUtils.setBranchHead`, JGit's `RefUpdate`: read the head, take `<ref>.lock`, compare, check for fast-forward, write |
| `Close` | `Transaction.close`, and the decision of `inTransaction` to return, throw or run again |
| `CallCreateBranch`, `CheckBranch` | `BranchUtils.createBranch`, which uses no lock of the database |

`EmfStore` is the abstract store: branches with a tree each, calls that do all their operations at one
moment, or none. `EmfRefinement` maps the detailed state to it: the store is the tree of each head, a
call is what a thread is in. `CallsAreAtomic` is the abstract specification under that mapping.

### Assumptions

The references of a saved object are found in the transaction that saves it; the client's function does
not catch the exception of a refused operation and commits once, at its end; random ids are fresh;
InitialTrees are trees whose indexes are exact. A lock file that a crash leaves behind, detached and
commit-like branch names, and the time a thread sleeps are left out.

### Runs

| run | instance | shows |
|---|---|---|
| `emf_locks` | 3 threads, one of which creates branches; 2 branches; 3 calls, 2 attempts, snapshots that fail to open (330,000 states) | `TypeOK`, `ExclusiveIsAlone`, `BranchesMoveForward` with locks leaked by failures |
| `emf_indexes` | 1 thread, 3 ids, a class and its subclass, 2 names and the empty one; 2 calls of up to 2 operations with references and stale revisions, READ and WRITE (275,000 states) | `TreesConsistent` over all short sequences of operations |
| `emf_races` | 2 threads, 3 calls, 2 attempts, stale revisions, references, WRITE and EXCLUSIVE (200,000 states) | `CallsAreAtomic` under races, `CallsReturn`; `NoLostUpdate` and `ReferencesKept` with commits of the other thread between the read and the update, the check for references and the commit |
| `emf_rename` | 1 thread, named classes | `RenamesAreUnique` fails (see below) |

Three calls are enough for a snapshot that two commits overtake, two attempts for a retry and for the
last attempt; three ids for a reference, its target and a bystander. A call of `emf_races` has one operation;
of calls with several, the theorems `NothingLost` and `TargetsKept` speak. `emf_locks` lets a thread that has
leaked a lock block the others for ever, so it switches the deadlock check off; the others have it on,
with the explicit step `Quiescent` for the end of a behaviour.

`CallsReturn` is checked under weak fairness of each thread's steps (`Fairness`): a Java thread that
can run does run, the lock lets a waiting thread in, and the function ends. The calls are bounded,
so nobody can starve a writer for ever; opening does not fail in this run, because a leaked read lock
keeps exclusive transactions out for ever (`Transaction.java:54`, a hazard).

### Finding

`RenamesAreUnique`: `checkUniqueQName` reads the "old" name from the resource being saved
(`emfgit/Database.java:471`), so the names are always equal on an update and the check ends there. A
rename may take the name of an object of a subclass, which a create may not. Within one class
the index itself still refuses it, which is why `TreesConsistent` holds.

## 4. Gitflow: branches of git and of the database

### Module

A commit of `Gitflow` holds a version number per file (0: no file); a schema holds a version number per
row. `tag[b]` is `refs/tags/db-<b>`, up to which git and the schema are known to agree. Each user is a
session that makes one request at a time, and `task[u]` is where that request is. Every action is one
transaction of the database or one update of a ref:

| actions | code |
|---|---|
| `SaveOrUpdate`, `OpenToWrite`, `CommitFiles` | `EntityController.saveOrUpdate`, `exportEObject` in `inGitTransaction` with its retries |
| `Remove`, `CommitRemove` | `EntityController.remove`, `deleteEObject`; the row is deleted in the `finally` of `ContextSvc.inContext`, even when git has failed; an object without generated sources keeps its file (`Generated`) |
| `ExportCurrentBranch`, `ReadObject`, `WriteExport`, `TagAsSynced` | `exportCurrentBranch`, `tagCurrentAsSynced` |
| `ImportCurrentBranch`, `ImportFile`, `ImportFails`, `EndImport` | `importCurrentBranch`: truncation, one transaction per file; a file that is no valid object is skipped, one that cannot be read or refers to no object ends the import without a tag |
| `CreateBranch`, `CreateSchema`, `CopySchema`, `SchemaFails` | `createBranch`, `createSchema`, `initSchema` |
| `DeleteBranch`, `PushDeletion`, `DropSchema` | `deleteBranch` |
| `SetCurrentBranch`, `Login` | `setCurrentBranch`; a new session takes the branch its thread was left with |
| `Merge`, `GfsMerge`, `SyncCurrentBranch`, `FindChanges` | `merge`, `GfsMerge`, `syncCurrentBranch`, `changedFiles` |
| `Restart` | `init` of a new server process |

Simplifications: the `.xmi` and `.ref` files of an object are one file; two changes of one file are a
conflict (git may merge lines); the merge base is any of the best common ancestors; the copy of the
tables of a schema is one step after its creation (`NoTables` is the schema in between); races of
lock files and of two creations of a branch are in `EmfTransactions`. Push and pull to a remote
repository, the working tree, the import of references alone (`importCurrentBranchRefs`, a part of the
import), and edits of the database by scripts are left out.

### Runs

| run | instance | shows |
|---|---|---|
| `gitflow_single` | 1 user, all requests, 2 files, 2 branches, failing pushes and schema statements, one restart, 5 requests (2,040,000 states) | `SyncedUnlessEmptied`, `TagsMoveForward` |
| `gitflow_editors` | 2 users with an object each; one also creates, merges and switches branches; 2 attempts, 5 requests (846,000 states) | `TypeOK`, `EditsStayInGit`, `HeadsMoveForward` |
| `gitflow_sync` | 2 users, one file, a save and a merge | `SyncedFilesAreInDb` fails (see below) |

Five requests are enough to create a branch, edit on both sides, merge and edit again. With
two attempts a commit can lose a race once and win, or lose twice and give up.
`SyncedFilesAreInDb` is stated of master, whose head the tags follow, and leaves invalid files out
(`FileMayBeInvalid = FALSE`): the code gives the change of a file up that it cannot read. A file that the next
sync leaves out (`LeftOut`) must have a row that is as new, or one that a user has removed at that version or
a newer one (the history variable `removed`). With two users it fails (the finding below). With one it fails
in one way: an import with truncation that fails, or that a restart cuts off, leaves master without the rows
that it has not given back, and the sync, which goes by the tag, does not bring them until an import ends or
the object is saved. `SyncedUnlessEmptied` excepts just these rows (the history variable `emptied`), and holds.
`EditsStayInGit` is checked without exports, which overwrite what was saved while they
read (a hazard with a note), and without deletions of branches, which take their edits along. Of a deleted
object it speaks only where the delete is the one place that the object went (`DeletedOnce`): to a
merge or a fast-forward, an object that another commit lacked as well, because it had not been added or was
deleted there too, may be one that the other side added.

### Finding

`SyncedFilesAreInDb` with two users (`gitflow_sync`): the sync imports the snapshot of the start of its
transaction over a row that was saved meanwhile, and the tag then hides the newer commit.

Two further behaviours of the code are reachable in the model and stand in `PROJECT.json` as hazards:
`tagRepo` tags the HEAD of the repository, which is always master, so an export of another branch
is tagged with a commit of master; and a commit begun before the deletion of its branch makes the branch
again, without its schema.

## 5. The services: jobs and scheduled tasks

`LivyJobs` and `Scheduling` share no variable. `Services` extends both and joins their type invariants.
`MCServices` gives it its instance, and its variable `part` says which of the two moves in a behaviour, so
that one run checks each alone. The client does the same.

`LivyJobs`: a request steps through `LivyJobHandler`: `BorrowObject`, `LoadJar`, `SubmitJob`,
`PutSession`, then `GetResult` (submit) or `AddListener` and `PutHandle` (submit without waiting).
`JobEnds` is the Livy server, `Notify` the listener's thread, `GetStatus` a poll. The pool is commons-pool
with its defaults, because the configuration that `LivyClientPool` builds from its properties is never
given to the pool: a borrow waits, a second return throws. A poll that sees a failed job forgets its handle
and looks its client up by the text of the handle in a map whose keys are handles: it finds none, and the
pool throws, so a poll returns no client. A put into one of the handler's plain hash maps
may be lost when two threads are at the same put (`MayBeLost`). Two handlers for one server and collisions
of hash codes, by which jobs are named, are left out.

`Scheduling`: `rows` are the `rt.ScheduledTask` rows, written as a whole by users (`Edit`), by a refresh
(`UpdateTask`) and by runs (`EndRun`, `FailRun`). A refresh (`RefreshScheduler`, then for each task
`SkipTask`, `ScheduleTask` and `UpdateTask`, then `EndRefresh`) holds the monitor of the service; runs do
not. `RefreshFails` where a task cannot be scheduled, and where its row cannot be written or committed after
it was. `futures` are the Spring futures, in the order of their creation; `live` is that
they may start runs. `Restart` forgets all but the rows, and the server starts with a refresh. A setting
of a row may be one that schedules (`right`), one that gives no future (`skipped`) or one on which
the refresh throws (`wrong`). Deletion of rows, the time of backoffs and the size of the scheduler's thread
pool are left out.

Run `services` (598,000 states): three requests, one of which waits for its job, two clients, two jars,
submissions and jobs that fail; a task that runs once and one that runs repeatedly and is tried again, with
two edits, two refreshes and two runs between two starts of the server, and any number of restarts.
Two clients and three requests are the least where a client is used again while another request waits; two
refreshes are the least where a second one meets the futures of the first.

- `ClientsComeBack`: a client is lost to the pool only with a failed request. `ClientsAreExclusive`: two
  requests never have one client. `RequestsAreServed`: a waiting request
  gets a client unless failed requests keep them all. Fairness: threads that can go on do, jobs of
  the Livy server end, and listeners are called.
- `FuturesAreKnown`: as long as no refresh has failed, a live future is in the service's map and the only
  one of its task. After a failed refresh it is not: the futures it made are orphans, which is a hazard the
  premise names. `RefreshIsComplete`: a refresh leaves exactly the tasks scheduled that it saw enabled.

The deadlock check is off: the system stops when all requests are finished, or when they wait for clients
that never come back; a refresh that fails at the start leaves the server down; and runs are bounded. That
a task which runs once stays disabled after its run does not hold: the refresh writes `lastScheduleTime`
with the row as it read it, after it has scheduled the task (`svc/SchedulingSvc.java:103`, a hazard).

## 6. The client

Every module has one action per handler, per answer and per timer. An answer is two steps: the server reads
or changes what it holds, and later the client takes the answer, in any order with other answers. Histories
(variables marked so) record what the user meant, or that something crossed which a property excepts.
`UiServer` joins `UiSession`, `UiStomp`, `UiEntity` and `UiWorkspace`, `UiEditors` joins `UiNotebook` and
`UiDesigner`, `UiPages` all the pages, `UiAnswers` and `UiTexts` those whose properties they conjoin. `UiLists` has what the
pages do with lists: the numbers of a set `InOrder`, and the rows of a list that are `Kept`.

### Sessions, the log, objects and workspaces: `MCUiServer`

- `UiSession`: `Query` is `resource.query` with `newProcess`, `Execute` the server at a step of its own,
  before which the session may `Expire`; `AnswerOk`, `AnswerError` and `AnswerUnauthorized` are what
  `fetchResponse` does with the answer, a 401 included. `Authenticate`, `AcceptLogin`, `RefuseLogin`,
  `LoginFails`, `LoggedIn` (with `resendPending`) and `NotLoggedIn` are the calls of `authenticate`;
  `Logout` is `logout`. Of the branches a request has the one it switches to, and an answer the one shown.
- `UiStomp`: `stompConnect` makes a client and forgets the one before without closing it; `Reconnect` is the
  timer of a lost connection; `Log`, `Redraw`, `ClearLogs` are the messages and the panel.
- `UiEntity`: selection, navigation back, edits, save, refresh, copy, delete and commands of one object
  view; `IsEntityEquel` compares as `isEntityEquel` does, which sees no element that was appended to a list
  (`Appended`); `Serve` is the server, `Loaded`, `Copied`, `Deleted`, `Commanded` the answers.
- `UiWorkspace`: the list of data sets, changes of a type, deletions, links, the import dialog, and leaving
  the page while all of these are under way.

Run `ui_server` (1,217,000 states): three interchangeable requests, one further attempt to log in, two
branches; three sockets, two timers and a log of two rows; two objects with two values, one of which is the other
with an element appended, and two calls at a time; three data sets of which two have one short name, one list, one edit and imports of up to two. These are the least
with a request that is put off while another is repeated, a forgotten socket behind a new one, an answer for
an object that was left, and a name that the page shows for another data set. The constraint `Proviso` stops
where `MapIsTrue` or `UnsavedIsAsked` holds by its exception for good (`unsure` and `crossed` stay).

`NothingForgotten`, `ExecutedOnce` and `BusyIsTrue` speak of requests; `ShownBranchIsReal` of the branch a
user commits to; `LogIsReceived` of the page that wants the log; `UnsavedIsAsked` of edits that would be
left unasked, those apart that `isEntityEquel` does not see; `MapIsTrue` of the data sets on the map when nothing is under way.

### The pages and their algorithms: `MCUiPages`

- `UiPorts`: `normalizeTransformationPorts` for sources, Sort, Selection, Sequence, Projection and targets;
  `LinksCarryFields` compares both ends of every transition after every change. In the code
  `inputPortHasChanged` and `normalizeTransition` call each other along the transitions; here `Onward` is one
  round of that, and as there is no cycle of transitions, it ends within as many rounds as there are nodes.
- `UiTasks`, `UiLivy`: rows that are read anew while their details are asked for. `AnswersAreShownWhereAsked` (`UiAnswers`)
  joins `RejectsAddUp`, `JobsAreTheirOwn` and, of the editors, `VerdictIsOfTheSelected` and `CoffeeIsForATest`.
- `UiEvents` (`EditsReachTheirTarget`), `UiStructure` (`OthersAreUntouched`), `UiDeployment`
  (`ParametersStayInPlace`): things that are found by name, number, key or position. The fields of an event
  are found by their name with their place in the list written after it, which two fields of a structure may
  share ("f" at 12 and "f1" at 2: `f12`); an open row whose rule has no condition stops the page, since `RenderCondition`
  reads the condition's type. A column is found by the whole word of its name and deleted also by the part
  behind a dot: a name is a sequence of words, and a column "a.b" takes the column "b" of the struct "a" with it. A
  column whose name was emptied is found no more. The table of parameters holds those of every deployment;
  one can be added before they are read, and is lost then, and a save that the server refuses changes nothing.
- `UiFields`, `UiProjection`, `UiAggregation` (`TypedTextsArrive`, in `UiTexts`): texts that arrive half a second after
  the last key. That the code editor calls back with a delay and is given its text anew by each render is
  how react-ace is used here; pasting fields into a projection throws in immutability-helper and changes nothing.
- `UiReferences` (`ReferencesFollow`): references over edits and over the two requests of a save.

Run `ui_pages` (499,000 states): each part alone, with bounds of two or three of everything that is counted,
which is what two rows need to be confused and a third to be a bystander. The constraint `Proviso` stops
where a property holds by its exception for good; which histories these are each property says.

Run `ui_ports` refutes `SourcesAreInputs`, which the model's own validation demands
(`src/pim/etl/etl.evl:149-159`): `normalizeTransition` keeps the field object of a port only where a field of
the same name stays at the same place (`utils/transformationPorts.js:374`), and `diffPorts` compares names, so
that after a shift a projection refers to field objects that its input port no longer has.

### The notebook and the diagram: `MCUiEditors`

- `UiNotebook`: `Run`, the poll `Tick`, saves, additions, moves, deletions and links; a call captures the
  list of paragraphs when it is made, `Serve` is the server, and `TakeAnswer` writes the list. The server
  refuses a run that has no text, no known interpreter or no identity, and a session that is gone ends the
  run with an error but queues it all the same (`ServeRun`). `Work` is the Livy session of the notebook, whose queue
  it works through; `WorkFails` is what throws in it outside of the statement, before or after the paragraph is
  stored in progress, and is only logged; `LoseQueue` is a restart of the server. The begin and the end of a run
  are one step, and a restart leaves the calls under way alone.
- `UiDesigner`: edits of the graph and of the form, `deleteCashed`, `refreshGraph`, `checkGraphConsistents`,
  the timer that builds the graph (`BuildGraph`), saves and their answers. Each cell of the graph knows whether
  the object that it holds is (still) the one of the entity (`current`). Answers may come between a render that asks for a
  new graph and its timer of no delay, gestures may not: a Delete there finds `rebuildInProcess` set, deletes
  nothing and leaves `inDelete` set (`DesignerView.js:62`, `103`, `272-282`), so that a link removed later stays in the
  entity until the next Delete. This is left out of the model and of what its properties say.

Run `ui_editors` (711,000 states): two paragraphs and one that may be added, two calls, two runs, one save;
three steps, two transitions, at most four cells. `ParagraphsAreDistinct`, `EndedRunIsShown`,
`GraphShowsEntity` and `OnlyTheDeletedGo` are its properties. `EndedRunIsShown` says that the page comes to
show an end that the server has stored, whatever is edited, saved or moved meanwhile. It is checked under
`NotebookFairness`: the timer ticks as long as it is set, calls are answered and answers are taken. Neither what
the user does is promised nor that a run ends: the code logs what throws and leaves the paragraph in
progress for ever, and so does a restart. With two runs at a time the poll may stop after the first, which is why
the property speaks of one.

The deadlock check is off in the three runs of the client: counts of what may be done are bounded.


## 7. What is proved

Every theorem holds for all values of the constants that satisfy the assumptions of its module, which TLC
evaluates in the runs: any number of threads, branches, objects, requests, rows. Four theorems assume more,
because what they state is false without it:

- `ExclusiveCorrect` and `Atomic` assume `OneCreator`: one thread creates branches. `createBranch` takes no
  lock of the database, and two creators of one branch overtake each other's check.
- `EditsStayCorrect` assumes `EditorsApart`: users edit objects of their own, and nobody exports a whole
  branch or deletes one (section 4).
- `SyncedCorrect` assumes `OneUserSyncs`: one user, every file can be imported, and no other branch has the
  schema of master. With two users `gitflow_sync` shows the counterexample to the property without its exception.

The other theorems about a specification have no hypothesis. `gitflow_editors` and `gitflow_single` are instances of these
hypotheses with merges, races of commits, failures and a restart, so the hypotheses leave the interesting
behaviours in. Almost no property is inductive by itself; the strengthening that is was first checked by TLC,
then proved. Theorems about a module that TLC checks as one `part` of an `MC` module are about the module's
own specification; a theorem about a property that joins modules has the specifications of all of them as its
premise. The modules of proofs are ordered by section above: the lemmas about the operators come first, then
one lemma for each action that says what it keeps, then the theorems.

| module | theorems | inductive invariant, and why it is needed |
|---|---|---|
| `EmfTransactionsProofs` | `ReindexIdentity` | none: exact indexes are what `reindex` would build. The lemmas `CreateConsistent`, `UpdateConsistent` and `DeleteConsistent` say that one operation keeps both exact; a create needs that no object refers to the new id (`Unmentioned`) |
| | `TypeCorrect` | `TypeInv`: the counts of the lock stay natural only because a transaction that is to release a lock holds it (`LockInv`) |
| | `IndexesCorrect` | `TreesInv`: objects only refer to ids that were used before, so that a fresh id is one that nobody refers to |
| | `ExclusiveCorrect` | `RaceInv`: what holds of a transaction in each phase, relative to the heads (`Orderly`), and who holds the lock of a ref. Two creators of one branch can overtake each other's check, where the code has no lock, so the theorem assumes `OneCreator` |
| | `BranchesForward` | `TypeInv`, and that a commit is in its own past |
| | `NothingLost`, `TargetsKept` | `DeltaInv`: the tree of each commit, and of each transaction that writes, is that of its base with its log applied (`Accounted`, `Referring`, `Logged`); that every commit is in the past of a head follows from `BranchesForward` |
| | `Atomic` (the refinement of `EmfStore`) | `StoreInv`: `TypeInv`, `RaceInv` and `RefineInv`, by which a transaction works on the effect of its log on the tree of its snapshot, and the past of a commit lies before it. So the one step that moves a head applies a whole call to the tree that was the head's, and every other step stutters |
| `GitflowProofs` | `GitflowTypeCorrect`, `HeadsForwardCorrect`, `TagsForwardCorrect` | `GitflowInv`: what a request still holds fits where it is (`TasksFit`), the history of a commit holds that of its parents, and every tag is in the history of master |
| | `LineageCorrect` | `LineageInv`: what a commit has in its past, a write or a merge starts from a commit that there is, and no row, file or write is newer than the requests there were |
| | `EditsStayCorrect` | `EditsFit`: a version has one source, the commit that brought it, and the commits that have the version are those with the source in their past (`Source`), so a merge takes it from the side that has the source, for the base has another version; and the source is on the branch |
| | `ChangesCorrect` | `ChangesAreFound`, itself: between a commit and one of its past, a file that no commit between them changed is as it was, or gone |
| | `SyncedCorrect` | `SyncInv`: a row of master is no older than a file that did not change since the tag, or its absence is accounted for by a delete or a truncation (`TagFresh`, `AbsentOK`), and what a request has read of its branch, or has imported so far, is true until it is done (`SyncFits`, `Held`). It rests on `LineageInv` and `ChangesAreFound` |
| `ServicesProofs` | `JobsTypeCorrect`, `ClientsComeBackCorrect`, `ClientsExclusiveCorrect` | `JobsInv` (what a request holds follows from where it is); and for the exclusive use `OwnerInv`: the one that will return a client is alone with it, and the pool knows that it is lent |
| | `SchedulingTypeCorrect`, `FuturesKnownCorrect`, `RefreshCompleteCorrect` | `SchedulingInv`: what a refresh has gathered so far is its own (`GatheredInv`). `KnownInv`: a live future is in one of the two maps, the service's and the one that the refresh makes; `CompleteInv`: what the refresh has passed has a future just if it was read as enabled |
| | `ServicesTypeCorrect` | joins the two |
| `UiServerProofs` | `SessionTypeCorrect`, `NothingForgottenCorrect`, `ExecutedOnceCorrect`, `BusyIsTrueCorrect` | `SessionInv`: a request has one answer, what is put off was not executed, and the properties themselves: each needs the others |
| | `ShownBranchCorrect` | `BranchInv`: requests about branches that wait together are for one branch unless they crossed, a good answer carries the branch it switched to, and once nothing can change the session's branch any more, answers and page say that branch |
| | `StompTypeCorrect`, `LogReceivedCorrect` | `StompInv`: with `NoneBeforeFirst`, the property is inductive |
| | `WorkspaceTypeCorrect`, `MapIsTrueCorrect` | `WorkspaceInv`: what may be under way together as long as nothing crossed (`RequestsInv`); and unless something that was deleted or imported is not listed yet, the page and every list that was read are true once the types under way are counted in (`ShownInv`) |
| | `EntityTypeCorrect`, `UnsavedIsAskedCorrect` | `EntityInv`: the page shows the end of its path, and every id it knows was one of an object (`PathInv`), so that a new object meets no request; an answer is true until it is applied, and none is for the object of a view that is gone (`CallsInv`); `entity_old` is the row, or the object is being loaded, or an answer that changes it is on its way (`SavedInv`) |
| | `ServerTypeCorrect` | joins the four |
| `UiEditorsProofs` | `NotebookTypeCorrect`, `ParagraphsDistinctCorrect` | `NotebookInv`: the list that a call captured is distinct, and what it is answered with is the paragraph at its index (`CallsFit`) |
| | `DesignerTypeCorrect`, `GraphShowsCorrect`, `OnlyDeletedCorrect` | `GraphInv`: the entity and its stored form each have the ends of their transitions, agree on the transitions they share, and while no end of a link was moved in the graph it draws these |
| | `EditorsTypeCorrect` | joins the two |
| `UiPagesProofs` | `AggregationTypeCorrect`, `DraftsOwnCorrect`, `CoffeeCorrect` | `AggregationInv`: a text stays with its tab, the one in the code editor with the open tab, and what was typed is in the draft or in the code editor unless a render came before (`TextsInv`) |
| | `ProjectionTypeCorrect`, `ExpressionsOwnCorrect`, `VerdictCorrect` | `ProjectionInv`: the fields are distinct (`ListInv`), the code editor has a text for the selected one (`EditorInv`), and checks and messages are about it (`ChecksInv`) |
| | `FieldsTypeCorrect`, `NothingTypedIsLostCorrect`, `TextsArriveCorrect` | `FieldsInv`: a text whose field has left belongs to a row of the list that it was shown with (`LeftoverInv`); while nothing crossed each row is the meant one but for the texts under way (`ArrivesInv`). `TextsArriveCorrect` joins the three pages: `UiTexts` |
| | `LivyTypeCorrect`, `JobsOwnCorrect` | `LivyInv`: while nothing crossed, one list of a kind is under way at most and there are no rows meanwhile (`OneList`, `EmptyMeanwhile`), details are for the row that they go to (`OwnDetails`), and a deleted job is in a row or a list that was read only until its deletion is answered (`KilledAreGone`) |
| | `TasksTypeCorrect`, `RejectsAddUpCorrect` | `TasksInv`: rows are numbered as they are shown (`Numbered`), and unless a list was overtaken, details are for rows that the list has, and the counts are those of the records below them (`DetailsFit`, `ShowsOwn`, `CountsFit`) |
| | `AnswersCorrect` | joins the pages of `UiAnswers`: the counts, the jobs, the verdicts and the test of an expression |
| | `PortsTypeCorrect`, `LinksCarryCorrect` | `PortsInv`: no transition enters a source and none closes a cycle, for the nodes can be ranked along them (`Acyclic`). Within one change: a change on its way leaves only transitions behind that have the same fields at both ends, but for those into the node where it is (`CarryBehind`), and it rises in rank, so that it comes to an end within as many rounds as there are nodes (`Behind`) |
| | `PagesTypeCorrect` | joins the type invariants of the ten pages and algorithms |
| `UiTargetsProofs` | `EventsTypeCorrect`, `EditsReachCorrect` | `EventsInv`: unless something was moved or named twice or two fields had one path element, rules differ by their names, a text under way is for the row at its number (`TypedStays`) and a dialog shows the fields as they are (`DialogStays`). That a new rule finds a free number (`FreeNumber`) is the pigeonhole principle |
| | `DeploymentTypeCorrect`, `ParametersStayCorrect` | `DeploymentInv`: unless the page was left with rows that can be taken for one another (`mixed`), the rows have different keys, and the counter is beyond all of them (`RowsAreApart`) |
| | `StructureTypeCorrect`, `OthersStayUntouched` | `StructureInv`: unless a name was stored or typed that is, begins or goes on another (`twins`), no name begins another but that of a struct those of its columns, and none is above the counter (`NamedUpTo`), so that a new column gets a name of its own and a deletion by path finds one column (`RemovedIs`) |
| | `ReferencesTypeCorrect`, `ReferencesFollowCorrect` | `ReferencesInv`: parts are apart, each reference leads to its part (`Lead`), and what is sent in the first request of a save is whole (`SentIsWhole`) |
| `UiListsProofs` | lemmas only | what `InOrder` and `Kept` yield for any set of numbers and any list, by the least number for which it would fail; and by the same argument, that a function over `0..m` which is made by steps exists, and keeps what its steps keep (`StepByStep`, `UpToTheEnd`) |

What the attempts to prove these showed about the model:

- `ReferencesKept` as first stated, of the references at the end of a transaction, is false with three
  operations (a reference that is removed and made again does not protect its target in between). It now
  speaks of references that are there throughout the transaction (`AlwaysReferred`).
- `ShownBranchIsReal` needs that no login is under way: a login replaces the session and its branch, and the
  page learns of it with the answer.
- In `UiFields` a late delivery can shorten the list under a place where something is typed; `DeliverLate`
  now lets the places beyond the new list leave the page, as React does.
- In `UiEvents` a new rule counted as something that moves, so that `EditsReachTheirTarget` said nothing of
  histories with one: it is appended and moves nothing, as the invariant shows, and no longer counts.
- What is found by a name is found by a string: with a field as a pair of a name and a place, and a column's name as
  one word, `EditsReachTheirTarget` and `OthersAreUntouched` had been proved for less than the code does. Both
  have the strings' coincidences now, and the provisos that they call for.
- Some assumptions on constants were missing. `MaxOutputFields` and `MaxLists` may not be 0 (a projection has
  a field, a page asks for its list); a request and an attempt to log in are different things; and in
  `UiEntity` neither "no object" nor the marks of an object that does not exist yet or any more is an object
  or a value. So were that the tree of a branch that does not exist is no tree (`NoTreeIsNone`), that
  no reference is itself an object of `UiReferences`, and that the deployments of `UiDeployment` are finitely many.
- `EditsStayInGit` as first stated is false for deletes: a merge may bring a deleted object back that another
  commit had lacked before. It now says of which deletes it speaks (`DeletedOnce`).
- An action of a workflow that runs Spark has no actions below it, and stored columns of a structure may
  have one name already: `UiTasks` assumes the one, `UiStructure` starts with `twins` in the other case.
- Induction over data is beyond the provers, but that there is a least number in every set of them is not.
  With it a statement about every prefix of a list is proved by the shortest one for which it fails.
  `InOrder` and `Kept` are defined so that this works, and the recursive function of `DiffArrays` is
  shown to exist by the same argument (`RoundsExist`), as are those of `UiPorts` (`StepByStep`): these go
  through the rounds of a change, the transitions and the nodes, in place of an operator that calls itself.

## 8. What is only model-checked

- Liveness (`CallsReturn`, `RequestsAreServed`, `EndedRunIsShown`): out of the prover's reach.
- `EditsStayInGit` and `SyncedUnlessEmptied` beyond the hypotheses of their theorems: there they are false, as
  section 4 says.

Every property of a passing run is also tried against a deliberate error in the model: operators whose
comment begins "For the mutation checks" stand before the definition they replace, and are listed in
`PROJECT.json` under `mutants`. A comparison that is left out, a lock that is not released, an answer
applied to the list of now: each is found.

## 9. What is not modelled

See the components marked `not_modelled` in `PROJECT.json`. In short: models, generators and Spark libraries
have no concurrent state of their own; scripts, templates, builds and remote services are I/O; licence and
security are sequential checks; the wizards, grids, charts and query builders of the client are layout
around requests and edits that other modules have; `Exporter`, `Finder`, `TaskList` and the merge of
objects into the database are pure algorithms that the plan leaves for later.

Left out of components that are modelled, besides what their sections name: a second Ctrl-S while a save is
under way (`ViewContainer.js:374-379`); fields of a projection without an expression, as the fields are
that a change of the input adds: in the model every field has one when it gets an editor (`ProjectionEditor.js:383`);
gestures between a render and the timer of the diagram (section 6).

## 10. Running the checks

`tlc -config EmfLocks.cfg MCEmfTransactions` and likewise for the others:

| configurations | module |
|---|---|
| `EmfLocks`, `EmfIndexes`, `EmfRaces`, `EmfRename` | `MCEmfTransactions` |
| `GitflowSingle`, `GitflowEditors`, `GitflowSync` | `MCGitflow` |
| `Services` | `MCServices` |
| `UiServer` | `MCUiServer` |
| `UiPages`, `UiPorts` | `MCUiPages` |
| `UiEditors` | `MCUiEditors` |

The longest take about three minutes with two workers. `EmfRename`, `GitflowSync` and `UiPorts` end
with the counterexample that their finding describes. `tlapm GitflowProofs.tla`, and likewise for the other modules
named `*Proofs`, checks the proofs; the longest takes about nine minutes.
