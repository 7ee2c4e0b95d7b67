------------------------------ MODULE UiTasks ------------------------------
(***************************************************************************)
(* The page of an Oozie server (views/OozieView.js): the tasks of a period *)
(* with the rejected records and the logs of their Spark actions.          *)
(*                                                                         *)
(* The list is asked for with a button, and the rejects of every Spark     *)
(* task in it are asked for at once.  A detail is put into the row where   *)
(* its task was when it was asked for, and the rejects of a task are added *)
(* to all the tasks it is a part of.                                       *)
(***************************************************************************)
EXTENDS Naturals, FiniteSets, Sequences

CONSTANTS
    Tasks,         \* how many tasks are started; a task is its number, newest first in a list
    PartOf,        \* the task each task is a part of, 0 when it is not
    Rejected,      \* the rejected records of each Spark task
    MaxLoads       \* bound: lists under way at a time

ASSUME TasksAssumption ==
    /\ Tasks \in Nat /\ MaxLoads \in Nat
    /\ PartOf \in [1..Tasks -> Nat] /\ \A t \in 1..Tasks : PartOf[t] < t
    /\ DOMAIN Rejected \subseteq 1..Tasks /\ \A t \in DOMAIN Rejected : Rejected[t] \in Nat
    \* A Spark action of a workflow has no parts.
    /\ \A t \in 1..Tasks : PartOf[t] \notin DOMAIN Rejected

VARIABLES
    started,       \* the tasks the server has
    tableData,     \* the rows of the page
    loads,         \* lists that are under way: what the server had when each was asked for
    details,       \* details that are under way
    overtaken      \* whether a list came while details of an earlier one were under way

tasksVars == <<started, tableData, loads, details, overtaken>>
-----------------------------------------------------------------------------
Spark == DOMAIN Rejected

(* A row: the rejects counted for the task, and whose rejects and logs it  *)
(* shows: 0 when they were not asked for, the task itself while they are   *)
(* under way or have come.                                                 *)
TaskRow == [id : 1..Tasks, num : Nat, rejects : 0..Tasks, logs : 0..Tasks]

(* A detail: its task, and the row it goes to *)
Detail == [kind : {"rejects", "logs"}, of : Spark, row : 1..Tasks]

TasksTypeOK ==
    /\ started \in 0..Tasks
    /\ tableData \in Seq(TaskRow)
    /\ loads \in SUBSET (0..Tasks) /\ Cardinality(loads) <= MaxLoads
    /\ details \subseteq Detail
    /\ overtaken \in BOOLEAN

TasksInit ==
    /\ started = 0 /\ tableData = <<>> /\ loads = {} /\ details = {}
    /\ overtaken = FALSE

IdsOf(rows) == {rows[i].id : i \in DOMAIN rows}

(* The tasks of the page that t is a part of: the chain of its parents, up *)
(* to the first one that is not on the page.                               *)
Ancestors(rows, t) ==
    LET up[p \in 0..Tasks] == IF p \notin IdsOf(rows) THEN {} ELSE {p} \cup up[PartOf[p]]
    IN  up[PartOf[t]]
-----------------------------------------------------------------------------
Start ==
    /\ started < Tasks
    /\ started' = started + 1
    /\ UNCHANGED <<tableData, loads, details, overtaken>>

(* loadTasks: the button is not disabled while a list is under way. *)
LoadTasks ==
    /\ Cardinality(loads) < MaxLoads
    /\ started \notin loads
    /\ loads' = loads \cup {started}
    /\ UNCHANGED <<started, tableData, details, overtaken>>

(* The answer to loadTasks: the server's list of some moment since it was  *)
(* asked for replaces the rows, and readRejects asks for the rejects of    *)
(* every Spark task.                                                       *)
TasksLoaded(l, n) ==
    /\ n \in l..started
    /\ loads' = loads \ {l}
    /\ tableData' = [i \in 1..n |-> LET t == n + 1 - i
                                    IN  [id |-> t, num |-> 0, logs |-> 0,
                                         rejects |-> IF t \in Spark THEN t ELSE 0]]
    /\ details' = details \cup
           {[kind |-> "rejects", of |-> t, row |-> n + 1 - t] : t \in Spark \cap 1..n}
    /\ overtaken' = (overtaken \/ details # {})
    /\ UNCHANGED started

(* renderTask with readSparkLog: the row of a Spark task is opened. *)
ReadSparkLog(i) ==
    /\ tableData[i].id \in Spark
    /\ tableData[i].logs = 0
    /\ tableData' = [tableData EXCEPT ![i].logs = tableData[i].id]
    /\ details' = details \cup {[kind |-> "logs", of |-> tableData[i].id, row |-> i]}
    /\ UNCHANGED <<started, loads, overtaken>>

(* For the mutation checks: only the task itself is counted in, not what   *)
(* it is part of.                                                          *)
IncrementOneParent(rows, t, n) ==
    [i \in DOMAIN rows |-> IF rows[i].id = PartOf[t]
                           THEN [rows[i] EXCEPT !.num = @ + n] ELSE rows[i]]

(* incrementParentRejected: every ancestor counts n records more. *)
IncrementParentRejected(rows, t, n) ==
    [i \in DOMAIN rows |-> IF rows[i].id \in Ancestors(rows, t)
                           THEN [rows[i] EXCEPT !.num = @ + n] ELSE rows[i]]

(* The answer to readSparkRejects: the row the task had takes them, when   *)
(* there is such a row and there are any.                                  *)
RejectsRead(d) ==
    LET n    == Rejected[d.of]
        rows == IncrementParentRejected(tableData, d.of, n)
    IN  /\ d.kind = "rejects"
        /\ details' = details \ {d}
        /\ tableData' = IF n > 0 /\ d.row \in DOMAIN rows
                        THEN [rows EXCEPT ![d.row].num = n, ![d.row].rejects = d.of]
                        ELSE tableData
        /\ UNCHANGED <<started, loads, overtaken>>

(* The answer to readSparkLog *)
LogsRead(d) ==
    /\ d.kind = "logs"
    /\ details' = details \ {d}
    /\ tableData' = IF d.row \in DOMAIN tableData
                    THEN [tableData EXCEPT ![d.row].logs = d.of] ELSE tableData
    /\ UNCHANGED <<started, loads, overtaken>>

(* A request fails: its answer never comes. *)
TaskRequestFails ==
    /\ \/ \E l \in loads : loads' = loads \ {l} /\ UNCHANGED details
       \/ \E d \in details : details' = details \ {d} /\ UNCHANGED loads
    /\ UNCHANGED <<started, tableData, overtaken>>

TasksNext ==
    \/ Start
    \/ LoadTasks
    \/ \E l \in loads, n \in 0..Tasks : TasksLoaded(l, n)
    \/ \E i \in DOMAIN tableData : ReadSparkLog(i)
    \/ \E d \in details : RejectsRead(d)
    \/ \E d \in details : LogsRead(d)
    \/ TaskRequestFails

TasksSpec == TasksInit /\ [][TasksNext]_tasksVars
-----------------------------------------------------------------------------
(* As long as no list overtakes the details of an earlier one, a row shows *)
(* the rejects and the logs of its own task, and a task counts the records *)
(* rejected in all its parts and no others, in whatever order their        *)
(* answers come: the number is that of all records (the numbered ones of a *)
(* row) of the Spark tasks below it whose rejects are read.                *)
RejectsAddUp ==
    ~overtaken => \A i \in DOMAIN tableData :
        LET below == {j \in DOMAIN tableData :
                         /\ tableData[i].id \in Ancestors(tableData, tableData[j].id)
                         /\ tableData[j].id \in Spark /\ tableData[j].num > 0}
        IN  /\ {tableData[i].rejects, tableData[i].logs} \subseteq {0, tableData[i].id}
            /\ tableData[i].id \notin Spark =>
                  tableData[i].num = Cardinality(UNION {{j} \X (1..tableData[j].num) : j \in below})
=============================================================================
