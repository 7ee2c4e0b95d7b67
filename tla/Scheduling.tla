----------------------------- MODULE Scheduling -----------------------------
(***************************************************************************)
(* The scheduler of the server (svc/SchedulingSvc.java).                   *)
(*                                                                         *)
(* Scheduled tasks are rows of the database that users edit.  A refresh    *)
(* reads them all, gives a future to each enabled task that has none, and  *)
(* cancels the futures of the others.  The runs of a future are done by    *)
(* threads of their own.  A row is read when a run or a refresh begins and *)
(* is written as a whole when it ends, with the columns as they were read. *)
(***************************************************************************)
EXTENDS Naturals, Sequences

CONSTANTS Task,
          Once,         \* the tasks with a OnceScheduler and disableAfterRun
          Retried,      \* the tasks whose entity has a policy of retries
          Setting,      \* the rest of a row
          Skipped,      \* the settings that give no future
          Throws,       \* the settings that a refresh fails on
          RunsMayFail,
          MaxEdits,     \* bounds of what happens between two starts
          MaxRefreshes,
          MaxRuns

ASSUME SchedulingConstants ==
    /\ Once \subseteq Task /\ Retried \subseteq Task
    /\ Skipped \subseteq Setting /\ Throws \subseteq Setting
    /\ RunsMayFail \in BOOLEAN
    /\ {MaxEdits, MaxRefreshes, MaxRuns} \subseteq Nat

VARIABLES
    rows,            \* the scheduled tasks in the database
    futures,         \* in the order of their creation
    scheduledTasks,  \* task -> its future, 0 for none
    refresh,         \* the refresh that holds the monitor of the service
    failed,          \* has a refresh failed since the server started?
    server,
    edits, refreshes, runs

counters == <<edits, refreshes, runs>>

schedulingVars == <<rows, futures, scheduledTasks, refresh, failed, server, counters>>

Row == [enabled : BOOLEAN, setting : Setting]

(* What stands in a future for the row while no run of it goes on.         *)
Unread == CHOOSE row \in Row : TRUE

None == [t \in Task |-> 0]

NoRefresh == [pc |-> "idle", todo |-> {}, update |-> {}, seen |-> rows, newTasks |-> None]

Reading == [pc |-> "tasks", todo |-> Task, update |-> {}, seen |-> rows, newTasks |-> None]

(* The server starts with a refresh.                                       *)
SchedulingInit ==
    /\ rows \in [Task -> Row]
    /\ futures = <<>>
    /\ scheduledTasks = None
    /\ refresh = Reading
    /\ failed = FALSE
    /\ server = "starting"
    /\ edits = 0 /\ refreshes = 0 /\ runs = 0

Edit(t) ==
    /\ server = "up"
    /\ edits < MaxEdits
    /\ edits' = edits + 1
    /\ \E row \in Row \ {rows[t]} : rows' = [rows EXCEPT ![t] = row]
    /\ UNCHANGED <<futures, scheduledTasks, refresh, failed, server, refreshes, runs>>
-----------------------------------------------------------------------------
RefreshScheduler ==
    /\ server = "up"
    /\ refresh.pc = "idle"
    /\ refreshes < MaxRefreshes
    /\ refreshes' = refreshes + 1
    /\ refresh' = Reading
    /\ UNCHANGED <<rows, futures, scheduledTasks, failed, server, edits, runs>>

AnyTask(t) == TRUE                                              \* mutant

IsEnabled(t) == refresh.seen[t].enabled

IsNew(t) == scheduledTasks[t] = 0

(* A task that is disabled, one that has its future, one without a         *)
(* scheduler or with no entity of its name.                                *)
SkipTask(t) ==
    /\ refresh.pc = "tasks"
    /\ t \in refresh.todo
    /\ \/ /\ ~IsEnabled(t)
          /\ refresh' = [refresh EXCEPT !.todo = @ \ {t}]
       \/ /\ IsEnabled(t) /\ ~IsNew(t)
          /\ refresh' = [refresh EXCEPT !.todo = @ \ {t}, !.newTasks[t] = scheduledTasks[t]]
       \/ /\ IsEnabled(t) /\ IsNew(t)
          /\ refresh.seen[t].setting \in Skipped
          /\ refresh' = [refresh EXCEPT !.todo = @ \ {t}]
    /\ UNCHANGED <<rows, futures, scheduledTasks, failed, server, counters>>

LastFuture == Len(futures)                                      \* mutant

NewFuture == Len(futures) + 1

(* A scheduler without its delay, period or expression gives no future.    *)
ScheduleTask(t) ==
    /\ refresh.pc = "tasks"
    /\ t \in refresh.todo
    /\ IsEnabled(t) /\ IsNew(t)
    /\ \/ /\ refresh.seen[t].setting \notin Skipped \cup Throws
          /\ futures' = Append(futures, [task |-> t, live |-> TRUE, run |-> "none", row |-> Unread])
          /\ refresh' = [refresh EXCEPT !.pc = "update", !.update = {t}, !.todo = @ \ {t},
                                        !.newTasks[t] = NewFuture]
       \/ /\ refresh.seen[t].setting \in Skipped
          /\ refresh' = [refresh EXCEPT !.pc = "update", !.update = {t}, !.todo = @ \ {t}]
          /\ UNCHANGED futures
    /\ UNCHANGED <<rows, scheduledTasks, failed, server, counters>>

(* lastScheduleTime: the row that was read is written.                     *)
UpdateTask(t) ==
    /\ refresh.pc = "update"
    /\ t \in refresh.update
    /\ rows' = [rows EXCEPT ![t] = refresh.seen[t]]
    /\ refresh' = [refresh EXCEPT !.pc = "tasks", !.update = {}]
    /\ UNCHANGED <<futures, scheduledTasks, failed, server, counters>>

(* A task cannot be scheduled, or the write of its row or the commit fails *)
(* after it was.  The new futures are forgotten, and may run all the same. *)
(* The server does not start.                                              *)
RefreshFails(t) ==
    /\ \/ /\ refresh.pc = "tasks"
          /\ t \in refresh.todo
          /\ IsEnabled(t) /\ IsNew(t)
          /\ refresh.seen[t].setting \in Throws
       \/ /\ refresh.pc = "update"
          /\ t \in refresh.update
    /\ refresh' = NoRefresh
    /\ failed' = TRUE
    /\ server' = IF server = "starting" THEN "down" ELSE server
    /\ UNCHANGED <<rows, futures, scheduledTasks, counters>>

NotCancelled == {}                                              \* mutant

CancelledTasks == {t \in Task : scheduledTasks[t] # 0 /\ refresh.newTasks[t] = 0}

EndRefresh ==
    /\ refresh.pc = "tasks"
    /\ refresh.todo = {}
    /\ futures' = [i \in DOMAIN futures |->
                     IF \E t \in CancelledTasks : scheduledTasks[t] = i
                     THEN [futures[i] EXCEPT !.live = FALSE] ELSE futures[i]]
    /\ scheduledTasks' = refresh.newTasks
    /\ refresh' = [refresh EXCEPT !.pc = "idle"]
    /\ server' = "up"
    /\ UNCHANGED <<rows, failed, counters>>
-----------------------------------------------------------------------------
(* A run reads the row.  A cancelled future starts no run but does not     *)
(* stop one, nor its retries.                                              *)
StartRun(i) ==
    /\ server # "down"
    /\ \/ futures[i].live /\ futures[i].run \in {"none", "done"}
       \/ futures[i].run = "again"
    /\ runs < MaxRuns
    /\ runs' = runs + 1
    /\ futures' = [futures EXCEPT ![i].run = "running", ![i].row = rows[futures[i].task],
                                  ![i].live = @ /\ futures[i].task \notin Once]
    /\ UNCHANGED <<rows, scheduledTasks, refresh, failed, server, edits, refreshes>>

EndRun(i) ==
    LET f == futures[i]
    IN  /\ f.run = "running"
        /\ rows' = [rows EXCEPT ![f.task] = IF f.task \in Once
                                            THEN [f.row EXCEPT !.enabled = FALSE] ELSE f.row]
        /\ futures' = [futures EXCEPT ![i].run = "done", ![i].row = Unread]
        /\ UNCHANGED <<scheduledTasks, refresh, failed, server, counters>>

(* lastError: the row is written, and the run may be tried again.          *)
FailRun(i) ==
    LET f == futures[i]
    IN  /\ RunsMayFail
        /\ f.run = "running"
        /\ rows' = [rows EXCEPT ![f.task] = f.row]
        /\ \/ futures' = [futures EXCEPT ![i].run = "none", ![i].row = Unread]
           \/ f.task \in Retried /\ futures' = [futures EXCEPT ![i].run = "again", ![i].row = Unread]
        /\ UNCHANGED <<scheduledTasks, refresh, failed, server, counters>>

(* The rows stay; the counts of the bounds begin again.                    *)
Restart ==
    /\ futures' = <<>>
    /\ scheduledTasks' = None
    /\ refresh' = Reading
    /\ failed' = FALSE
    /\ server' = "starting"
    /\ edits' = 0 /\ refreshes' = 0 /\ runs' = 0
    /\ UNCHANGED rows

SchedulingNext ==
    \/ \E t \in Task : Edit(t) \/ SkipTask(t) \/ ScheduleTask(t) \/ UpdateTask(t) \/ RefreshFails(t)
    \/ RefreshScheduler \/ EndRefresh
    \/ \E i \in DOMAIN futures : StartRun(i) \/ EndRun(i) \/ FailRun(i)
    \/ Restart

SchedulingSpec == SchedulingInit /\ [][SchedulingNext]_schedulingVars
-----------------------------------------------------------------------------
SchedulingTypeOK ==
    /\ rows \in [Task -> Row]
    /\ futures \in Seq([task : Task, live : BOOLEAN, row : Row,
                        run : {"none", "running", "again", "done"}])
    /\ scheduledTasks \in [Task -> 0 .. Len(futures)]
    /\ refresh \in [pc : {"idle", "tasks", "update"}, todo : SUBSET Task, update : SUBSET Task,
                    seen : [Task -> Row], newTasks : [Task -> 0 .. Len(futures)]]
    /\ failed \in BOOLEAN
    /\ server \in {"starting", "up", "down"}
    /\ \A t \in Task : scheduledTasks[t] # 0 => futures[scheduledTasks[t]].task = t

Known(i) == \E t \in Task : i \in {scheduledTasks[t], refresh.newTasks[t]}

(***************************************************************************)
(* A future that may start runs can be cancelled: the service knows it,    *)
(* and it is the only one of its task, as long as no refresh has failed.   *)
(***************************************************************************)
FuturesAreKnown ==
    ~failed => \A i \in DOMAIN futures : futures[i].live =>
        /\ Known(i)
        /\ \A k \in DOMAIN futures : futures[k].live /\ futures[k].task = futures[i].task => k = i

(***************************************************************************)
(* After a refresh the tasks with a future are those that it has seen      *)
(* enabled, and no future has been taken from one of them.                 *)
(***************************************************************************)
RefreshIsComplete ==
    refresh.pc = "idle" /\ server = "up" /\ ~failed =>
        \A t \in Task :
            /\ scheduledTasks[t] # 0 => refresh.seen[t].enabled
            /\ refresh.seen[t].enabled /\ refresh.seen[t].setting \notin Skipped
                  => scheduledTasks[t] # 0

=============================================================================
