--------------------------- MODULE ServicesProofs ---------------------------
(***************************************************************************)
(* Proofs about the two services, which share no variable.                 *)
(*                                                                         *)
(* The job handler, for any number of requests, clients and jars: its type *)
(* invariant, that clients come back to the pool, and that they are used   *)
(* by one request at a time.                                               *)
(*                                                                         *)
(* The scheduler, for any number of tasks, edits, refreshes, runs and      *)
(* restarts: its type invariant, that live futures are known, and that a   *)
(* refresh is complete.                                                    *)
(***************************************************************************)
EXTENDS Services, SequenceTheorems, TLAPS

-----------------------------------------------------------------------------
(* The job handler (LivyJobs).                                             *)

(* What a request has not begun it has not got: before it borrows, no      *)
(* client and no session.  A session is the client of its job.             *)
SessionInv ==
    \A j \in Job :
        /\ pc[j] \in {"new", "borrow"} =>
              client[j] = NoClient /\ activeSessions[j] = NoClient
        /\ activeSessions[j] \in {NoClient, client[j]}

(* A listener is added last but for the handle; a handle is one of a       *)
(* request that did not wait; and a job that runs is waited for by its     *)
(* request or by its listener.                                             *)
OrderInv ==
    \A j \in Job :
        /\ pc[j] \in {"new", "borrow", "load", "submit"} => state[j] = "none"
        /\ listener[j] # "none" => pc[j] \in {"handle", "done"}
        /\ j \in jobHandles => pc[j] = "done" /\ j \notin Waits
        /\ pc[j] \in {"listen", "handle"} => j \notin Waits
        /\ state[j] = "running" =>
              pc[j] \in {"session", "wait", "listen"} \/ listener[j] = "added"

JobsInv == JobsTypeOK /\ SessionInv /\ OrderInv

(* The one that will return a client is alone with it, and the pool knows  *)
(* that it is lent.                                                        *)
OwnerInv ==
    \A c \in Client :
        /\ \A j \in Job : WillReturn(j, c) => c \in lent
        /\ \A j, k \in Job : WillReturn(j, c) /\ WillReturn(k, c) => j = k

LEMMA JobsInvInit == JobsInit => JobsInv
  BY LivyConstants DEF JobsInit, JobsInv, JobsTypeOK, SessionInv, OrderInv

LEMMA JobsInvNext == JobsInv /\ [JobsNext]_jobsVars => JobsInv'
<1> SUFFICES ASSUME JobsInv, [JobsNext]_jobsVars
             PROVE  JobsInv'
  OBVIOUS
<1> USE LivyConstants DEF JobsInv, JobsTypeOK, SessionInv, OrderInv, GoTo, maps
<1>1. CASE UNCHANGED jobsVars
  BY <1>1 DEF jobsVars
<1>2. ASSUME NEW j \in Job, Submit(j)
      PROVE  JobsInv'
  BY <1>2 DEF Submit
<1>3. ASSUME NEW j \in Job, BorrowObject(j)
      PROVE  JobsInv'
  BY <1>3 DEF BorrowObject, Free
<1>4. ASSUME NEW j \in Job, LoadJar(j)
      PROVE  JobsInv'
  BY <1>4 DEF LoadJar
<1>5. ASSUME NEW j \in Job, SubmitFails(j)
      PROVE  JobsInv'
  BY <1>5 DEF SubmitFails
<1>6. ASSUME NEW j \in Job, SubmitJob(j)
      PROVE  JobsInv'
  BY <1>6 DEF SubmitJob
<1>7. ASSUME NEW j \in Job, PutSession(j)
      PROVE  JobsInv'
  BY <1>7 DEF PutSession
<1>8. ASSUME NEW j \in Job, GetResult(j)
      PROVE  JobsInv'
  BY <1>8 DEF GetResult, ReturnObject, Deallocated, Ended
<1>9. ASSUME NEW j \in Job, AddListener(j)
      PROVE  JobsInv'
  BY <1>9 DEF AddListener
<1>10. ASSUME NEW j \in Job, PutHandle(j)
       PROVE  JobsInv'
  BY <1>10 DEF PutHandle
<1>11. ASSUME NEW j \in Job, JobEnds(j)
       PROVE  JobsInv'
  BY <1>11 DEF JobEnds
<1>12. ASSUME NEW j \in Job, Notify(j)
       PROVE  JobsInv'
  BY <1>12 DEF Notify, ListenerReturns, Ended, ReturnObject, Deallocated
<1>13. ASSUME NEW j \in Job, GetStatus(j)
       PROVE  JobsInv'
  BY <1>13 DEF GetStatus
<1>14. QED
  BY <1>1, <1>2, <1>3, <1>4, <1>5, <1>6, <1>7, <1>8, <1>9, <1>10, <1>11, <1>12, <1>13
  DEF JobsNext, Request

(* The state of the handler has its type: clients are idle or lent and     *)
(* never both, whatever is returned twice, lost or failed.                 *)
THEOREM JobsInvCorrect == JobsSpec => []JobsInv
<1>1. JobsInit => JobsInv
  BY JobsInvInit
<1>2. JobsInv /\ [JobsNext]_jobsVars => JobsInv'
  BY JobsInvNext
<1>3. QED
  BY <1>1, <1>2, PTL DEF JobsSpec

(* The type invariant of the job handler: of its pool, its maps and its    *)
(* requests.                                                               *)
COROLLARY JobsTypeCorrect == JobsSpec => []JobsTypeOK
BY JobsInvCorrect, PTL DEF JobsInv
-----------------------------------------------------------------------------
(* A client that was lent is with a failed request, or will be given back  *)
(* by the request that has borrowed it or by its listener.                 *)
THEOREM ClientsComeBackCorrect == JobsSpec => []ClientsComeBack
<1>1. JobsInit => ClientsComeBack
  BY DEF JobsInit, ClientsComeBack
<1>2. ASSUME JobsInv, ClientsComeBack, [JobsNext]_jobsVars
      PROVE  ClientsComeBack'
  <2> USE <1>2, LivyConstants DEF JobsInv, JobsTypeOK, SessionInv, OrderInv, ClientsComeBack, Kept,
          WillReturn, GoTo
  <2>1. CASE UNCHANGED jobsVars
    BY <2>1 DEF jobsVars
  <2>2. ASSUME NEW j \in Job, Submit(j)
        PROVE  ClientsComeBack'
    BY <2>2 DEF Submit
  <2>3. ASSUME NEW j \in Job, BorrowObject(j)
        PROVE  ClientsComeBack'
    BY <2>3 DEF BorrowObject, Free
  <2>4. ASSUME NEW j \in Job, LoadJar(j)
        PROVE  ClientsComeBack'
    BY <2>4 DEF LoadJar
  <2>5. ASSUME NEW j \in Job, SubmitFails(j)
        PROVE  ClientsComeBack'
    BY <2>5 DEF SubmitFails
  <2>6. ASSUME NEW j \in Job, SubmitJob(j)
        PROVE  ClientsComeBack'
    BY <2>6 DEF SubmitJob
  <2>7. ASSUME NEW j \in Job, PutSession(j)
        PROVE  ClientsComeBack'
    BY <2>7 DEF PutSession
  <2>8. ASSUME NEW j \in Job, GetResult(j)
        PROVE  ClientsComeBack'
    BY <2>8 DEF GetResult, ReturnObject, Deallocated, Ended
  <2>9. ASSUME NEW j \in Job, AddListener(j)
        PROVE  ClientsComeBack'
    BY <2>9 DEF AddListener
  <2>10. ASSUME NEW j \in Job, PutHandle(j)
         PROVE  ClientsComeBack'
    BY <2>10 DEF PutHandle
  <2>11. ASSUME NEW j \in Job, JobEnds(j)
         PROVE  ClientsComeBack'
    BY <2>11 DEF JobEnds
  <2>12. ASSUME NEW j \in Job, Notify(j)
         PROVE  ClientsComeBack'
    BY <2>12 DEF Notify, ListenerReturns, Ended, ReturnObject, Deallocated
  <2>13. ASSUME NEW j \in Job, GetStatus(j)
         PROVE  ClientsComeBack'
    BY <2>13 DEF GetStatus
  <2>14. QED
    BY <2>1, <2>2, <2>3, <2>4, <2>5, <2>6, <2>7, <2>8, <2>9, <2>10, <2>11, <2>12, <2>13
    DEF JobsNext, Request
<1>3. QED
  BY <1>1, <1>2, JobsInvCorrect, PTL DEF JobsSpec
-----------------------------------------------------------------------------
LEMMA OwnerInvNext == JobsInv /\ OwnerInv /\ [JobsNext]_jobsVars => OwnerInv'
<1> SUFFICES ASSUME JobsInv, OwnerInv, [JobsNext]_jobsVars, NEW c \in Client
             PROVE  /\ \A j \in Job : WillReturn(j, c)' => c \in lent'
                    /\ \A j, k \in Job : WillReturn(j, c)' /\ WillReturn(k, c)' => j = k
  BY DEF OwnerInv
<1> DEFINE Alone ==
      /\ \A j \in Job : WillReturn(j, c) => c \in lent
      /\ \A j, k \in Job : WillReturn(j, c) /\ WillReturn(k, c) => j = k
<1>1. Alone
  BY DEF OwnerInv
<1> USE LivyConstants DEF JobsInv, JobsTypeOK, SessionInv, OrderInv, WillReturn, GoTo
<1>2. CASE UNCHANGED jobsVars
  BY <1>1, <1>2 DEF jobsVars
<1>3. ASSUME NEW i \in Job, Submit(i) \/ LoadJar(i) \/ SubmitFails(i) \/ SubmitJob(i)
      PROVE  Alone'
  BY <1>1, <1>3 DEF Submit, LoadJar, SubmitFails, SubmitJob
<1>4. ASSUME NEW i \in Job, BorrowObject(i)
      PROVE  Alone'
  BY <1>1, <1>4 DEF BorrowObject, Free
<1>5. ASSUME NEW i \in Job, PutSession(i) \/ AddListener(i) \/ PutHandle(i) \/ JobEnds(i)
      PROVE  Alone'
  BY <1>1, <1>5 DEF PutSession, AddListener, PutHandle, JobEnds
<1>6. ASSUME NEW i \in Job, GetResult(i)
      PROVE  Alone'
  BY <1>1, <1>6 DEF GetResult, ReturnObject, Deallocated, Ended
<1>7. ASSUME NEW i \in Job, Notify(i)
      PROVE  Alone'
  BY <1>1, <1>7 DEF Notify, ListenerReturns, Ended, ReturnObject, Deallocated
<1>8. ASSUME NEW i \in Job, GetStatus(i)
      PROVE  Alone'
  BY <1>1, <1>8 DEF GetStatus
<1>9. QED
  BY <1>2, <1>3, <1>4, <1>5, <1>6, <1>7, <1>8 DEF JobsNext, Request

(* Two requests never work with one client: a client has one place that    *)
(* will return it, whatever fails and whenever jobs end.                   *)
THEOREM ClientsExclusiveCorrect == JobsSpec => []ClientsAreExclusive
<1>1. JobsInit => OwnerInv
  BY DEF JobsInit, OwnerInv, WillReturn
<1>2. JobsInv /\ OwnerInv => ClientsAreExclusive
  <2> SUFFICES ASSUME JobsInv, OwnerInv, NEW c \in Client, NEW j \in Job, NEW k \in Job,
                      Uses(j, c), Uses(k, c)
               PROVE  j = k
    BY DEF ClientsAreExclusive
  <2>1. WillReturn(j, c) /\ WillReturn(k, c)
    BY DEF JobsInv, OrderInv, Uses, WillReturn
  <2>2. QED
    BY <2>1 DEF OwnerInv
<1>3. QED
  BY <1>1, <1>2, OwnerInvNext, JobsInvCorrect, PTL DEF JobsSpec
-----------------------------------------------------------------------------
(* The scheduler (Scheduling).                                             *)

Future == [task : Task, live : BOOLEAN, row : Row, run : {"none", "running", "again", "done"}]

(* The futures a refresh has gathered are those of their tasks; as long as *)
(* no refresh has failed, a task keeps its future until the refresh ends,  *)
(* nothing is gathered for a task that is still to be looked at, and       *)
(* between refreshes the service knows what the last one gathered.         *)
GatheredInv ==
    /\ \A t \in Task : refresh.newTasks[t] # 0 => futures[refresh.newTasks[t]].task = t
    /\ ~failed =>
        /\ refresh.pc = "idle" => refresh.newTasks = scheduledTasks /\ refresh.todo = {}
        /\ \A t \in Task :
              /\ scheduledTasks[t] # 0 => refresh.newTasks[t] \in {0, scheduledTasks[t]}
              /\ t \in refresh.todo => refresh.newTasks[t] = 0

SchedulingInv == SchedulingTypeOK /\ GatheredInv

(* A live future is in one of the two maps of the service.                 *)
KnownInv == ~failed => \A i \in DOMAIN futures : futures[i].live => Known(i)

(* What the refresh has looked at has a future if, and only if, it is      *)
(* enabled and its setting gives one.                                      *)
CompleteInv ==
    ~failed => \A t \in Task \ refresh.todo :
        /\ refresh.newTasks[t] # 0 => refresh.seen[t].enabled
        /\ refresh.seen[t].enabled /\ refresh.seen[t].setting \notin Skipped
              => refresh.newTasks[t] # 0

LEMMA FunctionIsSeq ==
  ASSUME NEW S, NEW n \in Nat, NEW f \in [1 .. n -> S]
  PROVE  f \in Seq(S) /\ Len(f) = n /\ DOMAIN f = 1 .. n
  OBVIOUS

LEMMA UnreadType == (\E row : row \in Row) => Unread \in Row
  BY Zenon DEF Unread

(* The first refresh of a server reads all tasks; there is no future yet.  *)
LEMMA StartedInv ==
  ASSUME rows' \in [Task -> Row], futures' = <<>>, scheduledTasks' = None,
         refresh' = [pc |-> "tasks", todo |-> Task, update |-> {}, seen |-> rows', newTasks |-> None],
         failed' = FALSE, server' = "starting"
  PROVE  SchedulingInv'
<1>1. futures' \in Seq(Future) /\ Len(futures') = 0
  BY EmptySeq
<1>2. None \in [Task -> 0 .. Len(futures')] /\ \A t \in Task : None[t] = 0
  BY <1>1 DEF None
<1>3. refresh' \in [pc : {"idle", "tasks", "update"}, todo : SUBSET Task, update : SUBSET Task,
                    seen : [Task -> Row], newTasks : [Task -> 0 .. Len(futures')]]
  BY <1>2
<1>4. SchedulingTypeOK'
  BY <1>1, <1>2, <1>3 DEF SchedulingTypeOK, Future
<1>5. GatheredInv'
  BY <1>2 DEF GatheredInv
<1>6. QED
  BY <1>4, <1>5 DEF SchedulingInv

(* A step that changes no map of the service and keeps the futures with    *)
(* their tasks, whatever it does to the runs and to the rows.              *)
LEMMA FuturesKept ==
  ASSUME SchedulingInv, rows' \in [Task -> Row], server' = server,
         UNCHANGED <<scheduledTasks, refresh, failed>>,
         futures' = [i \in DOMAIN futures |-> futures'[i]],
         \A i \in DOMAIN futures : futures'[i] \in Future /\ futures'[i].task = futures[i].task
  PROVE  SchedulingInv' /\ DOMAIN futures' = DOMAIN futures
<1>1. futures \in Seq(Future)
  BY DEF SchedulingInv, SchedulingTypeOK, Future
<1>2. Len(futures) \in Nat /\ DOMAIN futures = 1 .. Len(futures)
  BY <1>1, LenProperties
<1>3. futures' \in [1 .. Len(futures) -> Future]
  BY <1>2
<1>4. futures' \in Seq(Future) /\ Len(futures') = Len(futures) /\ DOMAIN futures' = DOMAIN futures
  BY <1>2, <1>3, FunctionIsSeq
<1>5. \A n \in 0 .. Len(futures) : n # 0 => futures'[n].task = futures[n].task
  BY <1>2
<1>6. SchedulingTypeOK'
  BY <1>4, <1>5 DEF SchedulingInv, SchedulingTypeOK, Future
<1>7. GatheredInv'
  <2>1. \A t \in Task : refresh.newTasks[t] \in 0 .. Len(futures)
    BY DEF SchedulingInv, SchedulingTypeOK
  <2>2. QED
    BY <1>5, <2>1 DEF SchedulingInv, GatheredInv
<1>8. QED
  BY <1>4, <1>6, <1>7 DEF SchedulingInv

(* What becomes of the future of a run that starts, ends or fails.         *)
LEMMA RunKeepsFutures ==
  ASSUME SchedulingInv, NEW i \in DOMAIN futures, StartRun(i) \/ EndRun(i) \/ FailRun(i)
  PROVE  /\ rows' \in [Task -> Row]
         /\ futures' = [k \in DOMAIN futures |-> futures'[k]]
         /\ \A k \in DOMAIN futures :
               /\ futures'[k] \in Future
               /\ futures'[k].task = futures[k].task
               /\ futures'[k].live => futures[k].live
<1> USE DEF SchedulingInv, SchedulingTypeOK
<1>1. \A k \in DOMAIN futures : futures[k] \in Future
  <2>1. futures \in Seq(Future)
    BY DEF Future
  <2>2. QED
    BY <2>1, LenProperties, ElementOfSeq
<1>2. futures[i].task \in Task /\ futures[i].row \in Row /\ rows[futures[i].task] \in Row
  BY <1>1 DEF Future
<1>3. Unread \in Row
  BY <1>2, UnreadType
<1>4. futures \in [DOMAIN futures -> Future]
  BY <1>1
<1>5. CASE StartRun(i)
  <2> DEFINE live == futures[i].live /\ futures[i].task \notin Once
  <2>1. futures' = [futures EXCEPT ![i].run = "running", ![i].row = rows[futures[i].task],
                                   ![i].live = @ /\ futures[i].task \notin Once]
    BY <1>5 DEF StartRun
  <2>2. /\ futures' = [k \in DOMAIN futures |-> futures'[k]]
        /\ \A k \in DOMAIN futures \ {i} : futures'[k] = futures[k]
        /\ futures'[i] = [futures[i] EXCEPT !.run = "running", !.row = rows[futures[i].task],
                                            !.live = live]
    BY ONLY <1>4, <2>1
  <2>3. live \in BOOLEAN
    OBVIOUS
  <2>4. futures'[i] \in Future /\ futures'[i].task = futures[i].task /\ (futures'[i].live <=> live)
    <3> HIDE DEF live
    <3> QED
      BY <1>1, <1>2, <2>2, <2>3 DEF Future
  <2>5. rows' = rows
    BY <1>5 DEF StartRun
  <2>6. QED
    BY <1>1, <2>2, <2>4, <2>5
<1>6. CASE EndRun(i) \/ FailRun(i)
  <2>1. PICK run \in {"done", "none", "again"} :
          futures' = [futures EXCEPT ![i].run = run, ![i].row = Unread]
    BY <1>6 DEF EndRun, FailRun
  <2>2. /\ futures' = [k \in DOMAIN futures |-> futures'[k]]
        /\ \A k \in DOMAIN futures \ {i} : futures'[k] = futures[k]
        /\ futures'[i] = [futures[i] EXCEPT !.run = run, !.row = Unread]
    BY ONLY <1>4, <2>1
  <2>3. /\ futures'[i] \in Future
        /\ futures'[i].task = futures[i].task /\ futures'[i].live = futures[i].live
    BY <1>1, <1>3, <2>2 DEF Future
  <2>4. [futures[i].row EXCEPT !.enabled = FALSE] \in Row
    BY <1>2 DEF Row
  <2>5. \E row \in Row : rows' = [rows EXCEPT ![futures[i].task] = row]
    BY <1>2, <1>6, <2>4 DEF EndRun, FailRun
  <2>6. rows' \in [Task -> Row]
    BY <1>2, <2>5
  <2>7. QED
    BY <1>1, <2>2, <2>3, <2>6
<1>7. QED
  BY <1>5, <1>6

(* What becomes of the futures at the end of a refresh: those of cancelled *)
(* tasks are live no more.                                                 *)
LEMMA EndKeepsFutures ==
  ASSUME SchedulingInv, EndRefresh
  PROVE  /\ futures' \in Seq(Future) /\ Len(futures') = Len(futures)
         /\ DOMAIN futures' = DOMAIN futures
         /\ \A k \in DOMAIN futures :
               /\ futures'[k].task = futures[k].task
               /\ futures'[k].live =>
                     futures[k].live /\ ~\E t \in CancelledTasks : scheduledTasks[t] = k
<1>1. futures \in Seq(Future)
  BY DEF SchedulingInv, SchedulingTypeOK, Future
<1>2. Len(futures) \in Nat /\ DOMAIN futures = 1 .. Len(futures)
  BY <1>1, LenProperties
<1>3. \A k \in DOMAIN futures : futures[k] \in Future
  BY <1>1, <1>2, ElementOfSeq
<1>4. futures' = [k \in DOMAIN futures |->
                    IF \E t \in CancelledTasks : scheduledTasks[t] = k
                    THEN [futures[k] EXCEPT !.live = FALSE] ELSE futures[k]]
  BY DEF EndRefresh
<1>5. \A k \in DOMAIN futures :
         /\ futures'[k] \in Future
         /\ futures'[k].task = futures[k].task
         /\ futures'[k].live =>
               futures[k].live /\ ~\E t \in CancelledTasks : scheduledTasks[t] = k
  <2> SUFFICES ASSUME NEW k \in DOMAIN futures
               PROVE  /\ futures'[k] \in Future
                      /\ futures'[k].task = futures[k].task
                      /\ futures'[k].live =>
                            futures[k].live /\ ~\E t \in CancelledTasks : scheduledTasks[t] = k
    OBVIOUS
  <2>1. CASE \E t \in CancelledTasks : scheduledTasks[t] = k
    <3>1. futures'[k] = [futures[k] EXCEPT !.live = FALSE]
      BY <1>4, <2>1
    <3>2. QED
      BY <1>3, <3>1 DEF Future
  <2>2. CASE ~\E t \in CancelledTasks : scheduledTasks[t] = k
    <3>1. futures'[k] = futures[k]
      BY <1>4, <2>2
    <3>2. QED
      BY <1>3, <2>2, <3>1
  <2>3. QED
    BY <2>1, <2>2
<1>6. futures' \in [1 .. Len(futures) -> Future]
  BY <1>2, <1>4, <1>5
<1>7. QED
  BY <1>2, <1>5, <1>6, FunctionIsSeq

LEMMA SchedulingInvEnd ==
  ASSUME SchedulingInv, EndRefresh
  PROVE  SchedulingInv'
<1>1. /\ futures' \in Seq(Future) /\ Len(futures') = Len(futures)
      /\ \A n \in 0 .. Len(futures) : n # 0 => futures'[n].task = futures[n].task
  BY EndKeepsFutures, LenProperties DEF SchedulingInv, SchedulingTypeOK
<1>2. /\ refresh' = [refresh EXCEPT !.pc = "idle"]
      /\ refresh'.newTasks = refresh.newTasks /\ refresh'.todo = {} /\ refresh.pc = "tasks"
      /\ scheduledTasks' = refresh.newTasks
      /\ server' = "up" /\ UNCHANGED <<rows, failed>>
  BY DEF EndRefresh, SchedulingInv, SchedulingTypeOK
<1>3. SchedulingTypeOK'
  BY <1>1, <1>2 DEF SchedulingInv, SchedulingTypeOK, GatheredInv, Future
<1>4. GatheredInv'
  BY <1>1, <1>2 DEF SchedulingInv, SchedulingTypeOK, GatheredInv
<1>5. QED
  BY <1>3, <1>4 DEF SchedulingInv

LEMMA SchedulingInvInit == SchedulingInit => SchedulingInv
<1> SUFFICES ASSUME SchedulingInit PROVE SchedulingInv
  OBVIOUS
<1>1. futures \in Seq(Future) /\ Len(futures) = 0
  BY EmptySeq DEF SchedulingInit
<1>2. None \in [Task -> 0 .. Len(futures)] /\ \A t \in Task : None[t] = 0
  BY <1>1 DEF None
<1>3. refresh \in [pc : {"idle", "tasks", "update"}, todo : SUBSET Task, update : SUBSET Task,
                   seen : [Task -> Row], newTasks : [Task -> 0 .. Len(futures)]]
  BY <1>2 DEF SchedulingInit, Reading
<1>4. SchedulingTypeOK
  BY <1>1, <1>2, <1>3 DEF SchedulingTypeOK, SchedulingInit, Future
<1>5. GatheredInv
  BY <1>2 DEF GatheredInv, SchedulingInit, Reading
<1>6. QED
  BY <1>4, <1>5 DEF SchedulingInv

LEMMA SchedulingInvNext == SchedulingInv /\ [SchedulingNext]_schedulingVars => SchedulingInv'
<1> SUFFICES ASSUME SchedulingInv, [SchedulingNext]_schedulingVars
             PROVE  SchedulingInv'
  OBVIOUS
<1>0. /\ futures \in Seq(Future)
      /\ Len(futures) \in Nat
      /\ DOMAIN futures = 1 .. Len(futures)
      /\ \A i \in DOMAIN futures : futures[i] \in Future
  <2>1. futures \in Seq(Future)
    BY DEF Future, SchedulingInv, SchedulingTypeOK
  <2>2. QED
    BY <2>1, LenProperties, ElementOfSeq
<1>1. CASE UNCHANGED schedulingVars
  BY <1>1 DEF schedulingVars, SchedulingInv, SchedulingTypeOK, GatheredInv
<1>2. ASSUME NEW t \in Task, Edit(t)
      PROVE  SchedulingInv'
  BY <1>2 DEF Edit, SchedulingInv, SchedulingTypeOK, GatheredInv
<1>3. CASE RefreshScheduler
  BY <1>0, <1>3 DEF RefreshScheduler, Reading, None, counters, SchedulingInv, SchedulingTypeOK, GatheredInv
<1>4. ASSUME NEW t \in Task, SkipTask(t)
      PROVE  SchedulingInv'
  <2>1. scheduledTasks[t] \in 0 .. Len(futures)
    BY DEF SchedulingInv, SchedulingTypeOK
  <2>2. CASE refresh' = [refresh EXCEPT !.todo = @ \ {t}]
    BY <1>4, <2>2 DEF SkipTask, counters, SchedulingInv, SchedulingTypeOK, GatheredInv
  <2>3. CASE refresh' = [refresh EXCEPT !.todo = @ \ {t}, !.newTasks[t] = scheduledTasks[t]]
    <3>1. /\ refresh'.newTasks = [refresh.newTasks EXCEPT ![t] = scheduledTasks[t]]
          /\ refresh'.todo = refresh.todo \ {t}
          /\ refresh'.pc = "tasks"
      BY <1>4, <2>3 DEF SkipTask, SchedulingInv, SchedulingTypeOK
    <3>2. SchedulingTypeOK'
      BY <1>4, <2>1, <2>3 DEF SkipTask, counters, SchedulingInv, SchedulingTypeOK
    <3>3. GatheredInv'
      BY <1>4, <3>1 DEF SkipTask, counters, SchedulingInv, SchedulingTypeOK, GatheredInv
    <3>4. QED
      BY <3>2, <3>3 DEF SchedulingInv
  <2>4. QED
    BY <1>4, <2>2, <2>3 DEF SkipTask
<1>5. ASSUME NEW t \in Task, ScheduleTask(t)
      PROVE  SchedulingInv'
  <2> DEFINE f == [task |-> t, live |-> TRUE, run |-> "none", row |-> Unread]
  <2>1. CASE /\ futures' = Append(futures, f)
             /\ refresh' = [refresh EXCEPT !.pc = "update", !.update = {t}, !.todo = @ \ {t},
                                            !.newTasks[t] = NewFuture]
    <3>1. f \in Future
      <4>1. Unread \in Row
        BY UnreadType DEF SchedulingInv, SchedulingTypeOK
      <4>2. QED
        BY <4>1 DEF Future
    <3>2. /\ futures' \in Seq(Future) /\ Len(futures') = Len(futures) + 1
          /\ \A i \in 1 .. Len(futures) : futures'[i] = futures[i]
          /\ futures'[Len(futures) + 1] = f
      <4> HIDE DEF f
      <4> QED
        BY <1>0, <2>1, <3>1, AppendProperties
    <3>3. /\ refresh'.newTasks = [refresh.newTasks EXCEPT ![t] = Len(futures) + 1]
          /\ refresh'.todo = refresh.todo \ {t}
          /\ refresh'.pc = "update" /\ refresh'.update = {t} /\ refresh'.seen = refresh.seen
          /\ refresh' = [pc |-> refresh'.pc, todo |-> refresh'.todo, update |-> refresh'.update,
                          seen |-> refresh'.seen, newTasks |-> refresh'.newTasks]
      BY <2>1 DEF NewFuture, SchedulingInv, SchedulingTypeOK
    <3>4. /\ scheduledTasks \in [Task -> 0 .. Len(futures')]
          /\ refresh'.newTasks \in [Task -> 0 .. Len(futures')]
      BY <1>0, <3>2, <3>3 DEF SchedulingInv, SchedulingTypeOK
    <3>5. refresh' \in [pc : {"idle", "tasks", "update"}, todo : SUBSET Task, update : SUBSET Task,
                         seen : [Task -> Row], newTasks : [Task -> 0 .. Len(futures')]]
      BY <3>3, <3>4 DEF SchedulingInv, SchedulingTypeOK
    <3>6. SchedulingTypeOK'
      <4>1. \A s \in Task : scheduledTasks[s] # 0 => futures'[scheduledTasks[s]].task = s
        BY <1>0, <3>2 DEF SchedulingInv, SchedulingTypeOK
      <4>2. futures' \in Seq([task : Task, live : BOOLEAN, row : Row,
                             run : {"none", "running", "again", "done"}])
        BY <3>2 DEF Future
      <4>3. UNCHANGED <<rows, scheduledTasks, failed, server>>
        BY <1>5 DEF ScheduleTask
      <4>4. QED
        BY <3>4, <3>5, <4>1, <4>2, <4>3 DEF SchedulingInv, SchedulingTypeOK
    <3>7. GatheredInv'
      BY <1>0, <1>5, <3>2, <3>3
      DEF ScheduleTask, IsNew, counters, SchedulingInv, SchedulingTypeOK, GatheredInv
    <3>8. QED
      BY <3>6, <3>7 DEF SchedulingInv
  <2>2. CASE UNCHANGED futures /\ refresh' = [refresh EXCEPT !.pc = "update", !.update = {t},
                                                             !.todo = @ \ {t}]
    BY <1>5, <2>2
    DEF ScheduleTask, counters, SchedulingInv, SchedulingTypeOK, GatheredInv
  <2>3. QED
    BY <1>5, <2>1, <2>2 DEF ScheduleTask
<1>6. ASSUME NEW t \in Task, UpdateTask(t)
      PROVE  SchedulingInv'
  BY <1>6 DEF UpdateTask, counters, SchedulingInv, SchedulingTypeOK, GatheredInv
<1>7. ASSUME NEW t \in Task, RefreshFails(t)
      PROVE  SchedulingInv'
  BY <1>0, <1>7 DEF RefreshFails, NoRefresh, None, counters, SchedulingInv, SchedulingTypeOK, GatheredInv
<1>8. CASE EndRefresh
  BY <1>8, EndKeepsFutures, SchedulingInvEnd
<1>9. ASSUME NEW i \in DOMAIN futures, StartRun(i) \/ EndRun(i) \/ FailRun(i)
      PROVE  SchedulingInv'
  BY <1>9, RunKeepsFutures, FuturesKept DEF StartRun, EndRun, FailRun
<1>10. CASE Restart
  BY <1>10, StartedInv DEF Restart, Reading, SchedulingInv, SchedulingTypeOK
<1>11. QED
  BY <1>1, <1>2, <1>3, <1>4, <1>5, <1>6, <1>7, <1>8, <1>9, <1>10
  DEF SchedulingNext

(* The maps of futures, the refresh and the runs have their types: a task  *)
(* is never given the future of another one.                               *)
THEOREM SchedulingInvCorrect == SchedulingSpec => []SchedulingInv
BY SchedulingInvInit, SchedulingInvNext, PTL DEF SchedulingSpec

COROLLARY SchedulingTypeCorrect == SchedulingSpec => []SchedulingTypeOK
BY SchedulingInvCorrect, PTL DEF SchedulingInv
-----------------------------------------------------------------------------
(* What a refresh does to its own record when it looks at a task that it   *)
(* skips, and at one that it gives a future to.                            *)
LEMMA SkipEffect ==
  ASSUME SchedulingInv, NEW t \in Task, SkipTask(t)
  PROVE  /\ UNCHANGED <<futures, scheduledTasks, failed>>
         /\ t \in refresh.todo /\ refresh.pc = "tasks" /\ refresh'.pc = "tasks"
         /\ refresh'.todo = refresh.todo \ {t} /\ refresh'.seen = refresh.seen
         /\ \A s \in Task \ {t} : refresh'.newTasks[s] = refresh.newTasks[s]
         /\ \/ /\ refresh.seen[t].enabled /\ scheduledTasks[t] # 0
               /\ refresh'.newTasks[t] = scheduledTasks[t]
            \/ /\ refresh.seen[t].enabled => refresh.seen[t].setting \in Skipped
               /\ refresh'.newTasks[t] = refresh.newTasks[t]
<1>0. refresh.newTasks \in [Task -> 0 .. Len(futures)]
  BY DEF SchedulingInv, SchedulingTypeOK
<1>1. refresh = [pc |-> refresh.pc, todo |-> refresh.todo, update |-> refresh.update,
                 seen |-> refresh.seen, newTasks |-> refresh.newTasks]
  BY DEF SchedulingInv, SchedulingTypeOK
<1>2. CASE /\ IsEnabled(t) => refresh.seen[t].setting \in Skipped
           /\ refresh' = [refresh EXCEPT !.todo = @ \ {t}]
  <2>1. /\ refresh'.newTasks = refresh.newTasks /\ refresh'.todo = refresh.todo \ {t}
        /\ refresh'.pc = refresh.pc /\ refresh'.seen = refresh.seen
    BY <1>1, <1>2
  <2>2. QED
    BY <1>2, <2>1 DEF SkipTask, IsEnabled
<1>3. CASE /\ IsEnabled(t) /\ ~IsNew(t)
           /\ refresh' = [refresh EXCEPT !.todo = @ \ {t}, !.newTasks[t] = scheduledTasks[t]]
  <2>1. /\ refresh'.newTasks = [refresh.newTasks EXCEPT ![t] = scheduledTasks[t]]
        /\ refresh'.todo = refresh.todo \ {t}
        /\ refresh'.pc = refresh.pc /\ refresh'.seen = refresh.seen
    BY <1>1, <1>3
  <2>2. QED
    BY <1>0, <1>3, <2>1 DEF SkipTask, IsEnabled, IsNew
<1>4. QED
  BY <1>2, <1>3 DEF SkipTask

LEMMA ScheduleEffect ==
  ASSUME SchedulingInv, NEW t \in Task, ScheduleTask(t)
  PROVE  /\ UNCHANGED <<scheduledTasks, failed>>
         /\ t \in refresh.todo /\ scheduledTasks[t] = 0 /\ refresh.seen[t].enabled
         /\ refresh.pc = "tasks" /\ refresh'.pc = "update"
         /\ refresh'.todo = refresh.todo \ {t} /\ refresh'.seen = refresh.seen
         /\ \A s \in Task \ {t} : refresh'.newTasks[s] = refresh.newTasks[s]
         /\ \/ /\ Len(futures') = Len(futures) + 1
               /\ DOMAIN futures' = 1 .. Len(futures) + 1
               /\ \A i \in 1 .. Len(futures) : futures'[i] = futures[i]
               /\ refresh'.newTasks[t] = Len(futures) + 1
            \/ /\ futures' = futures
               /\ refresh.seen[t].setting \in Skipped
               /\ refresh'.newTasks[t] = refresh.newTasks[t]
<1> DEFINE f == [task |-> t, live |-> TRUE, run |-> "none", row |-> Unread]
<1>0. futures \in Seq(Future) /\ refresh.newTasks \in [Task -> 0 .. Len(futures)]
  BY DEF SchedulingInv, SchedulingTypeOK, Future
<1>1. refresh = [pc |-> refresh.pc, todo |-> refresh.todo, update |-> refresh.update,
                 seen |-> refresh.seen, newTasks |-> refresh.newTasks]
  BY DEF SchedulingInv, SchedulingTypeOK
<1>2. /\ t \in refresh.todo /\ scheduledTasks[t] = 0 /\ refresh.seen[t].enabled
      /\ refresh.pc = "tasks" /\ UNCHANGED <<scheduledTasks, failed>>
  BY DEF ScheduleTask, IsEnabled, IsNew
<1>3. CASE /\ futures' = Append(futures, f)
           /\ refresh' = [refresh EXCEPT !.pc = "update", !.update = {t}, !.todo = @ \ {t},
                                         !.newTasks[t] = NewFuture]
  <2>1. f \in Future
    <3>1. Unread \in Row
      BY UnreadType DEF SchedulingInv, SchedulingTypeOK
    <3>2. QED
      BY <3>1 DEF Future
  <2>2. /\ futures' \in Seq(Future) /\ Len(futures') = Len(futures) + 1
        /\ \A i \in 1 .. Len(futures) : futures'[i] = futures[i]
    <3> HIDE DEF f
    <3> QED
      BY <1>0, <1>3, <2>1, AppendProperties
  <2>3. DOMAIN futures' = 1 .. Len(futures) + 1
    BY <2>2, LenProperties
  <2>4. /\ refresh'.newTasks = [refresh.newTasks EXCEPT ![t] = NewFuture]
        /\ refresh'.todo = refresh.todo \ {t}
        /\ refresh'.pc = "update" /\ refresh'.seen = refresh.seen
    BY <1>1, <1>3
  <2>5. /\ refresh'.newTasks[t] = Len(futures) + 1
        /\ \A s \in Task \ {t} : refresh'.newTasks[s] = refresh.newTasks[s]
    BY <1>0, <2>4 DEF NewFuture
  <2>6. QED
    BY <1>2, <2>2, <2>3, <2>4, <2>5
<1>4. CASE /\ UNCHANGED futures /\ refresh.seen[t].setting \in Skipped
           /\ refresh' = [refresh EXCEPT !.pc = "update", !.update = {t}, !.todo = @ \ {t}]
  BY <1>1, <1>2, <1>4
<1>5. QED
  BY <1>3, <1>4 DEF ScheduleTask

LEMMA KnownInvNext ==
  SchedulingInv /\ KnownInv /\ [SchedulingNext]_schedulingVars => KnownInv'
<1> SUFFICES ASSUME SchedulingInv, KnownInv, [SchedulingNext]_schedulingVars
             PROVE  KnownInv'
  OBVIOUS
<1>0. futures \in Seq(Future) /\ DOMAIN futures = 1 .. Len(futures) /\ Len(futures) \in Nat
  <2>1. futures \in Seq(Future)
    BY DEF SchedulingInv, SchedulingTypeOK, Future
  <2>2. QED
    BY <2>1, LenProperties
<1>1. CASE UNCHANGED schedulingVars
  BY <1>1 DEF schedulingVars, KnownInv, Known
<1>2. ASSUME NEW t \in Task, Edit(t) \/ UpdateTask(t)
      PROVE  KnownInv'
  BY <1>2 DEF Edit, UpdateTask, KnownInv, Known, SchedulingInv, SchedulingTypeOK
<1>3. CASE RefreshScheduler
  BY <1>3 DEF RefreshScheduler, Reading, KnownInv, Known, SchedulingInv, GatheredInv
<1>4. ASSUME NEW t \in Task, SkipTask(t)
      PROVE  KnownInv'
  <2> SUFFICES ASSUME ~failed', NEW i \in DOMAIN futures', futures'[i].live
               PROVE  Known(i)'
    BY DEF KnownInv
  <2>1. PICK s \in Task : i \in {scheduledTasks[s], refresh.newTasks[s]}
    BY <1>4, SkipEffect DEF KnownInv, Known
  <2>2. t \in refresh.todo /\ ~failed => refresh.newTasks[t] = 0
    BY DEF SchedulingInv, GatheredInv
  <2>3. i # 0
    BY <1>0, <1>4, SkipEffect
  <2>4. i \in {scheduledTasks[s], refresh'.newTasks[s]}
    BY <1>4, <2>1, <2>2, <2>3, SkipEffect
  <2>5. QED
    BY <1>4, <2>4, SkipEffect DEF Known
<1>5. ASSUME NEW t \in Task, ScheduleTask(t)
      PROVE  KnownInv'
  <2> SUFFICES ASSUME ~failed', NEW i \in DOMAIN futures', futures'[i].live
               PROVE  Known(i)'
    BY DEF KnownInv
  <2>1. CASE i = Len(futures) + 1
    <3>1. refresh'.newTasks[t] = i
      BY <1>0, <1>5, <2>1, ScheduleEffect
    <3>2. QED
      BY <3>1 DEF Known
  <2>2. CASE i # Len(futures) + 1
    <3>1. i \in DOMAIN futures /\ futures'[i] = futures[i] /\ ~failed /\ i # 0
      BY <1>0, <1>5, <2>2, ScheduleEffect
    <3>2. PICK s \in Task : i \in {scheduledTasks[s], refresh.newTasks[s]}
      BY <3>1 DEF KnownInv, Known
    <3>3. refresh.newTasks[t] = 0
      BY <1>5, <3>1, ScheduleEffect DEF SchedulingInv, GatheredInv
    <3>4. i \in {scheduledTasks[s], refresh'.newTasks[s]}
      BY <1>5, <3>1, <3>2, <3>3, ScheduleEffect
    <3>5. QED
      BY <1>5, <3>4, ScheduleEffect DEF Known
  <2>3. QED
    BY <2>1, <2>2
<1>6. ASSUME NEW t \in Task, RefreshFails(t)
      PROVE  KnownInv'
  BY <1>6 DEF RefreshFails, KnownInv
<1>7. CASE EndRefresh
  BY <1>7, EndKeepsFutures
  DEF EndRefresh, CancelledTasks, KnownInv, Known, SchedulingInv, SchedulingTypeOK, GatheredInv
<1>8. ASSUME NEW i \in DOMAIN futures, StartRun(i) \/ EndRun(i) \/ FailRun(i)
      PROVE  KnownInv'
  <2>1. UNCHANGED <<scheduledTasks, refresh, failed>>
    BY <1>8 DEF StartRun, EndRun, FailRun
  <2>2. /\ DOMAIN futures' = DOMAIN futures
        /\ \A k \in DOMAIN futures : futures'[k].live => futures[k].live
    BY <1>8, RunKeepsFutures
  <2>3. QED
    BY <2>1, <2>2 DEF KnownInv, Known
<1>9. CASE Restart
  BY <1>9, EmptySeq DEF Restart, KnownInv
<1>10. QED
  BY <1>1, <1>2, <1>3, <1>4, <1>5, <1>6, <1>7, <1>8, <1>9 DEF SchedulingNext

(* As long as no refresh has failed, the service knows every future that   *)
(* may start runs, and no task has two: over any number of edits,          *)
(* refreshes, runs that end at any time, retries and restarts.             *)
THEOREM FuturesKnownCorrect == SchedulingSpec => []FuturesAreKnown
<1>1. SchedulingInit => KnownInv
  BY EmptySeq DEF SchedulingInit, KnownInv
<1>2. SchedulingInv /\ KnownInv => FuturesAreKnown
  <2> SUFFICES ASSUME SchedulingInv, KnownInv, ~failed, NEW i \in DOMAIN futures, futures[i].live,
                      NEW k \in DOMAIN futures, futures[k].live, futures[k].task = futures[i].task
               PROVE  k = i
    BY DEF KnownInv, FuturesAreKnown
  <2>1. i # 0 /\ k # 0
    <3>1. futures \in Seq(Future)
      BY DEF SchedulingInv, SchedulingTypeOK, Future
    <3>2. QED
      BY <3>1, LenProperties
  <2>2. PICK t \in Task : i \in {scheduledTasks[t], refresh.newTasks[t]}
    BY DEF KnownInv, Known
  <2>3. PICK s \in Task : k \in {scheduledTasks[s], refresh.newTasks[s]}
    BY DEF KnownInv, Known
  <2>4. futures[i].task = t /\ futures[k].task = s
    BY <2>1, <2>2, <2>3, SMTT(20) DEF SchedulingInv, SchedulingTypeOK, GatheredInv
  <2>5. scheduledTasks[t] # 0 => refresh.newTasks[t] \in {0, scheduledTasks[t]}
    BY DEF SchedulingInv, GatheredInv
  <2>6. QED
    BY <2>1, <2>2, <2>3, <2>4, <2>5
<1>3. QED
  BY <1>1, <1>2, KnownInvNext, SchedulingInvCorrect, PTL DEF SchedulingSpec
-----------------------------------------------------------------------------
LEMMA CompleteInvNext ==
  SchedulingInv /\ CompleteInv /\ [SchedulingNext]_schedulingVars => CompleteInv'
<1> SUFFICES ASSUME SchedulingInv, CompleteInv, [SchedulingNext]_schedulingVars
             PROVE  CompleteInv'
  OBVIOUS
<1> USE DEF CompleteInv
<1>1. CASE UNCHANGED schedulingVars
  BY <1>1 DEF schedulingVars
<1>2. ASSUME NEW t \in Task, Edit(t) \/ UpdateTask(t)
      PROVE  CompleteInv'
  BY <1>2, ZenonT(40) DEF Edit, UpdateTask, SchedulingInv, SchedulingTypeOK
<1>3. CASE RefreshScheduler \/ Restart
  BY <1>3 DEF RefreshScheduler, Restart, Reading
<1>4. ASSUME NEW t \in Task, SkipTask(t)
      PROVE  CompleteInv'
  <2>1. ~failed => refresh.newTasks[t] = 0
    BY <1>4, SkipEffect DEF SchedulingInv, GatheredInv
  <2>2. QED
    BY <1>4, <2>1, SkipEffect
<1>5. ASSUME NEW t \in Task, ScheduleTask(t)
      PROVE  CompleteInv'
  <2>1. ~failed => refresh.newTasks[t] = 0
    BY <1>5, ScheduleEffect DEF SchedulingInv, GatheredInv
  <2>2. Len(futures) + 1 # 0
    BY LenProperties DEF SchedulingInv, SchedulingTypeOK
  <2>3. QED
    BY <1>5, <2>1, <2>2, ScheduleEffect
<1>6. ASSUME NEW t \in Task, RefreshFails(t)
      PROVE  CompleteInv'
  BY <1>6 DEF RefreshFails
<1>7. CASE EndRefresh
  BY <1>7 DEF EndRefresh, SchedulingInv, SchedulingTypeOK
<1>8. ASSUME NEW i \in DOMAIN futures, StartRun(i) \/ EndRun(i) \/ FailRun(i)
      PROVE  CompleteInv'
  BY <1>8 DEF StartRun, EndRun, FailRun
<1>9. QED
  BY <1>1, <1>2, <1>3, <1>4, <1>5, <1>6, <1>7, <1>8 DEF SchedulingNext

(* A refresh that did not fail leaves exactly the tasks scheduled that it  *)
(* has read as enabled, but for settings without a future, whatever was    *)
(* edited and run meanwhile.                                               *)
THEOREM RefreshCompleteCorrect == SchedulingSpec => []RefreshIsComplete
<1>1. SchedulingInit => CompleteInv
  BY DEF SchedulingInit, Reading, CompleteInv
<1>2. SchedulingInv /\ CompleteInv => RefreshIsComplete
  BY DEF SchedulingInv, GatheredInv, CompleteInv, RefreshIsComplete
<1>3. QED
  BY <1>1, <1>2, CompleteInvNext, SchedulingInvCorrect, PTL DEF SchedulingSpec

-----------------------------------------------------------------------------
(* Every variable of the two services keeps its type.                      *)
THEOREM ServicesTypeCorrect == JobsSpec /\ SchedulingSpec => []ServicesTypeOK
<1>1. JobsTypeOK /\ SchedulingTypeOK => ServicesTypeOK
  BY DEF ServicesTypeOK
<1>2. QED
  BY <1>1, JobsTypeCorrect, SchedulingTypeCorrect, PTL
=============================================================================
