------------------------------ MODULE LivyJobs ------------------------------
(***************************************************************************)
(* Jobs on a Livy server (livyjobserver: job/LivyJobHandler.java,          *)
(* pool/LivyClientPool.java; mserver: controllers/LivyController.java).    *)
(*                                                                         *)
(* A request borrows a client, which is a session of the Livy server, from *)
(* a pool of at most 8, uploads the jar of the job, and submits the job.   *)
(* submit waits for the result; submitNoWait leaves a listener that gives  *)
(* the client back, and a handle for getStatus.  The pool is that of       *)
(* commons-pool, with its defaults: a borrow waits for a client, and the   *)
(* return of a client that is not lent throws.                             *)
(*                                                                         *)
(* The maps of the handler are HashMaps without a lock: of two puts at the *)
(* same time one may be lost.                                              *)
(***************************************************************************)
EXTENDS FiniteSets

CONSTANTS Job,             \* the requests, each with its job
          Waits,           \* those that are sent to submit
          Client,          \* the clients the pool may have
          NoClient,
          Jar,
          JarOf,
          SubmitMayFail,   \* may a class or a parameter of a job be wrong?
          JobMayFail

ASSUME LivyConstants ==
    /\ Waits \subseteq Job
    /\ NoClient \notin Client
    /\ JarOf \in [Job -> Jar]
    /\ {SubmitMayFail, JobMayFail} \subseteq BOOLEAN

VARIABLES
    idle,            \* the clients in the pool
    lent,            \* the clients given out by the pool
    uploaded,        \* client -> the jars it has
    existingJars,
    activeSessions,  \* job -> client
    jobHandles,
    pc,              \* job -> where its request is
    client,          \* job -> the client its request has borrowed
    state,           \* job -> the state of its handle
    listener         \* job -> its listener

jobsVars == <<idle, lent, uploaded, existingJars, activeSessions, jobHandles, pc, client, state,
          listener>>

maps == <<existingJars, activeSessions, jobHandles>>

JobsInit ==
    /\ idle = {} /\ lent = {}
    /\ uploaded = [c \in Client |-> {}]
    /\ existingJars = {}
    /\ activeSessions = [j \in Job |-> NoClient]
    /\ jobHandles = {}
    /\ pc = [j \in Job |-> "new"]
    /\ client = [j \in Job |-> NoClient]
    /\ state = [j \in Job |-> "none"]
    /\ listener = [j \in Job |-> "none"]
-----------------------------------------------------------------------------
(* The pool: an idle client, or else a new one if there may be more.       *)
Free == IF idle # {} THEN idle ELSE Client \ lent

StaysLent(c) == lent                                            \* mutant

Deallocated(c) == lent \ {c}

ReturnObject(c) ==
    IF c \in lent
    THEN lent' = Deallocated(c) /\ idle' = idle \cup {c}
    ELSE UNCHANGED <<idle, lent>>

GoTo(j, label) == pc' = [pc EXCEPT ![j] = label]

(* A put is lost when another request is at the same line.                 *)
MayBeLost(j, label) == \E k \in Job \ {j} : pc[k] = label

Ended(j) == state[j] \in {"succeeded", "failed"}
-----------------------------------------------------------------------------
Submit(j) ==
    /\ pc[j] = "new"
    /\ GoTo(j, "borrow")
    /\ UNCHANGED <<idle, lent, uploaded, maps, client, state, listener>>

BorrowObject(j) ==
    /\ pc[j] = "borrow"
    /\ \E c \in Free :
          /\ lent' = lent \cup {c}
          /\ idle' = idle \ {c}
          /\ client' = [client EXCEPT ![j] = c]
    /\ GoTo(j, "load")
    /\ UNCHANGED <<uploaded, maps, state, listener>>

(* A jar that some client has got is not uploaded to another one.          *)
LoadJar(j) ==
    /\ pc[j] = "load"
    /\ IF JarOf[j] \in existingJars
       THEN UNCHANGED <<uploaded, existingJars>>
       ELSE /\ uploaded' = [uploaded EXCEPT ![client[j]] = @ \cup {JarOf[j]}]
            /\ existingJars' = existingJars \cup {JarOf[j]}
    /\ GoTo(j, "submit")
    /\ UNCHANGED <<idle, lent, activeSessions, jobHandles, client, state, listener>>

(* An exception of getJobPair: the client is not given back.               *)
SubmitFails(j) ==
    /\ SubmitMayFail
    /\ pc[j] \in {"load", "submit"}
    /\ GoTo(j, "failed")
    /\ UNCHANGED <<idle, lent, uploaded, maps, client, state, listener>>

SubmitJob(j) ==
    /\ pc[j] = "submit"
    /\ state' = [state EXCEPT ![j] = "running"]
    /\ GoTo(j, "session")
    /\ UNCHANGED <<idle, lent, uploaded, maps, client, listener>>

PutSession(j) ==
    /\ pc[j] = "session"
    /\ \/ activeSessions' = [activeSessions EXCEPT ![j] = client[j]]
       \/ MayBeLost(j, "session") /\ UNCHANGED activeSessions
    /\ GoTo(j, IF j \in Waits THEN "wait" ELSE "listen")
    /\ UNCHANGED <<idle, lent, uploaded, existingJars, jobHandles, client, state, listener>>

(* submit: the client is given back after a success.                       *)
GetResult(j) ==
    /\ pc[j] = "wait"
    /\ Ended(j)
    /\ IF state[j] = "succeeded" /\ activeSessions[j] \in lent
       THEN ReturnObject(activeSessions[j]) /\ GoTo(j, "done")
       ELSE GoTo(j, "failed") /\ UNCHANGED <<idle, lent>>
    /\ UNCHANGED <<uploaded, maps, client, state, listener>>

(* submitNoWait: a listener that comes late is told at once.               *)
AddListener(j) ==
    /\ pc[j] = "listen"
    /\ listener' = [listener EXCEPT ![j] = "added"]
    /\ GoTo(j, "handle")
    /\ UNCHANGED <<idle, lent, uploaded, maps, client, state>>

PutHandle(j) ==
    /\ pc[j] = "handle"
    /\ \/ jobHandles' = jobHandles \cup {j}
       \/ MayBeLost(j, "handle") /\ UNCHANGED jobHandles
    /\ GoTo(j, "done")
    /\ UNCHANGED <<idle, lent, uploaded, existingJars, activeSessions, client, state, listener>>

(* The Livy server runs the job; without its jar the job fails.            *)
JobEnds(j) ==
    /\ state[j] = "running"
    /\ \/ /\ JarOf[j] \in uploaded[client[j]]
          /\ state' = [state EXCEPT ![j] = "succeeded"]
       \/ /\ JobMayFail \/ JarOf[j] \notin uploaded[client[j]]
          /\ state' = [state EXCEPT ![j] = "failed"]
    /\ UNCHANGED <<idle, lent, uploaded, maps, pc, client, listener>>

FailuresOnly(j) == state[j] = "failed"                          \* mutant

StartedOrEnded(j) == state[j] # "none"                          \* mutant

(* LivyJobListener: onJobSucceeded, onJobFailed, onJobCancelled.           *)
ListenerReturns(j) == Ended(j)

Notify(j) ==
    /\ listener[j] = "added"
    /\ ListenerReturns(j)
    /\ listener' = [listener EXCEPT ![j] = "called"]
    /\ ReturnObject(client[j])
    /\ UNCHANGED <<uploaded, maps, pc, client, state>>

(* A job that is seen to have failed is forgotten.  Its client is looked   *)
(* up by the text of the handle in a map of handles: nothing is found, and *)
(* the pool throws.  Other calls of getStatus change nothing.              *)
GetStatus(j) ==
    /\ j \in jobHandles
    /\ state[j] = "failed"
    /\ jobHandles' = jobHandles \ {j}
    /\ UNCHANGED <<idle, lent, uploaded, existingJars, activeSessions, pc, client, state, listener>>

Request(j) ==
    \/ BorrowObject(j) \/ LoadJar(j) \/ SubmitFails(j) \/ SubmitJob(j) \/ PutSession(j)
    \/ GetResult(j) \/ AddListener(j) \/ PutHandle(j)

JobsNext == \E j \in Job : Submit(j) \/ Request(j) \/ JobEnds(j) \/ Notify(j) \/ GetStatus(j)

(* A thread of a request goes on, a job ends, and the client of the Livy   *)
(* server polls its state.                                                 *)
JobsFairness ==
    \A j \in Job : WF_jobsVars(Request(j)) /\ WF_jobsVars(JobEnds(j)) /\ WF_jobsVars(Notify(j))

JobsSpec == JobsInit /\ [][JobsNext]_jobsVars /\ JobsFairness
-----------------------------------------------------------------------------
JobsTypeOK ==
    /\ idle \subseteq Client /\ lent \subseteq Client
    /\ idle \cap lent = {}
    /\ uploaded \in [Client -> SUBSET Jar]
    /\ existingJars \subseteq Jar
    /\ activeSessions \in [Job -> Client \cup {NoClient}]
    /\ jobHandles \subseteq Job
    /\ pc \in [Job -> {"new", "borrow", "load", "submit", "session", "wait", "listen", "handle",
                       "done", "failed"}]
    /\ client \in [Job -> Client \cup {NoClient}]
    /\ state \in [Job -> {"none", "running", "succeeded", "failed"}]
    /\ listener \in [Job -> {"none", "added", "called"}]

(* The request or the job still works with the client.                     *)
Uses(j, c) ==
    /\ client[j] = c
    /\ pc[j] \in {"load", "submit"} \/ state[j] = "running"

(* The client will be given back by the request or by its listener.        *)
WillReturn(j, c) ==
    /\ client[j] = c
    /\ pc[j] \in {"load", "submit", "session", "wait", "listen"} \/ listener[j] = "added"

Kept(c) == \E j \in Job : client[j] = c /\ pc[j] = "failed"

(***************************************************************************)
(* A client is not lost to the pool unless a request with it has failed,   *)
(* however the end of its job falls between the submission, the listener   *)
(* and the calls of getStatus.                                             *)
(***************************************************************************)
ClientsComeBack ==
    \A c \in lent : Kept(c) \/ \E j \in Job : WillReturn(j, c)

(***************************************************************************)
(* A client is not given to two requests at a time, and not while a job    *)
(* runs on it: it has one place that returns it, which is the request for  *)
(* a job that was waited for and the listener for any other, however       *)
(* failures, lost puts and ends of jobs fall.                              *)
(***************************************************************************)
ClientsAreExclusive ==
    \A c \in Client : \A j, k \in Job : Uses(j, c) /\ Uses(k, c) => j = k

(***************************************************************************)
(* A request that waits for a client gets one, unless failed requests have *)
(* kept them all.                                                          *)
(***************************************************************************)
RequestsAreServed ==
    \A j \in Job : pc[j] = "borrow" ~> (pc[j] # "borrow" \/ \A c \in Client : Kept(c))
=============================================================================
