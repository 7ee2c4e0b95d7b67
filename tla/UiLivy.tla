------------------------------- MODULE UiLivy -------------------------------
(***************************************************************************)
(* The page of a Livy server (views/LivyView.js): its sessions with their  *)
(* statements, and its batches with their logs.                            *)
(*                                                                         *)
(* A list is emptied when it is asked for again.  What a row shows below   *)
(* itself is asked for by a timer, for the place that the row has when it  *)
(* is rendered, and put into the row that has this place when it comes.    *)
(***************************************************************************)
EXTENDS UiLists

CONSTANTS
    Jobs,          \* how many sessions and batches begin; a job is its number
    JobKindOf,        \* whether it is a session or a batch
    MaxPageLists   \* bound: lists of one kind under way at a time

JobKind == {"session", "batch"}

ASSUME LivyAssumption ==
    /\ Jobs \in Nat /\ MaxPageLists \in Nat
    /\ JobKindOf \in [1..Jobs -> JobKind]

VARIABLES
    begun,         \* the jobs that have begun on the server
    running,       \* those it still has
    killed,        \* those that were deleted from this page
    rows,          \* state.sessions and state.batches
    pageLists,     \* lists under way, by kind and number
    below,         \* details under way, by stage: to be asked for by a timer, asked for
    kills,         \* deletions under way
    raced          \* a request failed, or a list was asked for while the list or a detail
                   \* of its kind was under way (history)

livyVars == <<begun, running, killed, rows, pageLists, below, kills, raced>>
-----------------------------------------------------------------------------
(* What a row has below itself: nothing that was asked for, nothing yet,   *)
(* or what was asked for for a job.                                        *)
Unasked == 0
Waiting == Jobs + 1
JobRow == [id : 1..Jobs, shows : 0..Jobs + 1]

NoPageList == [stage |-> "none"]

LivyTypeOK ==
    /\ begun \in 0..Jobs /\ running \subseteq 1..begun /\ killed \subseteq 1..begun
    /\ rows \in [JobKind -> Seq(JobRow)]
    /\ \A k \in JobKind, n \in 1..MaxPageLists :
          \/ pageLists[k][n] \in {NoPageList, [stage |-> "asked"]}
          \/ pageLists[k][n] \in [stage : {"read"}, jobs : SUBSET (1..Jobs)]
    /\ below \subseteq [stage : {"timer", "asked"}, of : 1..Jobs, row : 1..Jobs]
    /\ kills \subseteq [stage : {"sent", "done"}, of : 1..Jobs]
    /\ raced \in BOOLEAN

Loading(k) == \E n \in 1..MaxPageLists : pageLists[k][n] # NoPageList
Detailing(k) == \E d \in below : JobKindOf[d.of] = k
Free(k) == {n \in 1..MaxPageLists : pageLists[k][n] = NoPageList}

(* loadSessions, loadBatches: a list is emptied and asked for anew.        *)
LoadLists(ks) ==
    /\ \A k \in ks : Free(k) # {}
    /\ pageLists' = [k \in JobKind |->
           IF k \in ks THEN [pageLists[k] EXCEPT ![CHOOSE n \in Free(k) : TRUE] = [stage |-> "asked"]]
                       ELSE pageLists[k]]
    /\ rows' = [k \in JobKind |-> IF k \in ks THEN <<>> ELSE rows[k]]
    /\ raced' = (raced \/ \E k \in ks : Loading(k) \/ Detailing(k))

LivyInit ==
    /\ begun = 0 /\ running = {} /\ killed = {}
    /\ rows = [k \in JobKind |-> <<>>]
    /\ pageLists = [k \in JobKind |-> [n \in 1..MaxPageLists |->
                        IF n = 1 THEN [stage |-> "asked"] ELSE NoPageList]]
    /\ below = {} /\ kills = {} /\ raced = FALSE
-----------------------------------------------------------------------------
(* The server: sessions and batches begin and end. *)
JobBegins ==
    /\ begun < Jobs
    /\ begun' = begun + 1
    /\ running' = running \cup {begun'}
    /\ UNCHANGED <<killed, rows, pageLists, below, kills, raced>>

JobEnds(j) ==
    /\ j \in running
    /\ running' = running \ {j}
    /\ UNCHANGED <<begun, killed, rows, pageLists, below, kills, raced>>

(* propsChanged: the object of the page is another one, as after a save. *)
PropsChanged ==
    /\ LoadLists(JobKind)
    /\ UNCHANGED <<begun, running, killed, below, kills>>

(* The server reads a list. *)
JobsRead(k, n) ==
    /\ pageLists[k][n].stage = "asked"
    /\ pageLists' = [pageLists EXCEPT ![k][n] =
           [stage |-> "read", jobs |-> {j \in running : JobKindOf[j] = k}]]
    /\ UNCHANGED <<begun, running, killed, rows, below, kills, raced>>

(* Its answer has them in the order they began. *)
JobsShown(k, n) ==
    /\ pageLists[k][n].stage = "read"
    /\ pageLists' = [pageLists EXCEPT ![k][n] = NoPageList]
    /\ rows' = [rows EXCEPT ![k] =
           LET jobs == InOrder(pageLists[k][n].jobs)
           IN  [i \in DOMAIN jobs |-> [id |-> jobs[i], shows |-> Unasked]]]
    /\ UNCHANGED <<begun, running, killed, below, kills, raced>>
-----------------------------------------------------------------------------
(* renderSession, renderBatch: an open row that has asked for nothing sets *)
(* a timer.  That of a batch takes note of it.                             *)
Expand(k, i) ==
    /\ rows[k][i].shows = Unasked
    /\ below' = below \cup {[stage |-> "timer", of |-> rows[k][i].id, row |-> i]}
    /\ rows' = IF k = "batch" THEN [rows EXCEPT ![k][i].shows = Waiting] ELSE rows
    /\ UNCHANGED <<begun, running, killed, pageLists, kills, raced>>

(* The timer: loadStatements empties the statements of the row first, and  *)
(* asks for none when there is no such row; loadBatchLog only asks.        *)
AskBelow(d) ==
    LET k == JobKindOf[d.of]
        there == d.row \in DOMAIN rows[k]
    IN  /\ d.stage = "timer"
        /\ below' = (below \ {d}) \cup
                        IF k = "session" /\ ~there THEN {} ELSE {[d EXCEPT !.stage = "asked"]}
        /\ rows' = IF k = "session" /\ there THEN [rows EXCEPT ![k][d.row].shows = Waiting] ELSE rows
        /\ UNCHANGED <<begun, running, killed, pageLists, kills, raced>>

(* The answer: it goes to the row at the place of the one that asked. *)
BelowRead(d) ==
    LET k == JobKindOf[d.of]
    IN  /\ d.stage = "asked"
        /\ below' = below \ {d}
        /\ rows' = IF d.row \in DOMAIN rows[k] THEN [rows EXCEPT ![k][d.row].shows = d.of] ELSE rows
        /\ UNCHANGED <<begun, running, killed, pageLists, kills, raced>>
-----------------------------------------------------------------------------
(* killSession, cancelBatch *)
Kill(k, i) ==
    /\ kills' = kills \cup {[stage |-> "sent", of |-> rows[k][i].id]}
    /\ UNCHANGED <<begun, running, killed, rows, pageLists, below, raced>>

Killed(x) ==
    /\ x.stage = "sent" /\ x.of \in running
    /\ kills' = (kills \ {x}) \cup {[x EXCEPT !.stage = "done"]}
    /\ running' = running \ {x.of}
    /\ killed' = killed \cup {x.of}
    /\ UNCHANGED <<begun, rows, pageLists, below, raced>>

(* For the mutation checks: the list is left as it is. *)
KillAnsweredOnly(x) ==
    /\ x.stage = "done"
    /\ kills' = kills \ {x}
    /\ UNCHANGED <<begun, running, killed, rows, pageLists, below, raced>>

(* The answer: the list is asked for again. *)
KillAnswered(x) ==
    /\ x.stage = "done"
    /\ kills' = kills \ {x}
    /\ LoadLists({JobKindOf[x.of]})
    /\ UNCHANGED <<begun, running, killed, below>>

(* A request fails, as one for a job that is gone: nothing follows. *)
LivyRequestFails ==
    /\ raced' = TRUE
    /\ \/ /\ \E k \in JobKind, n \in 1..MaxPageLists :
                 /\ pageLists[k][n] # NoPageList
                 /\ pageLists' = [pageLists EXCEPT ![k][n] = NoPageList]
          /\ UNCHANGED <<below, kills>>
       \/ \E d \in below : d.stage = "asked" /\ below' = below \ {d} /\ UNCHANGED <<pageLists, kills>>
       \/ \E x \in kills : kills' = kills \ {x} /\ UNCHANGED <<pageLists, below>>
    /\ UNCHANGED <<begun, running, killed, rows>>

LivyNext ==
    \/ JobBegins
    \/ \E j \in 1..Jobs : JobEnds(j)
    \/ PropsChanged
    \/ \E k \in JobKind, n \in 1..MaxPageLists : JobsRead(k, n) \/ JobsShown(k, n)
    \/ \E k \in JobKind : \E i \in DOMAIN rows[k] : Expand(k, i) \/ Kill(k, i)
    \/ \E d \in below : AskBelow(d) \/ BelowRead(d)
    \/ \E x \in kills : Killed(x) \/ KillAnswered(x)
    \/ LivyRequestFails

LivySpec == LivyInit /\ [][LivyNext]_livyVars
-----------------------------------------------------------------------------
(* A row has below itself what belongs to its own session or batch; and a  *)
(* list whose answer and whose deletions have all come has none that was   *)
(* deleted from the page, whatever was asked for and deleted together.     *)
(* Provided that no request failed and that a list was asked for neither   *)
(* while one of its kind was under way nor while something for a row was.  *)
JobsAreTheirOwn ==
    ~raced => \A k \in JobKind :
        /\ \A i \in DOMAIN rows[k] : rows[k][i].shows \in {Unasked, Waiting, rows[k][i].id}
        /\ ~Loading(k) /\ (\A x \in kills : JobKindOf[x.of] # k)
              => \A i \in DOMAIN rows[k] : rows[k][i].id \notin killed
=============================================================================
