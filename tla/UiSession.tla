----------------------------- MODULE UiSession -----------------------------
(***************************************************************************)
(* The requests of the designer to the meta server (Resource.js) and what  *)
(* drives them from App.js, Login.js and BranchesInfo.js: requests that    *)
(* wait for a login, and the branch of the session.  A request is executed *)
(* some time after it was sent, and its answer is handled some time after  *)
(* that: answers come in any order.                                        *)
(***************************************************************************)
EXTENDS Integers, Sequences, SequencesExt, FiniteSets

CONSTANTS
    Request,      \* identities of requests; one is used again once settled
    Attempt,      \* identities of calls of authenticate
    Branch,
    Master,       \* the branch a browser without a stored one asks for
    NoBranch,     \* null: no branch is known, or the request is not about branches
    Look,         \* what a request is for that asks for the branches, or answers with them
    Leave         \* what the request of logout is for

ASSUME SessionAssumption ==
    /\ Master \in Branch
    /\ NoBranch \notin Branch
    /\ Look \notin Branch \cup {NoBranch}
    /\ Leave \notin Branch \cup {NoBranch, Look}
    /\ Request \cap Attempt = {}

VARIABLES
    user,          \* resource.user is defined (App shows its login page when not)
    session,       \* the browser's cookie is that of a live server session
    branch,        \* the branch of that session
    waiting,       \* the requests whose caller has neither an answer nor an error
    target,        \* the branch a request switches to, Look, Leave, NoBranch for other work
    resent,        \* requests that were taken from pending and sent again
    sent,          \* requests the server has not answered
    answers,       \* answers the browser has not handled
    pending,       \* resource.pending
    processes,     \* resource.processes: its size is fetchCount
    logins,        \* the calls of authenticate
    shown,         \* context.branchInfo.current
    stored,        \* localStorage.currentBranch
    executed,      \* how often the server executed each request (history)
    doubtful       \* a switch crossed something else about branches, or failed, or a login
                   \* failed that the server had accepted (history)

sessionVars == <<user, session, branch, waiting, target, resent, sent, answers, pending,
                 processes, logins, shown, stored, executed, doubtful>>

Result == {"ok", "unauthorized", "error"}
Answer == [request : Request, result : Result, branch : Branch \cup {NoBranch}]

SessionTypeOK ==
    /\ user \in BOOLEAN /\ session \in BOOLEAN /\ doubtful \in BOOLEAN
    /\ branch \in Branch /\ {shown, stored} \subseteq Branch \cup {NoBranch}
    /\ waiting \in SUBSET Request /\ resent \in SUBSET waiting /\ sent \in SUBSET waiting
    /\ target \in [Request -> Branch \cup {NoBranch, Look, Leave}]
    /\ answers \in SUBSET Answer
    /\ pending \in Seq(waiting)
    /\ processes \in SUBSET (Request \cup Attempt)
    /\ logins \in [Attempt -> {"idle", "sent", "accepted", "refused"}]
    /\ executed \in [Request -> Nat]

SessionInit ==
    /\ user = FALSE /\ session = FALSE /\ branch = Master
    /\ waiting = {} /\ resent = {} /\ sent = {} /\ answers = {} /\ pending = <<>>
    /\ target = [r \in Request |-> NoBranch]
    /\ logins = [a \in Attempt |-> "idle"]
    /\ processes = {}
    /\ shown = NoBranch /\ stored = NoBranch
    /\ executed = [r \in Request |-> 0]
    /\ doubtful = FALSE

UnderWay(r) == r \in sent \/ \E a \in answers : a.request = r
BranchToAsk == IF stored = NoBranch THEN Master ELSE stored

\* A request about branches that waits, and a new one that is for another branch.
Crosses(q, b) == {target[q], b} \subseteq Branch \cup {Look} /\ target[q] # b

\* New requests: a function from their identities to what they are for.  A switch and
\* another switch or a look that are under way together are noted.
Ask(new) ==
    /\ DOMAIN new \cap waiting = {}
    /\ waiting' = waiting \cup DOMAIN new
    /\ target' = [r \in Request |-> IF r \in DOMAIN new THEN new[r] ELSE target[r]]
    /\ executed' = [r \in Request |-> IF r \in DOMAIN new THEN 0 ELSE executed[r]]
    /\ doubtful' = (doubtful \/ \E r \in DOMAIN new, q \in waiting : Crosses(q, new[r]))

\* The promise of a request is resolved or rejected: nothing is left of it.
Settle(r) ==
    /\ waiting' = waiting \ {r}
    /\ resent' = resent \ {r}
    /\ target' = [target EXCEPT ![r] = NoBranch]
    /\ executed' = [executed EXCEPT ![r] = 0]

-----------------------------------------------------------------------------
(* Requests.                                                               *)

\* The user saves, runs a command, switches the branch (to a new one with CLONE, to the
\* master with DELETE, to the target with MERGE) or asks for the branches (REFRESH_INFO, and
\* what PULL, PUSH and RESET answer); nothing can be asked from the login page.  Menus are disabled while
\* fetchCount > 0, the other commands are not.
Query(r, b) ==
    /\ user
    /\ b \in Branch => shown # NoBranch
    /\ Ask([q \in {r} |-> b])
    /\ sent' = sent \cup {r}
    /\ processes' = processes \cup {r}
    /\ UNCHANGED <<user, session, branch, answers, resent, pending, logins, shown,
                   stored>>

\* The server executes a request of a live session; a switch changes the session's branch,
\* and the answer is the branch of that moment.  Any request may fail in the server, and
\* any answer may be lost on its way.
Execute(r) ==
    /\ r \in sent
    /\ sent' = sent \ {r}
    /\ \/ /\ session \/ target[r] = Leave
          /\ session' = (session /\ target[r] # Leave)
          /\ branch' = IF target[r] \in Branch THEN target[r] ELSE branch
          /\ executed' = [executed EXCEPT ![r] = @ + 1]
          /\ \E x \in {"ok", "error"} :
                 answers' = answers \cup {[request |-> r, result |-> x, branch |-> branch']}
       \/ /\ answers' = answers \cup {[request |-> r, branch |-> NoBranch,
                                       result |-> IF session THEN "error" ELSE "unauthorized"]}
          /\ target[r] = Leave => session
          /\ UNCHANGED <<session, branch, executed>>
    /\ UNCHANGED <<user, waiting, target, resent, pending, processes, logins, shown, stored,
                   doubtful>>

(* For the mutation checks: the answer to a switch is stored and not       *)
(* shown.                                                                  *)
AnswerOkUnshown(a) ==
    /\ a \in answers /\ a.result = "ok"
    /\ answers' = answers \ {a}
    /\ processes' = processes \ {a.request}
    /\ Settle(a.request)
    /\ IF target[a.request] \in Branch \cup {Look}
       THEN /\ shown' = IF shown = NoBranch THEN a.branch ELSE shown
            /\ stored' = a.branch
       ELSE UNCHANGED <<shown, stored>>
    /\ UNCHANGED <<user, session, branch, sent, pending, logins, doubtful>>

\* The browser gets a good answer: the promise is resolved, and a branch that is in it is
\* shown and stored.
AnswerOk(a) ==
    /\ a \in answers /\ a.result = "ok"
    /\ answers' = answers \ {a}
    /\ processes' = processes \ {a.request}
    /\ Settle(a.request)
    /\ IF target[a.request] \in Branch \cup {Look}
       THEN shown' = a.branch /\ stored' = a.branch
       ELSE UNCHANGED <<shown, stored>>
    /\ UNCHANGED <<user, session, branch, sent, pending, logins, doubtful>>

\* A failure is logged and the fetch rejected.  resendPending handles no rejection of what
\* it sent again: the caller of such a request hears nothing more.
AnswerError(a) ==
    /\ a \in answers /\ a.result = "error"
    /\ answers' = answers \ {a}
    /\ processes' = processes \ {a.request}
    /\ IF a.request \in resent THEN UNCHANGED <<waiting, resent, target, executed>>
       ELSE Settle(a.request)
    /\ doubtful' = (doubtful \/ target[a.request] \in Branch)
    /\ UNCHANGED <<user, session, branch, sent, pending, logins, shown, stored>>

(* For the mutation checks: the request that met the 401 is not put off.   *)
AnswerUnauthorizedDropped(a, r) ==
    /\ a \in answers /\ a.result = "unauthorized"
    /\ r # a.request
    /\ answers' = answers \ {a}
    /\ user' = FALSE
    /\ processes' = processes \ {a.request}
    /\ Ask([q \in {r} |-> BranchToAsk])
    /\ pending' = pending \o <<r>>
    /\ UNCHANGED <<session, branch, resent, sent, logins, shown, stored>>

\* A 401 ends the session of the page: the login page is shown, App asks for its branch
\* again, which is put off, and the request is put off too.
AnswerUnauthorized(a, r) ==
    /\ a \in answers /\ a.result = "unauthorized"
    /\ r # a.request
    /\ answers' = answers \ {a}
    /\ user' = FALSE
    /\ processes' = processes \ {a.request}
    /\ Ask([q \in {r} |-> BranchToAsk])
    /\ pending' = pending \o <<r, a.request>>
    /\ UNCHANGED <<session, branch, resent, sent, logins, shown, stored>>

-----------------------------------------------------------------------------
(* Login, logout, the end of a session.                                    *)

\* Enter in a field or a click on the button of the login page, and the first call of App.
Authenticate(a) ==
    /\ ~user
    /\ logins[a] = "idle"
    /\ logins' = [logins EXCEPT ![a] = "sent"]
    /\ processes' = processes \cup {a}
    /\ UNCHANGED <<user, session, branch, waiting, target, resent, sent, answers, pending,
                   shown, stored, executed, doubtful>>

\* The server accepts a password, or the cookie of a live session; a new session starts
\* with the branch its thread had last.
AcceptLogin(a) ==
    /\ logins[a] = "sent"
    /\ logins' = [logins EXCEPT ![a] = "accepted"]
    /\ session' = TRUE
    /\ IF session THEN branch' = branch ELSE branch' \in Branch
    /\ UNCHANGED <<user, waiting, target, resent, sent, answers, pending, processes,
                   shown, stored, executed, doubtful>>

RefuseLogin(a) ==
    /\ logins[a] = "sent" /\ ~session
    /\ logins' = [logins EXCEPT ![a] = "refused"]
    /\ UNCHANGED <<user, session, branch, waiting, target, resent, sent, answers, pending,
                   processes, shown, stored, executed, doubtful>>

(* For the mutation checks: what is pending is sent, and stays pending for *)
(* the next login.                                                         *)
LoggedInTwice(a, r) ==
    /\ logins[a] = "accepted"
    /\ logins' = [logins EXCEPT ![a] = "idle"]
    /\ user' = TRUE
    /\ Ask([q \in {r} |-> BranchToAsk])
    /\ pending' = IF pending = <<>> THEN pending ELSE <<Head(pending)>>
    /\ sent' = sent \cup {r} \cup ToSet(pending)
    /\ resent' = resent \cup ToSet(pending)
    /\ processes' = (processes \ {a}) \cup {r} \cup ToSet(pending)
    /\ UNCHANGED <<session, branch, answers, shown, stored>>

\* The answer of authenticate.  A user: App asks for the stored branch, the web socket is
\* connected (UiStomp), and what is pending is sent again.
LoggedIn(a, r) ==
    /\ logins[a] = "accepted"
    /\ logins' = [logins EXCEPT ![a] = "idle"]
    /\ user' = TRUE
    /\ Ask([q \in {r} |-> BranchToAsk])
    /\ pending' = <<>>
    /\ sent' = sent \cup {r} \cup ToSet(pending)
    /\ resent' = resent \cup ToSet(pending)
    /\ processes' = (processes \ {a}) \cup {r} \cup ToSet(pending)
    /\ UNCHANGED <<session, branch, answers, shown, stored>>

\* No user: a 401, which ends the session of the page and is not put off.
NotLoggedIn(a, r) ==
    /\ logins[a] = "refused"
    /\ logins' = [logins EXCEPT ![a] = "idle"]
    /\ user' = FALSE
    /\ Ask([q \in {r} |-> BranchToAsk])
    /\ pending' = Append(pending, r)
    /\ processes' = processes \ {a}
    /\ UNCHANGED <<session, branch, resent, sent, answers, shown, stored>>

\* Another failure, in the server or of the answer, also after the server has accepted: it is
\* logged, and the page stays as it is.
LoginFails(a) ==
    /\ logins[a] # "idle"
    /\ logins' = [logins EXCEPT ![a] = "idle"]
    /\ processes' = processes \ {a}
    /\ doubtful' = (doubtful \/ logins[a] = "accepted")
    /\ UNCHANGED <<user, session, branch, waiting, target, resent, sent, answers, pending,
                   shown, stored, executed>>

\* The server ends the session: a timeout, or a restart.
Expire ==
    /\ session
    /\ session' = FALSE
    /\ UNCHANGED <<user, branch, waiting, target, resent, sent, answers, pending, processes,
                   logins, shown, stored, executed, doubtful>>

(* For the mutation checks: the request of a logout is not counted.        *)
LogoutUncounted(l, r) ==
    /\ user
    /\ l # r
    /\ user' = FALSE
    /\ Ask([q \in {l, r} |-> IF q = l THEN Leave ELSE BranchToAsk])
    /\ sent' = sent \cup {l}
    /\ pending' = Append(pending, r)
    /\ processes' = processes
    /\ UNCHANGED <<session, branch, resent, answers, logins, shown, stored>>

\* logout does not wait for its request: App asks for its branch without a user, and the
\* web socket is closed (UiStomp).
Logout(l, r) ==
    /\ user
    /\ l # r
    /\ user' = FALSE
    /\ Ask([q \in {l, r} |-> IF q = l THEN Leave ELSE BranchToAsk])
    /\ sent' = sent \cup {l}
    /\ pending' = Append(pending, r)
    /\ processes' = processes \cup {l}
    /\ UNCHANGED <<session, branch, resent, answers, logins, shown, stored>>

SessionNext ==
    \/ \E r \in Request, b \in Branch \cup {NoBranch, Look} : Query(r, b)
    \/ \E r \in Request : Execute(r)
    \/ \E a \in answers : AnswerOk(a) \/ AnswerError(a)
    \/ \E a \in answers, r \in Request : AnswerUnauthorized(a, r)
    \/ \E a \in Attempt : Authenticate(a) \/ AcceptLogin(a) \/ RefuseLogin(a) \/ LoginFails(a)
    \/ \E a \in Attempt, r \in Request : LoggedIn(a, r)
    \/ \E a \in Attempt, r \in Request : NotLoggedIn(a, r)
    \/ Expire
    \/ \E l, r \in Request : Logout(l, r)

SessionSpec == SessionInit /\ [][SessionNext]_sessionVars
-----------------------------------------------------------------------------
(* Properties.                                                             *)

\* A caller that waits is known to somebody: its request is being fetched, waits for a
\* login, or was sent again and failed (resendPending drops that rejection).  Otherwise a
\* view would wait for ever after a session expired.  And loginIfNotLogged, which looks
\* every second, never finds a request to send again: with a user none is pending.
NothingForgotten ==
    /\ user => pending = <<>>
    /\ \A r \in waiting : UnderWay(r) \/ r \in ToSet(pending) \/ r \in resent

\* A request is executed once, however often sessions expire and pending requests are
\* sent again: a second execution would save or commit twice.
ExecutedOnce ==
    \A r \in Request : executed[r] <= 1 /\ (executed[r] = 1 => r \notin sent)

\* fetchCount counts what is being fetched, through failures, 401s and repeated requests:
\* the menus of ViewContainer are disabled exactly then.
BusyIsTrue ==
    processes = {r \in Request : UnderWay(r)} \cup {a \in Attempt : logins[a] # "idle"}

\* When no switch and no accepted login is under way, the branch shown is that of the
\* session, provided that nothing ever crossed a switch and neither a switch nor an accepted
\* login failed: the user commits to the branch the page names.  (A login that was asked for
\* twice may begin another session, with another branch, behind a page that has its user;
\* its answer then switches.)
ShownBranchIsReal ==
    (user /\ session /\ ~doubtful /\ shown # NoBranch
       /\ (\A r \in waiting : target[r] \in Branch => ~UnderWay(r))
       /\ (\A a \in Attempt : logins[a] # "accepted"))
    => shown = branch
=============================================================================
