--------------------------- MODULE UiServerProofs ---------------------------
(***************************************************************************)
(* Proofs about the parts of the page that talk to the server, for every   *)
(* value of their constants: the session and its requests, the web socket, *)
(* the map of a workspace and the page of an object.                       *)
(***************************************************************************)
EXTENDS UiServer, SequenceTheorems, FiniteSetTheorems, TLAPS

-----------------------------------------------------------------------------
(***************************************************************************)
(* The requests of the designer and its session (UiSession).               *)
(*                                                                         *)
(* SessionInv is inductive and carries the properties about requests: an   *)
(* answer belongs to one request that waits and is neither sent nor put    *)
(* off, and what is put off was not executed.  BranchInv is inductive with *)
(* it and carries the property about the branch that is shown.             *)
(***************************************************************************)
\* An answer is the only one to a request that waits, and that is nowhere else.
OneAnswer ==
    \A a \in answers :
        /\ a.request \in waiting /\ a.request \notin sent /\ a.request \notin ToSet(pending)
        /\ \A b \in answers : a.request = b.request => a = b

\* A request that is put off waits and was not executed.
PutOff == \A r \in ToSet(pending) : r \in waiting /\ r \notin sent /\ executed[r] = 0

\* A request that is sent was not executed, nor was one that met a 401.
NotYetExecuted ==
    /\ \A r \in Request : executed[r] <= 1 /\ (r \in sent => executed[r] = 0)
    /\ \A a \in answers : a.result = "unauthorized" => executed[a.request] = 0

\* The inductive invariant of the requests.
SessionInv ==
    SessionTypeOK /\ OneAnswer /\ PutOff /\ NotYetExecuted /\ NothingForgotten /\ BusyIsTrue

\* No call of authenticate that the server accepted is under way.
NoneAccepted == \A a \in Attempt : logins[a] # "accepted"

\* The request switches the branch, or its answer carries the branch.
AboutBranches(r) == target[r] \in Branch \cup {Look}

\* A switch that the server has not executed, or that failed.
Switching(r) ==
    /\ target[r] \in Branch
    /\ r \in sent \/ \E a \in answers : a.request = r /\ a.result # "ok"

\* Requests about branches that wait together are for one branch.
OneBranchAsked ==
    ~doubtful => \A p, q \in waiting :
                     AboutBranches(p) /\ AboutBranches(q) => target[p] = target[q]

\* The good answer to a switch carries the branch it switched to.
SwitchesAnswerTheirBranch ==
    \A a \in answers : a.result = "ok" /\ target[a.request] \in Branch
                        => a.branch = target[a.request]

\* Nothing can change the branch of the session behind what is under way.
Settled ==
    ~doubtful /\ session /\ user /\ NoneAccepted /\ \A r \in waiting : ~Switching(r)

\* Then every answer about branches carries the branch of the session, and the page shows it.
PageFollowsSession ==
    Settled =>
      /\ \A a \in answers : a.result = "ok" /\ AboutBranches(a.request) => a.branch = branch
      /\ (shown # NoBranch /\ \A r \in waiting : target[r] \in Branch => ~UnderWay(r))
         => shown = branch

\* The inductive invariant of the branch.
BranchInv == OneBranchAsked /\ SwitchesAnswerTheirBranch /\ PageFollowsSession

-----------------------------------------------------------------------------
(* What the actions that ask do.                                            *)

\* A single request is new, and what it is for may cross what waits.
LEMMA AskOne ==
  ASSUME SessionTypeOK, NEW r \in Request, NEW b \in Branch \cup {NoBranch, Look, Leave},
         Ask([q \in {r} |-> b])
  PROVE  /\ r \notin waiting /\ waiting' = waiting \cup {r}
         /\ target' = [target EXCEPT ![r] = b]
         /\ executed' = [executed EXCEPT ![r] = 0]
         /\ doubtful' = (doubtful \/ \E q \in waiting : Crosses(q, b))
<1>1. DOMAIN [q \in {r} |-> b] = {r} /\ [q \in {r} |-> b][r] = b
  OBVIOUS
<1>2. r \notin waiting /\ waiting' = waiting \cup {r}
  BY <1>1 DEF Ask
<1>3. target' = [target EXCEPT ![r] = b]
  BY <1>1 DEF Ask, SessionTypeOK
<1>4. executed' = [executed EXCEPT ![r] = 0]
  BY <1>1 DEF Ask, SessionTypeOK
<1>5. doubtful' = (doubtful \/ \E q \in waiting : Crosses(q, b))
  BY <1>1, Zenon DEF Ask
<1>6. QED
  BY <1>2, <1>3, <1>4, <1>5

\* The two requests of a logout: only the second is about branches.
LEMMA AskTwo ==
  ASSUME SessionTypeOK, NEW l \in Request, NEW r \in Request, l # r,
         NEW b \in Branch \cup {NoBranch, Look, Leave}, Ask([q \in {l, r} |-> IF q = l THEN Leave ELSE b])
  PROVE  /\ r \notin waiting /\ l \notin waiting /\ waiting' = waiting \cup {l, r}
         /\ target' = [target EXCEPT ![l] = Leave, ![r] = b]
         /\ executed' = [executed EXCEPT ![l] = 0, ![r] = 0]
         /\ doubtful' = (doubtful \/ \E q \in waiting : Crosses(q, b))
<1> DEFINE new == [q \in {l, r} |-> IF q = l THEN Leave ELSE b]
<1>1. DOMAIN new = {l, r} /\ new[l] = Leave /\ new[r] = b
  OBVIOUS
<1> HIDE DEF new
<1>2. Ask(new)
  BY DEF new
<1>3. r \notin waiting /\ l \notin waiting /\ waiting' = waiting \cup {l, r}
  BY <1>1, <1>2 DEF Ask
<1>4. target' = [target EXCEPT ![l] = Leave, ![r] = b]
  BY <1>1, <1>2 DEF Ask, SessionTypeOK
<1>5. executed' = [executed EXCEPT ![l] = 0, ![r] = 0]
  BY <1>1, <1>2 DEF Ask, SessionTypeOK
<1>6. \A q \in waiting : ~Crosses(q, Leave)
  BY SessionAssumption DEF Crosses
<1>7. doubtful' = (doubtful \/ \E q \in waiting : Crosses(q, b))
  <2>1. doubtful' = (doubtful \/ \E x \in {l, r}, q \in waiting : Crosses(q, new[x]))
    BY <1>1, <1>2, Zenon DEF Ask
  <2>2. QED
    BY <1>1, <1>6, <2>1
<1>8. QED
  BY <1>3, <1>4, <1>5, <1>7

\* The elements of a sequence with one, and with two more at its end.
LEMMA ToSetOfAppend ==
  ASSUME NEW S, NEW s \in Seq(S), NEW x
  PROVE  ToSet(Append(s, x)) = ToSet(s) \cup {x}
<1> DEFINE t == Append(s, x)
<1>0. s \in Seq(S \cup {x}) /\ t \in Seq(S \cup {x})
  OBVIOUS
<1>1. DOMAIN t = 1..(Len(s) + 1) /\ DOMAIN s = 1..Len(s) /\ Len(s) \in Nat
  BY <1>0
<1>2. \A i \in DOMAIN s : t[i] = s[i]
  BY <1>0, <1>1
<1>3. t[Len(s) + 1] = x
  BY <1>0
<1> HIDE DEF t
<1>4. ToSet(t) = ToSet(s) \cup {x}
  BY <1>1, <1>2, <1>3 DEF ToSet
<1>5. QED
  BY <1>4 DEF t

LEMMA ToSetOfTwoMore ==
  ASSUME NEW S, NEW s \in Seq(S), NEW x, NEW y
  PROVE  ToSet(s \o <<x, y>>) = ToSet(s) \cup {x, y}
<1> DEFINE t == s \o <<x, y>>
<1>0. s \in Seq(S \cup {x, y}) /\ <<x, y>> \in Seq(S \cup {x, y})
  OBVIOUS
<1>1. t \in Seq(S \cup {x, y}) /\ Len(t) = Len(s) + 2 /\ Len(s) \in Nat
  BY <1>0
<1>2. DOMAIN t = 1..(Len(s) + 2) /\ DOMAIN s = 1..Len(s)
  BY <1>0, <1>1
<1>3. \A i \in DOMAIN s : t[i] = s[i]
  BY <1>0, <1>2
<1>4. t[Len(s) + 1] = x /\ t[Len(s) + 2] = y
  BY <1>0, <1>1
<1> HIDE DEF t
<1>5. ToSet(t) = ToSet(s) \cup {x, y}
  BY <1>1, <1>2, <1>3, <1>4 DEF ToSet
<1>6. QED
  BY <1>5 DEF t

\* The elements of a sequence over a set are in the set, and the converse.
LEMMA ToSetInside ==
  ASSUME NEW S, NEW s \in Seq(S)
  PROVE  ToSet(s) \subseteq S
BY DEF ToSet

\* What App asks for is a branch.
LEMMA AskedBranch ==
  ASSUME SessionTypeOK
  PROVE  BranchToAsk \in Branch
BY SessionAssumption DEF SessionTypeOK, BranchToAsk

LEMMA QueryEffect ==
  ASSUME SessionTypeOK, NEW r \in Request, NEW b \in Branch \cup {NoBranch, Look}, Query(r, b)
  PROVE  /\ r \notin waiting /\ waiting' = waiting \cup {r}
         /\ target' = [target EXCEPT ![r] = b]
         /\ executed' = [executed EXCEPT ![r] = 0]
         /\ doubtful' = (doubtful \/ \E q \in waiting : Crosses(q, b))
<1>1. Ask([q \in {r} |-> b]) /\ b \in Branch \cup {NoBranch, Look, Leave}
  BY DEF Query
<1>2. QED
  BY ONLY SessionTypeOK, r \in Request, <1>1, AskOne

LEMMA UnauthorizedEffect ==
  ASSUME SessionTypeOK, NEW a \in answers, NEW r \in Request, AnswerUnauthorized(a, r)
  PROVE  /\ r \notin waiting /\ waiting' = waiting \cup {r}
         /\ target' = [target EXCEPT ![r] = BranchToAsk]
         /\ executed' = [executed EXCEPT ![r] = 0]
         /\ doubtful' = (doubtful \/ \E q \in waiting : Crosses(q, BranchToAsk))
         /\ ToSet(pending') = ToSet(pending) \cup {r, a.request}
<1>1. Ask([q \in {r} |-> BranchToAsk]) /\ BranchToAsk \in Branch \cup {NoBranch, Look, Leave}
  BY AskedBranch DEF AnswerUnauthorized
<1>2. pending' = pending \o <<r, a.request>> /\ pending \in Seq(waiting)
  BY DEF AnswerUnauthorized, SessionTypeOK
<1>3. ToSet(pending') = ToSet(pending) \cup {r, a.request}
  <2>1. ToSet(pending \o <<r, a.request>>) = ToSet(pending) \cup {r, a.request}
    BY ONLY <1>2, ToSetOfTwoMore
  <2>2. QED
    BY ONLY <1>2, <2>1
<1>4. QED
  BY ONLY SessionTypeOK, r \in Request, <1>1, <1>3, AskOne

LEMMA LoggedInEffect ==
  ASSUME SessionTypeOK, NEW a \in Attempt, NEW r \in Request, LoggedIn(a, r)
  PROVE  /\ r \notin waiting /\ waiting' = waiting \cup {r}
         /\ target' = [target EXCEPT ![r] = BranchToAsk]
         /\ executed' = [executed EXCEPT ![r] = 0]
         /\ doubtful' = (doubtful \/ \E q \in waiting : Crosses(q, BranchToAsk))
         /\ ToSet(pending') = {}
<1>1. Ask([q \in {r} |-> BranchToAsk]) /\ BranchToAsk \in Branch \cup {NoBranch, Look, Leave}
  BY AskedBranch DEF LoggedIn
<1>2. pending' = <<>>
  BY DEF LoggedIn
<1>3. ToSet(pending') = {}
  BY <1>2 DEF ToSet
<1>4. QED
  BY ONLY SessionTypeOK, r \in Request, <1>1, <1>3, AskOne

LEMMA NotLoggedInEffect ==
  ASSUME SessionTypeOK, NEW a \in Attempt, NEW r \in Request, NotLoggedIn(a, r)
  PROVE  /\ r \notin waiting /\ waiting' = waiting \cup {r}
         /\ target' = [target EXCEPT ![r] = BranchToAsk]
         /\ executed' = [executed EXCEPT ![r] = 0]
         /\ doubtful' = (doubtful \/ \E q \in waiting : Crosses(q, BranchToAsk))
         /\ ToSet(pending') = ToSet(pending) \cup {r}
<1>1. Ask([q \in {r} |-> BranchToAsk]) /\ BranchToAsk \in Branch \cup {NoBranch, Look, Leave}
  BY AskedBranch DEF NotLoggedIn
<1>2. pending' = Append(pending, r) /\ pending \in Seq(waiting)
  BY DEF NotLoggedIn, SessionTypeOK
<1>3. ToSet(pending') = ToSet(pending) \cup {r}
  <2>1. ToSet(Append(pending, r)) = ToSet(pending) \cup {r}
    BY ONLY <1>2, ToSetOfAppend
  <2>2. QED
    BY ONLY <1>2, <2>1
<1>4. QED
  BY ONLY SessionTypeOK, r \in Request, <1>1, <1>3, AskOne

LEMMA LogoutEffect ==
  ASSUME SessionTypeOK, NEW l \in Request, NEW r \in Request, Logout(l, r)
  PROVE  /\ l # r /\ r \notin waiting /\ l \notin waiting /\ waiting' = waiting \cup {l, r}
         /\ target' = [target EXCEPT ![l] = Leave, ![r] = BranchToAsk]
         /\ executed' = [executed EXCEPT ![l] = 0, ![r] = 0]
         /\ doubtful' = (doubtful \/ \E q \in waiting : Crosses(q, BranchToAsk))
         /\ ToSet(pending') = ToSet(pending) \cup {r}
<1>1. /\ Ask([q \in {l, r} |-> IF q = l THEN Leave ELSE BranchToAsk])
      /\ BranchToAsk \in Branch \cup {NoBranch, Look, Leave} /\ l # r
  BY AskedBranch DEF Logout
<1>2. pending' = Append(pending, r) /\ pending \in Seq(waiting)
  BY DEF Logout, SessionTypeOK
<1>3. ToSet(pending') = ToSet(pending) \cup {r}
  <2>1. ToSet(Append(pending, r)) = ToSet(pending) \cup {r}
    BY ONLY <1>2, ToSetOfAppend
  <2>2. QED
    BY ONLY <1>2, <2>1
<1>4. QED
  BY ONLY SessionTypeOK, l \in Request, r \in Request, <1>1, <1>3, AskTwo

LEMMA SeqOfItsElements ==
  ASSUME NEW S, NEW s \in Seq(S), NEW T, ToSet(s) \subseteq T
  PROVE  s \in Seq(T)
<1>1. Len(s) \in Nat /\ DOMAIN s = 1..Len(s) /\ \A i \in 1..Len(s) : s[i] \in T
  BY DEF ToSet
<1>2. QED
  BY <1>1, IsASeq

-----------------------------------------------------------------------------
(* Every step preserves the parts of the inductive invariant.               *)

\* The types.
LEMMA TypeStep ==
  ASSUME SessionTypeOK, OneAnswer, SessionNext
  PROVE  SessionTypeOK'
<1>1. ASSUME NEW r \in Request, NEW b \in Branch \cup {NoBranch, Look}, Query(r, b)
      PROVE  SessionTypeOK'
  <2>1. /\ r \notin waiting /\ waiting' = waiting \cup {r}
        /\ target' = [target EXCEPT ![r] = b]
        /\ executed' = [executed EXCEPT ![r] = 0]
        /\ sent' = sent \cup {r} /\ resent' = resent
        /\ pending' = pending
    BY <1>1, QueryEffect DEF Query
  <2>2. doubtful' \in BOOLEAN
    BY <1>1, QueryEffect
  <2>3. b \in Branch \cup {NoBranch, Look, Leave}
    BY AskedBranch
  <2>4. /\ waiting \subseteq Request /\ resent \subseteq waiting /\ sent \subseteq waiting
        /\ ToSet(pending) \subseteq waiting /\ pending \in Seq(waiting)
        /\ target \in [Request -> Branch \cup {NoBranch, Look, Leave}]
        /\ executed \in [Request -> Nat]
    BY ToSetInside DEF SessionTypeOK
  <2>5. /\ waiting' \in SUBSET Request /\ resent' \in SUBSET waiting' /\ sent' \in SUBSET waiting'
        /\ target' \in [Request -> Branch \cup {NoBranch, Look, Leave}]
        /\ executed' \in [Request -> Nat] /\ pending' \in Seq(waiting')
    BY ONLY <1>1, <2>1, <2>3, <2>4
  <2>6. /\ user' \in BOOLEAN /\ session' \in BOOLEAN
         /\ branch' \in Branch /\ {shown', stored'} \subseteq Branch \cup {NoBranch}
    BY <1>1 DEF Query, SessionTypeOK
  <2>7. /\ answers' \in SUBSET Answer
         /\ processes' \in SUBSET (Request \cup Attempt)
         /\ logins' \in [Attempt -> {"idle", "sent", "accepted", "refused"}]
    BY <1>1, <2>4 DEF Query, SessionTypeOK
  <2>8. QED
    BY ONLY <2>2, <2>5, <2>6, <2>7 DEF SessionTypeOK
<1>2. ASSUME NEW r \in Request, Execute(r)
      PROVE  SessionTypeOK'
  <2>1. /\ user' \in BOOLEAN /\ session' \in BOOLEAN /\ doubtful' \in BOOLEAN
         /\ branch' \in Branch /\ {shown', stored'} \subseteq Branch \cup {NoBranch}
         /\ waiting' \in SUBSET Request /\ resent' \in SUBSET waiting' /\ sent' \in SUBSET waiting'
         /\ target' \in [Request -> Branch \cup {NoBranch, Look, Leave}]
    BY <1>2, OneAnswer DEF Execute, SessionTypeOK, OneAnswer, Answer
  <2>2. /\ answers' \in SUBSET Answer
         /\ processes' \in SUBSET (Request \cup Attempt)
         /\ logins' \in [Attempt -> {"idle", "sent", "accepted", "refused"}]
         /\ executed' \in [Request -> Nat]
    BY <1>2 DEF Execute, SessionTypeOK, Answer, Result
  <2>3. pending' \in Seq(waiting')
    BY <1>2 DEF Execute, SessionTypeOK
  <2>4. QED
    BY ONLY <2>1, <2>2, <2>3 DEF SessionTypeOK
<1>3. ASSUME NEW a \in answers, AnswerOk(a)
      PROVE  SessionTypeOK'
  <2>1. /\ user' \in BOOLEAN /\ session' \in BOOLEAN /\ doubtful' \in BOOLEAN
         /\ branch' \in Branch /\ {shown', stored'} \subseteq Branch \cup {NoBranch}
         /\ waiting' \in SUBSET Request /\ resent' \in SUBSET waiting' /\ sent' \in SUBSET waiting'
         /\ target' \in [Request -> Branch \cup {NoBranch, Look, Leave}]
    BY <1>3, OneAnswer DEF AnswerOk, SessionTypeOK, OneAnswer, Answer, Settle
  <2>2. /\ answers' \in SUBSET Answer
         /\ processes' \in SUBSET (Request \cup Attempt)
         /\ logins' \in [Attempt -> {"idle", "sent", "accepted", "refused"}]
         /\ executed' \in [Request -> Nat]
    BY <1>3 DEF AnswerOk, SessionTypeOK, Answer, Result, Settle
  <2>3. pending' \in Seq(waiting')
    <3>1. ToSet(pending) \subseteq waiting'
      BY <1>3, OneAnswer, ToSetInside DEF AnswerOk, Settle, OneAnswer, SessionTypeOK
    <3>2. pending' = pending
      BY <1>3 DEF AnswerOk
    <3>3. QED
      BY <3>1, <3>2, SeqOfItsElements DEF SessionTypeOK
  <2>4. QED
    BY ONLY <2>1, <2>2, <2>3 DEF SessionTypeOK
<1>4. ASSUME NEW a \in answers, AnswerError(a)
      PROVE  SessionTypeOK'
  <2>1. /\ user' \in BOOLEAN /\ session' \in BOOLEAN /\ doubtful' \in BOOLEAN
         /\ branch' \in Branch /\ {shown', stored'} \subseteq Branch \cup {NoBranch}
         /\ waiting' \in SUBSET Request /\ resent' \in SUBSET waiting' /\ sent' \in SUBSET waiting'
         /\ target' \in [Request -> Branch \cup {NoBranch, Look, Leave}]
    BY <1>4, OneAnswer DEF AnswerError, SessionTypeOK, OneAnswer, Answer, Settle
  <2>2. /\ answers' \in SUBSET Answer
         /\ processes' \in SUBSET (Request \cup Attempt)
         /\ logins' \in [Attempt -> {"idle", "sent", "accepted", "refused"}]
         /\ executed' \in [Request -> Nat]
    BY <1>4 DEF AnswerError, SessionTypeOK, Answer, Result, Settle
  <2>3. pending' \in Seq(waiting')
    <3>1. ToSet(pending) \subseteq waiting'
      BY <1>4, OneAnswer, ToSetInside DEF AnswerError, Settle, OneAnswer, SessionTypeOK
    <3>2. pending' = pending
      BY <1>4 DEF AnswerError
    <3>3. QED
      BY <3>1, <3>2, SeqOfItsElements DEF SessionTypeOK
  <2>4. QED
    BY ONLY <2>1, <2>2, <2>3 DEF SessionTypeOK
<1>5. ASSUME NEW a \in answers, NEW r \in Request, AnswerUnauthorized(a, r)
      PROVE  SessionTypeOK'
  <2>1. /\ r \notin waiting /\ waiting' = waiting \cup {r}
        /\ target' = [target EXCEPT ![r] = BranchToAsk]
        /\ executed' = [executed EXCEPT ![r] = 0]
        /\ sent' = sent /\ resent' = resent
        /\ pending' = pending \o <<r, a.request>>
    BY <1>5, UnauthorizedEffect DEF AnswerUnauthorized
  <2>2. doubtful' \in BOOLEAN
    BY <1>5, UnauthorizedEffect
  <2>3. BranchToAsk \in Branch \cup {NoBranch, Look, Leave}
    BY AskedBranch
  <2>4. /\ waiting \subseteq Request /\ resent \subseteq waiting /\ sent \subseteq waiting
        /\ ToSet(pending) \subseteq waiting /\ pending \in Seq(waiting)
        /\ target \in [Request -> Branch \cup {NoBranch, Look, Leave}]
        /\ executed \in [Request -> Nat]
    BY ToSetInside DEF SessionTypeOK
  <2>9. a.request \in Request /\ a.request \in waiting
    BY OneAnswer DEF SessionTypeOK, Answer, OneAnswer
  <2>5. /\ waiting' \in SUBSET Request /\ resent' \in SUBSET waiting' /\ sent' \in SUBSET waiting'
        /\ target' \in [Request -> Branch \cup {NoBranch, Look, Leave}]
        /\ executed' \in [Request -> Nat] /\ pending' \in Seq(waiting')
    BY ONLY <1>5, <2>1, <2>3, <2>4, <2>9
  <2>6. /\ user' \in BOOLEAN /\ session' \in BOOLEAN
         /\ branch' \in Branch /\ {shown', stored'} \subseteq Branch \cup {NoBranch}
    BY <1>5 DEF AnswerUnauthorized, SessionTypeOK
  <2>7. /\ answers' \in SUBSET Answer
         /\ processes' \in SUBSET (Request \cup Attempt)
         /\ logins' \in [Attempt -> {"idle", "sent", "accepted", "refused"}]
    BY <1>5, <2>4 DEF AnswerUnauthorized, SessionTypeOK
  <2>8. QED
    BY ONLY <2>2, <2>5, <2>6, <2>7 DEF SessionTypeOK
<1>6. ASSUME NEW a \in Attempt, Authenticate(a)
      PROVE  SessionTypeOK'
  <2>1. /\ user' \in BOOLEAN /\ session' \in BOOLEAN /\ doubtful' \in BOOLEAN
         /\ branch' \in Branch /\ {shown', stored'} \subseteq Branch \cup {NoBranch}
         /\ waiting' \in SUBSET Request /\ resent' \in SUBSET waiting' /\ sent' \in SUBSET waiting'
         /\ target' \in [Request -> Branch \cup {NoBranch, Look, Leave}]
    BY <1>6, OneAnswer DEF Authenticate, SessionTypeOK, OneAnswer, Answer
  <2>2. /\ answers' \in SUBSET Answer
         /\ processes' \in SUBSET (Request \cup Attempt)
         /\ logins' \in [Attempt -> {"idle", "sent", "accepted", "refused"}]
         /\ executed' \in [Request -> Nat]
    BY <1>6 DEF Authenticate, SessionTypeOK, Answer, Result
  <2>3. pending' \in Seq(waiting')
    BY <1>6 DEF Authenticate, SessionTypeOK
  <2>4. QED
    BY ONLY <2>1, <2>2, <2>3 DEF SessionTypeOK
<1>7. ASSUME NEW a \in Attempt, AcceptLogin(a)
      PROVE  SessionTypeOK'
  <2>1. /\ user' \in BOOLEAN /\ session' \in BOOLEAN /\ doubtful' \in BOOLEAN
         /\ branch' \in Branch /\ {shown', stored'} \subseteq Branch \cup {NoBranch}
         /\ waiting' \in SUBSET Request /\ resent' \in SUBSET waiting' /\ sent' \in SUBSET waiting'
         /\ target' \in [Request -> Branch \cup {NoBranch, Look, Leave}]
    BY <1>7, OneAnswer DEF AcceptLogin, SessionTypeOK, OneAnswer, Answer
  <2>2. /\ answers' \in SUBSET Answer
         /\ processes' \in SUBSET (Request \cup Attempt)
         /\ logins' \in [Attempt -> {"idle", "sent", "accepted", "refused"}]
         /\ executed' \in [Request -> Nat]
    BY <1>7 DEF AcceptLogin, SessionTypeOK, Answer, Result
  <2>3. pending' \in Seq(waiting')
    BY <1>7 DEF AcceptLogin, SessionTypeOK
  <2>4. QED
    BY ONLY <2>1, <2>2, <2>3 DEF SessionTypeOK
<1>8. ASSUME NEW a \in Attempt, RefuseLogin(a)
      PROVE  SessionTypeOK'
  <2>1. /\ user' \in BOOLEAN /\ session' \in BOOLEAN /\ doubtful' \in BOOLEAN
         /\ branch' \in Branch /\ {shown', stored'} \subseteq Branch \cup {NoBranch}
         /\ waiting' \in SUBSET Request /\ resent' \in SUBSET waiting' /\ sent' \in SUBSET waiting'
         /\ target' \in [Request -> Branch \cup {NoBranch, Look, Leave}]
    BY <1>8, OneAnswer DEF RefuseLogin, SessionTypeOK, OneAnswer, Answer
  <2>2. /\ answers' \in SUBSET Answer
         /\ processes' \in SUBSET (Request \cup Attempt)
         /\ logins' \in [Attempt -> {"idle", "sent", "accepted", "refused"}]
         /\ executed' \in [Request -> Nat]
    BY <1>8 DEF RefuseLogin, SessionTypeOK, Answer, Result
  <2>3. pending' \in Seq(waiting')
    BY <1>8 DEF RefuseLogin, SessionTypeOK
  <2>4. QED
    BY ONLY <2>1, <2>2, <2>3 DEF SessionTypeOK
<1>8f. ASSUME NEW a \in Attempt, LoginFails(a)
      PROVE  SessionTypeOK'
  <2>1. /\ user' \in BOOLEAN /\ session' \in BOOLEAN /\ doubtful' \in BOOLEAN
         /\ branch' \in Branch /\ {shown', stored'} \subseteq Branch \cup {NoBranch}
         /\ waiting' \in SUBSET Request /\ resent' \in SUBSET waiting' /\ sent' \in SUBSET waiting'
         /\ target' \in [Request -> Branch \cup {NoBranch, Look, Leave}]
    BY <1>8f, OneAnswer DEF LoginFails, SessionTypeOK, OneAnswer, Answer
  <2>2. /\ answers' \in SUBSET Answer
         /\ processes' \in SUBSET (Request \cup Attempt)
         /\ logins' \in [Attempt -> {"idle", "sent", "accepted", "refused"}]
         /\ executed' \in [Request -> Nat]
    BY <1>8f DEF LoginFails, SessionTypeOK, Answer, Result
  <2>3. pending' \in Seq(waiting')
    BY <1>8f DEF LoginFails, SessionTypeOK
  <2>4. QED
    BY ONLY <2>1, <2>2, <2>3 DEF SessionTypeOK
<1>9. ASSUME NEW a \in Attempt, NEW r \in Request, LoggedIn(a, r)
      PROVE  SessionTypeOK'
  <2>1. /\ r \notin waiting /\ waiting' = waiting \cup {r}
        /\ target' = [target EXCEPT ![r] = BranchToAsk]
        /\ executed' = [executed EXCEPT ![r] = 0]
        /\ sent' = sent \cup {r} \cup ToSet(pending) /\ resent' = resent \cup ToSet(pending)
        /\ pending' = <<>>
    BY <1>9, LoggedInEffect DEF LoggedIn
  <2>2. doubtful' \in BOOLEAN
    BY <1>9, LoggedInEffect
  <2>3. BranchToAsk \in Branch \cup {NoBranch, Look, Leave}
    BY AskedBranch
  <2>4. /\ waiting \subseteq Request /\ resent \subseteq waiting /\ sent \subseteq waiting
        /\ ToSet(pending) \subseteq waiting /\ pending \in Seq(waiting)
        /\ target \in [Request -> Branch \cup {NoBranch, Look, Leave}]
        /\ executed \in [Request -> Nat]
    BY ToSetInside DEF SessionTypeOK
  <2>5. /\ waiting' \in SUBSET Request /\ resent' \in SUBSET waiting' /\ sent' \in SUBSET waiting'
        /\ target' \in [Request -> Branch \cup {NoBranch, Look, Leave}]
        /\ executed' \in [Request -> Nat] /\ pending' \in Seq(waiting')
    BY ONLY <1>9, <2>1, <2>3, <2>4
  <2>6. /\ user' \in BOOLEAN /\ session' \in BOOLEAN
         /\ branch' \in Branch /\ {shown', stored'} \subseteq Branch \cup {NoBranch}
    BY <1>9 DEF LoggedIn, SessionTypeOK
  <2>7. /\ answers' \in SUBSET Answer
         /\ processes' \in SUBSET (Request \cup Attempt)
         /\ logins' \in [Attempt -> {"idle", "sent", "accepted", "refused"}]
    BY <1>9, <2>4 DEF LoggedIn, SessionTypeOK
  <2>8. QED
    BY ONLY <2>2, <2>5, <2>6, <2>7 DEF SessionTypeOK
<1>10. ASSUME NEW a \in Attempt, NEW r \in Request, NotLoggedIn(a, r)
      PROVE  SessionTypeOK'
  <2>1. /\ r \notin waiting /\ waiting' = waiting \cup {r}
        /\ target' = [target EXCEPT ![r] = BranchToAsk]
        /\ executed' = [executed EXCEPT ![r] = 0]
        /\ sent' = sent /\ resent' = resent
        /\ pending' = Append(pending, r)
    BY <1>10, NotLoggedInEffect DEF NotLoggedIn
  <2>2. doubtful' \in BOOLEAN
    BY <1>10, NotLoggedInEffect
  <2>3. BranchToAsk \in Branch \cup {NoBranch, Look, Leave}
    BY AskedBranch
  <2>4. /\ waiting \subseteq Request /\ resent \subseteq waiting /\ sent \subseteq waiting
        /\ ToSet(pending) \subseteq waiting /\ pending \in Seq(waiting)
        /\ target \in [Request -> Branch \cup {NoBranch, Look, Leave}]
        /\ executed \in [Request -> Nat]
    BY ToSetInside DEF SessionTypeOK
  <2>5. /\ waiting' \in SUBSET Request /\ resent' \in SUBSET waiting' /\ sent' \in SUBSET waiting'
        /\ target' \in [Request -> Branch \cup {NoBranch, Look, Leave}]
        /\ executed' \in [Request -> Nat] /\ pending' \in Seq(waiting')
    BY ONLY <1>10, <2>1, <2>3, <2>4
  <2>6. /\ user' \in BOOLEAN /\ session' \in BOOLEAN
         /\ branch' \in Branch /\ {shown', stored'} \subseteq Branch \cup {NoBranch}
    BY <1>10 DEF NotLoggedIn, SessionTypeOK
  <2>7. /\ answers' \in SUBSET Answer
         /\ processes' \in SUBSET (Request \cup Attempt)
         /\ logins' \in [Attempt -> {"idle", "sent", "accepted", "refused"}]
    BY <1>10, <2>4 DEF NotLoggedIn, SessionTypeOK
  <2>8. QED
    BY ONLY <2>2, <2>5, <2>6, <2>7 DEF SessionTypeOK
<1>11. ASSUME Expire
      PROVE  SessionTypeOK'
  <2>1. /\ user' \in BOOLEAN /\ session' \in BOOLEAN /\ doubtful' \in BOOLEAN
         /\ branch' \in Branch /\ {shown', stored'} \subseteq Branch \cup {NoBranch}
         /\ waiting' \in SUBSET Request /\ resent' \in SUBSET waiting' /\ sent' \in SUBSET waiting'
         /\ target' \in [Request -> Branch \cup {NoBranch, Look, Leave}]
    BY <1>11, OneAnswer DEF Expire, SessionTypeOK, OneAnswer, Answer
  <2>2. /\ answers' \in SUBSET Answer
         /\ processes' \in SUBSET (Request \cup Attempt)
         /\ logins' \in [Attempt -> {"idle", "sent", "accepted", "refused"}]
         /\ executed' \in [Request -> Nat]
    BY <1>11 DEF Expire, SessionTypeOK, Answer, Result
  <2>3. pending' \in Seq(waiting')
    BY <1>11 DEF Expire, SessionTypeOK
  <2>4. QED
    BY ONLY <2>1, <2>2, <2>3 DEF SessionTypeOK
<1>12. ASSUME NEW l \in Request, NEW r \in Request, Logout(l, r)
      PROVE  SessionTypeOK'
  <2>1. /\ l # r /\ r \notin waiting /\ l \notin waiting /\ waiting' = waiting \cup {l, r}
        /\ target' = [target EXCEPT ![l] = Leave, ![r] = BranchToAsk]
        /\ executed' = [executed EXCEPT ![l] = 0, ![r] = 0]
        /\ sent' = sent \cup {l} /\ resent' = resent
        /\ pending' = Append(pending, r)
    BY <1>12, LogoutEffect DEF Logout
  <2>2. doubtful' \in BOOLEAN
    BY <1>12, LogoutEffect
  <2>3. BranchToAsk \in Branch \cup {NoBranch, Look, Leave}
    BY AskedBranch
  <2>4. /\ waiting \subseteq Request /\ resent \subseteq waiting /\ sent \subseteq waiting
        /\ ToSet(pending) \subseteq waiting /\ pending \in Seq(waiting)
        /\ target \in [Request -> Branch \cup {NoBranch, Look, Leave}]
        /\ executed \in [Request -> Nat]
    BY ToSetInside DEF SessionTypeOK
  <2>5. /\ waiting' \in SUBSET Request /\ resent' \in SUBSET waiting' /\ sent' \in SUBSET waiting'
        /\ target' \in [Request -> Branch \cup {NoBranch, Look, Leave}]
        /\ executed' \in [Request -> Nat] /\ pending' \in Seq(waiting')
    <3>1. /\ waiting' \in SUBSET Request /\ resent' \in SUBSET waiting' /\ sent' \in SUBSET waiting'
      BY ONLY <1>12, <2>1, <2>4
    <3>2. /\ target' \in [Request -> Branch \cup {NoBranch, Look, Leave}]
      BY ONLY <1>12, <2>1, <2>3, <2>4
    <3>3. executed' \in [Request -> Nat]
      BY ONLY <1>12, <2>1, <2>4
    <3>4. pending' \in Seq(waiting')
      BY ONLY <1>12, <2>1, <2>4
    <3>5. QED
      BY ONLY <3>1, <3>2, <3>3, <3>4
  <2>6. /\ user' \in BOOLEAN /\ session' \in BOOLEAN
         /\ branch' \in Branch /\ {shown', stored'} \subseteq Branch \cup {NoBranch}
    BY <1>12 DEF Logout, SessionTypeOK
  <2>7. /\ answers' \in SUBSET Answer
         /\ processes' \in SUBSET (Request \cup Attempt)
         /\ logins' \in [Attempt -> {"idle", "sent", "accepted", "refused"}]
    BY <1>12, <2>4 DEF Logout, SessionTypeOK
  <2>8. QED
    BY ONLY <2>2, <2>5, <2>6, <2>7 DEF SessionTypeOK
<1>13. QED
  BY <1>1, <1>2, <1>3, <1>4, <1>5, <1>6, <1>7, <1>8, <1>8f, <1>9, <1>10, <1>11, <1>12
     DEF SessionNext
\* One answer to a request: a step takes it from sent when it puts it in answers.
LEMMA OneStep ==
  ASSUME SessionTypeOK, OneAnswer, PutOff, SessionNext
  PROVE  OneAnswer'
<1>0. /\ sent \subseteq waiting /\ resent \subseteq waiting /\ waiting \subseteq Request
      /\ Request \cap Attempt = {} /\ logins \in [Attempt -> {"idle", "sent", "accepted", "refused"}]
      /\ executed \in [Request -> Nat] /\ \A x \in answers : x.request \in Request
  BY SessionAssumption DEF SessionTypeOK, Answer
<1>1. ASSUME NEW r \in Request, NEW b \in Branch \cup {NoBranch, Look}, Query(r, b)
      PROVE  OneAnswer'
  <2>1. /\ answers' = answers
        /\ r \notin waiting /\ waiting' = waiting \cup {r}
        /\ sent' = sent \cup {r}
        /\ pending' = pending /\ ToSet(pending') = ToSet(pending)
    BY <1>1, QueryEffect DEF Query
  <2>2. QED
    BY ONLY <1>0, <1>1, <2>1, OneAnswer, PutOff DEF OneAnswer, PutOff
<1>2. ASSUME NEW r \in Request, Execute(r)
      PROVE  OneAnswer'
  BY <1>0, <1>2 DEF Execute, OneAnswer, PutOff
<1>3. ASSUME NEW a \in answers, AnswerOk(a)
      PROVE  OneAnswer'
  <2>1. /\ answers' = answers \ {a}
        /\ waiting' = waiting \ {a.request}
        /\ sent' = sent
        /\ pending' = pending /\ ToSet(pending') = ToSet(pending)
    BY <1>3 DEF AnswerOk, Settle
  <2>2. QED
    BY ONLY <1>0, <1>3, <2>1, OneAnswer, PutOff DEF OneAnswer, PutOff
<1>4. ASSUME NEW a \in answers, AnswerError(a)
      PROVE  OneAnswer'
  BY <1>0, <1>4 DEF AnswerError, OneAnswer, PutOff, Settle
<1>5. ASSUME NEW a \in answers, NEW r \in Request, AnswerUnauthorized(a, r)
      PROVE  OneAnswer'
  <2>1. /\ a.result = "unauthorized" /\ answers' = answers \ {a}
        /\ r \notin waiting /\ waiting' = waiting \cup {r}
        /\ sent' = sent
        /\ ToSet(pending') = ToSet(pending) \cup {r, a.request}
    BY <1>5, UnauthorizedEffect DEF AnswerUnauthorized
  <2>2. QED
    BY ONLY <1>0, <1>5, <2>1, OneAnswer, PutOff DEF OneAnswer, PutOff
<1>6. ASSUME NEW a \in Attempt, Authenticate(a)
      PROVE  OneAnswer'
  <2>1. /\ answers' = answers
        /\ waiting' = waiting
        /\ sent' = sent
        /\ pending' = pending /\ ToSet(pending') = ToSet(pending)
    BY <1>6 DEF Authenticate
  <2>2. QED
    BY ONLY <1>0, <1>6, <2>1, OneAnswer, PutOff DEF OneAnswer, PutOff
<1>7. ASSUME NEW a \in Attempt, AcceptLogin(a)
      PROVE  OneAnswer'
  <2>1. /\ answers' = answers
        /\ waiting' = waiting
        /\ sent' = sent
        /\ pending' = pending /\ ToSet(pending') = ToSet(pending)
    BY <1>7 DEF AcceptLogin
  <2>2. QED
    BY ONLY <1>0, <1>7, <2>1, OneAnswer, PutOff DEF OneAnswer, PutOff
<1>8. ASSUME NEW a \in Attempt, RefuseLogin(a)
      PROVE  OneAnswer'
  <2>1. /\ answers' = answers
        /\ waiting' = waiting
        /\ sent' = sent
        /\ pending' = pending /\ ToSet(pending') = ToSet(pending)
    BY <1>8 DEF RefuseLogin
  <2>2. QED
    BY ONLY <1>0, <1>8, <2>1, OneAnswer, PutOff DEF OneAnswer, PutOff
<1>8f. ASSUME NEW a \in Attempt, LoginFails(a)
      PROVE  OneAnswer'
  <2>1. /\ answers' = answers
        /\ waiting' = waiting
        /\ sent' = sent
        /\ pending' = pending /\ ToSet(pending') = ToSet(pending)
    BY <1>8f DEF LoginFails
  <2>2. QED
    BY ONLY <1>0, <1>8f, <2>1, OneAnswer, PutOff DEF OneAnswer, PutOff
<1>9. ASSUME NEW a \in Attempt, NEW r \in Request, LoggedIn(a, r)
      PROVE  OneAnswer'
  <2>1. /\ answers' = answers
        /\ r \notin waiting /\ waiting' = waiting \cup {r}
        /\ sent' = sent \cup {r} \cup ToSet(pending)
        /\ pending' = <<>> /\ ToSet(pending') = {}
    BY <1>9, LoggedInEffect DEF LoggedIn
  <2>2. QED
    BY ONLY <1>0, <1>9, <2>1, OneAnswer, PutOff DEF OneAnswer, PutOff
<1>10. ASSUME NEW a \in Attempt, NEW r \in Request, NotLoggedIn(a, r)
      PROVE  OneAnswer'
  <2>1. /\ answers' = answers
        /\ r \notin waiting /\ waiting' = waiting \cup {r}
        /\ sent' = sent
        /\ ToSet(pending') = ToSet(pending) \cup {r}
    BY <1>10, NotLoggedInEffect DEF NotLoggedIn
  <2>2. QED
    BY ONLY <1>0, <1>10, <2>1, OneAnswer, PutOff DEF OneAnswer, PutOff
<1>11. ASSUME Expire
      PROVE  OneAnswer'
  <2>1. /\ answers' = answers
        /\ waiting' = waiting
        /\ sent' = sent
        /\ pending' = pending /\ ToSet(pending') = ToSet(pending)
    BY <1>11 DEF Expire
  <2>2. QED
    BY ONLY <1>0, <1>11, <2>1, OneAnswer, PutOff DEF OneAnswer, PutOff
<1>12. ASSUME NEW l \in Request, NEW r \in Request, Logout(l, r)
      PROVE  OneAnswer'
  <2>1. /\ answers' = answers
        /\ l # r /\ r \notin waiting /\ l \notin waiting /\ waiting' = waiting \cup {l, r}
        /\ sent' = sent \cup {l}
        /\ ToSet(pending') = ToSet(pending) \cup {r}
    BY <1>12, LogoutEffect DEF Logout
  <2>2. QED
    BY ONLY <1>0, <1>12, <2>1, OneAnswer, PutOff DEF OneAnswer, PutOff
<1>13. QED
  BY <1>1, <1>2, <1>3, <1>4, <1>5, <1>6, <1>7, <1>8, <1>8f, <1>9, <1>10, <1>11, <1>12
     DEF SessionNext

\* What is put off comes from a 401, or is new.
LEMMA PutOffStep ==
  ASSUME SessionTypeOK, OneAnswer, PutOff, NotYetExecuted, SessionNext
  PROVE  PutOff'
<1>0. /\ sent \subseteq waiting /\ resent \subseteq waiting /\ waiting \subseteq Request
      /\ Request \cap Attempt = {} /\ logins \in [Attempt -> {"idle", "sent", "accepted", "refused"}]
      /\ executed \in [Request -> Nat] /\ \A x \in answers : x.request \in Request
  BY SessionAssumption DEF SessionTypeOK, Answer
<1>1. ASSUME NEW r \in Request, NEW b \in Branch \cup {NoBranch, Look}, Query(r, b)
      PROVE  PutOff'
  <2>1. /\ answers' = answers
        /\ r \notin waiting /\ waiting' = waiting \cup {r}
        /\ sent' = sent \cup {r}
        /\ pending' = pending /\ ToSet(pending') = ToSet(pending)
        /\ executed' = [executed EXCEPT ![r] = 0]
    BY <1>1, QueryEffect DEF Query
  <2>2. QED
    BY ONLY <1>0, <1>1, <2>1, OneAnswer, PutOff, NotYetExecuted DEF OneAnswer, PutOff, NotYetExecuted
<1>2. ASSUME NEW r \in Request, Execute(r)
      PROVE  PutOff'
  BY <1>0, <1>2 DEF Execute, OneAnswer, PutOff, NotYetExecuted
<1>3. ASSUME NEW a \in answers, AnswerOk(a)
      PROVE  PutOff'
  <2>1. /\ answers' = answers \ {a}
        /\ waiting' = waiting \ {a.request}
        /\ sent' = sent
        /\ pending' = pending /\ ToSet(pending') = ToSet(pending)
        /\ executed' = [executed EXCEPT ![a.request] = 0]
    BY <1>3 DEF AnswerOk, Settle
  <2>2. QED
    BY ONLY <1>0, <1>3, <2>1, OneAnswer, PutOff, NotYetExecuted DEF OneAnswer, PutOff, NotYetExecuted
<1>4. ASSUME NEW a \in answers, AnswerError(a)
      PROVE  PutOff'
  BY <1>0, <1>4 DEF AnswerError, OneAnswer, PutOff, NotYetExecuted, Settle
<1>5. ASSUME NEW a \in answers, NEW r \in Request, AnswerUnauthorized(a, r)
      PROVE  PutOff'
  <2>1. /\ a.result = "unauthorized" /\ answers' = answers \ {a}
        /\ r \notin waiting /\ waiting' = waiting \cup {r}
        /\ sent' = sent
        /\ ToSet(pending') = ToSet(pending) \cup {r, a.request}
        /\ executed' = [executed EXCEPT ![r] = 0]
    BY <1>5, UnauthorizedEffect DEF AnswerUnauthorized
  <2>2. QED
    BY ONLY <1>0, <1>5, <2>1, OneAnswer, PutOff, NotYetExecuted DEF OneAnswer, PutOff, NotYetExecuted
<1>6. ASSUME NEW a \in Attempt, Authenticate(a)
      PROVE  PutOff'
  <2>1. /\ answers' = answers
        /\ waiting' = waiting
        /\ sent' = sent
        /\ pending' = pending /\ ToSet(pending') = ToSet(pending)
        /\ executed' = executed
    BY <1>6 DEF Authenticate
  <2>2. QED
    BY ONLY <1>0, <1>6, <2>1, OneAnswer, PutOff, NotYetExecuted DEF OneAnswer, PutOff, NotYetExecuted
<1>7. ASSUME NEW a \in Attempt, AcceptLogin(a)
      PROVE  PutOff'
  <2>1. /\ answers' = answers
        /\ waiting' = waiting
        /\ sent' = sent
        /\ pending' = pending /\ ToSet(pending') = ToSet(pending)
        /\ executed' = executed
    BY <1>7 DEF AcceptLogin
  <2>2. QED
    BY ONLY <1>0, <1>7, <2>1, OneAnswer, PutOff, NotYetExecuted DEF OneAnswer, PutOff, NotYetExecuted
<1>8. ASSUME NEW a \in Attempt, RefuseLogin(a)
      PROVE  PutOff'
  <2>1. /\ answers' = answers
        /\ waiting' = waiting
        /\ sent' = sent
        /\ pending' = pending /\ ToSet(pending') = ToSet(pending)
        /\ executed' = executed
    BY <1>8 DEF RefuseLogin
  <2>2. QED
    BY ONLY <1>0, <1>8, <2>1, OneAnswer, PutOff, NotYetExecuted DEF OneAnswer, PutOff, NotYetExecuted
<1>8f. ASSUME NEW a \in Attempt, LoginFails(a)
      PROVE  PutOff'
  <2>1. /\ answers' = answers
        /\ waiting' = waiting
        /\ sent' = sent
        /\ pending' = pending /\ ToSet(pending') = ToSet(pending)
        /\ executed' = executed
    BY <1>8f DEF LoginFails
  <2>2. QED
    BY ONLY <1>0, <1>8f, <2>1, OneAnswer, PutOff, NotYetExecuted DEF OneAnswer, PutOff, NotYetExecuted
<1>9. ASSUME NEW a \in Attempt, NEW r \in Request, LoggedIn(a, r)
      PROVE  PutOff'
  <2>1. /\ answers' = answers
        /\ r \notin waiting /\ waiting' = waiting \cup {r}
        /\ sent' = sent \cup {r} \cup ToSet(pending)
        /\ pending' = <<>> /\ ToSet(pending') = {}
        /\ executed' = [executed EXCEPT ![r] = 0]
    BY <1>9, LoggedInEffect DEF LoggedIn
  <2>2. QED
    BY ONLY <1>0, <1>9, <2>1, OneAnswer, PutOff, NotYetExecuted DEF OneAnswer, PutOff, NotYetExecuted
<1>10. ASSUME NEW a \in Attempt, NEW r \in Request, NotLoggedIn(a, r)
      PROVE  PutOff'
  <2>1. /\ answers' = answers
        /\ r \notin waiting /\ waiting' = waiting \cup {r}
        /\ sent' = sent
        /\ ToSet(pending') = ToSet(pending) \cup {r}
        /\ executed' = [executed EXCEPT ![r] = 0]
    BY <1>10, NotLoggedInEffect DEF NotLoggedIn
  <2>2. QED
    BY ONLY <1>0, <1>10, <2>1, OneAnswer, PutOff, NotYetExecuted DEF OneAnswer, PutOff, NotYetExecuted
<1>11. ASSUME Expire
      PROVE  PutOff'
  <2>1. /\ answers' = answers
        /\ waiting' = waiting
        /\ sent' = sent
        /\ pending' = pending /\ ToSet(pending') = ToSet(pending)
        /\ executed' = executed
    BY <1>11 DEF Expire
  <2>2. QED
    BY ONLY <1>0, <1>11, <2>1, OneAnswer, PutOff, NotYetExecuted DEF OneAnswer, PutOff, NotYetExecuted
<1>12. ASSUME NEW l \in Request, NEW r \in Request, Logout(l, r)
      PROVE  PutOff'
  <2>1. /\ answers' = answers
        /\ l # r /\ r \notin waiting /\ l \notin waiting /\ waiting' = waiting \cup {l, r}
        /\ sent' = sent \cup {l}
        /\ ToSet(pending') = ToSet(pending) \cup {r}
        /\ executed' = [executed EXCEPT ![l] = 0, ![r] = 0]
    BY <1>12, LogoutEffect DEF Logout
  <2>2. QED
    BY ONLY <1>0, <1>12, <2>1, OneAnswer, PutOff, NotYetExecuted DEF OneAnswer, PutOff, NotYetExecuted
<1>13. QED
  BY <1>1, <1>2, <1>3, <1>4, <1>5, <1>6, <1>7, <1>8, <1>8f, <1>9, <1>10, <1>11, <1>12
     DEF SessionNext

\* Only what was sent is executed, and it is not sent any more.
LEMMA ExecutedStep ==
  ASSUME SessionTypeOK, OneAnswer, PutOff, NotYetExecuted, SessionNext
  PROVE  NotYetExecuted'
<1>0. /\ sent \subseteq waiting /\ resent \subseteq waiting /\ waiting \subseteq Request
      /\ Request \cap Attempt = {} /\ logins \in [Attempt -> {"idle", "sent", "accepted", "refused"}]
      /\ executed \in [Request -> Nat] /\ \A x \in answers : x.request \in Request
  BY SessionAssumption DEF SessionTypeOK, Answer
<1>1. ASSUME NEW r \in Request, NEW b \in Branch \cup {NoBranch, Look}, Query(r, b)
      PROVE  NotYetExecuted'
  <2>1. /\ answers' = answers
        /\ r \notin waiting /\ waiting' = waiting \cup {r}
        /\ sent' = sent \cup {r}
        /\ pending' = pending /\ ToSet(pending') = ToSet(pending)
        /\ executed' = [executed EXCEPT ![r] = 0]
    BY <1>1, QueryEffect DEF Query
  <2>2. QED
    BY ONLY <1>0, <1>1, <2>1, OneAnswer, PutOff, NotYetExecuted DEF OneAnswer, PutOff, NotYetExecuted
<1>2. ASSUME NEW r \in Request, Execute(r)
      PROVE  NotYetExecuted'
  BY <1>0, <1>2 DEF Execute, OneAnswer, PutOff, NotYetExecuted
<1>3. ASSUME NEW a \in answers, AnswerOk(a)
      PROVE  NotYetExecuted'
  <2>1. /\ answers' = answers \ {a}
        /\ waiting' = waiting \ {a.request}
        /\ sent' = sent
        /\ pending' = pending /\ ToSet(pending') = ToSet(pending)
        /\ executed' = [executed EXCEPT ![a.request] = 0]
    BY <1>3 DEF AnswerOk, Settle
  <2>2. QED
    BY ONLY <1>0, <1>3, <2>1, OneAnswer, PutOff, NotYetExecuted DEF OneAnswer, PutOff, NotYetExecuted
<1>4. ASSUME NEW a \in answers, AnswerError(a)
      PROVE  NotYetExecuted'
  BY <1>0, <1>4 DEF AnswerError, OneAnswer, PutOff, NotYetExecuted, Settle
<1>5. ASSUME NEW a \in answers, NEW r \in Request, AnswerUnauthorized(a, r)
      PROVE  NotYetExecuted'
  <2>1. /\ a.result = "unauthorized" /\ answers' = answers \ {a}
        /\ r \notin waiting /\ waiting' = waiting \cup {r}
        /\ sent' = sent
        /\ ToSet(pending') = ToSet(pending) \cup {r, a.request}
        /\ executed' = [executed EXCEPT ![r] = 0]
    BY <1>5, UnauthorizedEffect DEF AnswerUnauthorized
  <2>2. QED
    BY ONLY <1>0, <1>5, <2>1, OneAnswer, PutOff, NotYetExecuted DEF OneAnswer, PutOff, NotYetExecuted
<1>6. ASSUME NEW a \in Attempt, Authenticate(a)
      PROVE  NotYetExecuted'
  <2>1. /\ answers' = answers
        /\ waiting' = waiting
        /\ sent' = sent
        /\ pending' = pending /\ ToSet(pending') = ToSet(pending)
        /\ executed' = executed
    BY <1>6 DEF Authenticate
  <2>2. QED
    BY ONLY <1>0, <1>6, <2>1, OneAnswer, PutOff, NotYetExecuted DEF OneAnswer, PutOff, NotYetExecuted
<1>7. ASSUME NEW a \in Attempt, AcceptLogin(a)
      PROVE  NotYetExecuted'
  <2>1. /\ answers' = answers
        /\ waiting' = waiting
        /\ sent' = sent
        /\ pending' = pending /\ ToSet(pending') = ToSet(pending)
        /\ executed' = executed
    BY <1>7 DEF AcceptLogin
  <2>2. QED
    BY ONLY <1>0, <1>7, <2>1, OneAnswer, PutOff, NotYetExecuted DEF OneAnswer, PutOff, NotYetExecuted
<1>8. ASSUME NEW a \in Attempt, RefuseLogin(a)
      PROVE  NotYetExecuted'
  <2>1. /\ answers' = answers
        /\ waiting' = waiting
        /\ sent' = sent
        /\ pending' = pending /\ ToSet(pending') = ToSet(pending)
        /\ executed' = executed
    BY <1>8 DEF RefuseLogin
  <2>2. QED
    BY ONLY <1>0, <1>8, <2>1, OneAnswer, PutOff, NotYetExecuted DEF OneAnswer, PutOff, NotYetExecuted
<1>8f. ASSUME NEW a \in Attempt, LoginFails(a)
      PROVE  NotYetExecuted'
  <2>1. /\ answers' = answers
        /\ waiting' = waiting
        /\ sent' = sent
        /\ pending' = pending /\ ToSet(pending') = ToSet(pending)
        /\ executed' = executed
    BY <1>8f DEF LoginFails
  <2>2. QED
    BY ONLY <1>0, <1>8f, <2>1, OneAnswer, PutOff, NotYetExecuted DEF OneAnswer, PutOff, NotYetExecuted
<1>9. ASSUME NEW a \in Attempt, NEW r \in Request, LoggedIn(a, r)
      PROVE  NotYetExecuted'
  <2>1. /\ answers' = answers
        /\ r \notin waiting /\ waiting' = waiting \cup {r}
        /\ sent' = sent \cup {r} \cup ToSet(pending)
        /\ pending' = <<>> /\ ToSet(pending') = {}
        /\ executed' = [executed EXCEPT ![r] = 0]
    BY <1>9, LoggedInEffect DEF LoggedIn
  <2>2. QED
    BY ONLY <1>0, <1>9, <2>1, OneAnswer, PutOff, NotYetExecuted DEF OneAnswer, PutOff, NotYetExecuted
<1>10. ASSUME NEW a \in Attempt, NEW r \in Request, NotLoggedIn(a, r)
      PROVE  NotYetExecuted'
  <2>1. /\ answers' = answers
        /\ r \notin waiting /\ waiting' = waiting \cup {r}
        /\ sent' = sent
        /\ ToSet(pending') = ToSet(pending) \cup {r}
        /\ executed' = [executed EXCEPT ![r] = 0]
    BY <1>10, NotLoggedInEffect DEF NotLoggedIn
  <2>2. QED
    BY ONLY <1>0, <1>10, <2>1, OneAnswer, PutOff, NotYetExecuted DEF OneAnswer, PutOff, NotYetExecuted
<1>11. ASSUME Expire
      PROVE  NotYetExecuted'
  <2>1. /\ answers' = answers
        /\ waiting' = waiting
        /\ sent' = sent
        /\ pending' = pending /\ ToSet(pending') = ToSet(pending)
        /\ executed' = executed
    BY <1>11 DEF Expire
  <2>2. QED
    BY ONLY <1>0, <1>11, <2>1, OneAnswer, PutOff, NotYetExecuted DEF OneAnswer, PutOff, NotYetExecuted
<1>12. ASSUME NEW l \in Request, NEW r \in Request, Logout(l, r)
      PROVE  NotYetExecuted'
  <2>1. /\ answers' = answers
        /\ l # r /\ r \notin waiting /\ l \notin waiting /\ waiting' = waiting \cup {l, r}
        /\ sent' = sent \cup {l}
        /\ ToSet(pending') = ToSet(pending) \cup {r}
        /\ executed' = [executed EXCEPT ![l] = 0, ![r] = 0]
    BY <1>12, LogoutEffect DEF Logout
  <2>2. QED
    BY ONLY <1>0, <1>12, <2>1, OneAnswer, PutOff, NotYetExecuted DEF OneAnswer, PutOff, NotYetExecuted
<1>13. QED
  BY <1>1, <1>2, <1>3, <1>4, <1>5, <1>6, <1>7, <1>8, <1>8f, <1>9, <1>10, <1>11, <1>12
     DEF SessionNext

\* No step takes a request from all of sent, answers, pending and resent.
LEMMA ForgottenStep ==
  ASSUME SessionTypeOK, OneAnswer, NothingForgotten, SessionNext
  PROVE  NothingForgotten'
<1>0. /\ sent \subseteq waiting /\ resent \subseteq waiting /\ waiting \subseteq Request
      /\ Request \cap Attempt = {} /\ logins \in [Attempt -> {"idle", "sent", "accepted", "refused"}]
      /\ executed \in [Request -> Nat] /\ \A x \in answers : x.request \in Request
  BY SessionAssumption DEF SessionTypeOK, Answer
<1>1. ASSUME NEW r \in Request, NEW b \in Branch \cup {NoBranch, Look}, Query(r, b)
      PROVE  NothingForgotten'
  <2>1. /\ answers' = answers
        /\ r \notin waiting /\ waiting' = waiting \cup {r}
        /\ sent' = sent \cup {r}
        /\ pending' = pending /\ ToSet(pending') = ToSet(pending)
        /\ resent' = resent
        /\ user /\ user' = user
    BY <1>1, QueryEffect DEF Query
  <2>2. QED
    BY ONLY <1>0, <1>1, <2>1, OneAnswer, NothingForgotten DEF OneAnswer, NothingForgotten, UnderWay
<1>2. ASSUME NEW r \in Request, Execute(r)
      PROVE  NothingForgotten'
  <2>1. PICK x \in Result, b \in Branch \cup {NoBranch} :
               answers' = answers \cup {[request |-> r, result |-> x, branch |-> b]}
    BY <1>2 DEF Execute, Result, SessionTypeOK
  <2>2. \A q : UnderWay(q)' <=> UnderWay(q)
    <3>1. r \in sent /\ sent' = sent \ {r}
      BY <1>2 DEF Execute
    <3> DEFINE z == [request |-> r, result |-> x, branch |-> b]
    <3>2. z.request = r /\ answers' = answers \cup {z}
      BY <2>1
    <3> HIDE DEF z
    <3>3. QED
      BY ONLY <3>1, <3>2 DEF UnderWay
  <2>3. UNCHANGED <<waiting, pending, resent, user, processes, logins>>
    BY <1>2 DEF Execute
  <2>4. QED
    BY ONLY <2>2, <2>3, NothingForgotten DEF NothingForgotten
<1>3. ASSUME NEW a \in answers, AnswerOk(a)
      PROVE  NothingForgotten'
  <2>1. /\ answers' = answers \ {a}
        /\ waiting' = waiting \ {a.request}
        /\ sent' = sent
        /\ pending' = pending /\ ToSet(pending') = ToSet(pending)
        /\ resent' = resent \ {a.request}
        /\ user' = user
    BY <1>3 DEF AnswerOk, Settle
  <2>2. QED
    BY ONLY <1>0, <1>3, <2>1, OneAnswer, NothingForgotten DEF OneAnswer, NothingForgotten, UnderWay
<1>4. ASSUME NEW a \in answers, AnswerError(a)
      PROVE  NothingForgotten'
  BY <1>0, <1>4 DEF AnswerError, OneAnswer, NothingForgotten, UnderWay, Settle
<1>5. ASSUME NEW a \in answers, NEW r \in Request, AnswerUnauthorized(a, r)
      PROVE  NothingForgotten'
  <2>1. /\ a.result = "unauthorized" /\ answers' = answers \ {a}
        /\ r \notin waiting /\ waiting' = waiting \cup {r}
        /\ sent' = sent
        /\ ToSet(pending') = ToSet(pending) \cup {r, a.request}
        /\ resent' = resent
        /\ user' = FALSE
    BY <1>5, UnauthorizedEffect DEF AnswerUnauthorized
  <2>2. QED
    BY ONLY <1>0, <1>5, <2>1, OneAnswer, NothingForgotten DEF OneAnswer, NothingForgotten, UnderWay
<1>6. ASSUME NEW a \in Attempt, Authenticate(a)
      PROVE  NothingForgotten'
  <2>1. /\ answers' = answers
        /\ waiting' = waiting
        /\ sent' = sent
        /\ pending' = pending /\ ToSet(pending') = ToSet(pending)
        /\ resent' = resent
        /\ ~user /\ user' = user
    BY <1>6 DEF Authenticate
  <2>2. QED
    BY ONLY <1>0, <1>6, <2>1, OneAnswer, NothingForgotten DEF OneAnswer, NothingForgotten, UnderWay
<1>7. ASSUME NEW a \in Attempt, AcceptLogin(a)
      PROVE  NothingForgotten'
  <2>1. /\ answers' = answers
        /\ waiting' = waiting
        /\ sent' = sent
        /\ pending' = pending /\ ToSet(pending') = ToSet(pending)
        /\ resent' = resent
        /\ user' = user
    BY <1>7 DEF AcceptLogin
  <2>2. QED
    BY ONLY <1>0, <1>7, <2>1, OneAnswer, NothingForgotten DEF OneAnswer, NothingForgotten, UnderWay
<1>8. ASSUME NEW a \in Attempt, RefuseLogin(a)
      PROVE  NothingForgotten'
  <2>1. /\ answers' = answers
        /\ waiting' = waiting
        /\ sent' = sent
        /\ pending' = pending /\ ToSet(pending') = ToSet(pending)
        /\ resent' = resent
        /\ user' = user
    BY <1>8 DEF RefuseLogin
  <2>2. QED
    BY ONLY <1>0, <1>8, <2>1, OneAnswer, NothingForgotten DEF OneAnswer, NothingForgotten, UnderWay
<1>8f. ASSUME NEW a \in Attempt, LoginFails(a)
      PROVE  NothingForgotten'
  <2>1. /\ answers' = answers
        /\ waiting' = waiting
        /\ sent' = sent
        /\ pending' = pending /\ ToSet(pending') = ToSet(pending)
        /\ resent' = resent
        /\ user' = user
    BY <1>8f DEF LoginFails
  <2>2. QED
    BY ONLY <1>0, <1>8f, <2>1, OneAnswer, NothingForgotten DEF OneAnswer, NothingForgotten, UnderWay
<1>9. ASSUME NEW a \in Attempt, NEW r \in Request, LoggedIn(a, r)
      PROVE  NothingForgotten'
  <2>1. /\ answers' = answers
        /\ r \notin waiting /\ waiting' = waiting \cup {r}
        /\ sent' = sent \cup {r} \cup ToSet(pending)
        /\ pending' = <<>> /\ ToSet(pending') = {}
        /\ resent' = resent \cup ToSet(pending)
        /\ user' = TRUE
    BY <1>9, LoggedInEffect DEF LoggedIn
  <2>2. QED
    BY ONLY <1>0, <1>9, <2>1, OneAnswer, NothingForgotten DEF OneAnswer, NothingForgotten, UnderWay
<1>10. ASSUME NEW a \in Attempt, NEW r \in Request, NotLoggedIn(a, r)
      PROVE  NothingForgotten'
  <2>1. /\ answers' = answers
        /\ r \notin waiting /\ waiting' = waiting \cup {r}
        /\ sent' = sent
        /\ ToSet(pending') = ToSet(pending) \cup {r}
        /\ resent' = resent
        /\ user' = FALSE
    BY <1>10, NotLoggedInEffect DEF NotLoggedIn
  <2>2. QED
    BY ONLY <1>0, <1>10, <2>1, OneAnswer, NothingForgotten DEF OneAnswer, NothingForgotten, UnderWay
<1>11. ASSUME Expire
      PROVE  NothingForgotten'
  <2>1. /\ answers' = answers
        /\ waiting' = waiting
        /\ sent' = sent
        /\ pending' = pending /\ ToSet(pending') = ToSet(pending)
        /\ resent' = resent
        /\ user' = user
    BY <1>11 DEF Expire
  <2>2. QED
    BY ONLY <1>0, <1>11, <2>1, OneAnswer, NothingForgotten DEF OneAnswer, NothingForgotten, UnderWay
<1>12. ASSUME NEW l \in Request, NEW r \in Request, Logout(l, r)
      PROVE  NothingForgotten'
  <2>1. /\ answers' = answers
        /\ l # r /\ r \notin waiting /\ l \notin waiting /\ waiting' = waiting \cup {l, r}
        /\ sent' = sent \cup {l}
        /\ ToSet(pending') = ToSet(pending) \cup {r}
        /\ resent' = resent
        /\ user' = FALSE
    BY <1>12, LogoutEffect DEF Logout
  <2>2. QED
    BY ONLY <1>0, <1>12, <2>1, OneAnswer, NothingForgotten DEF OneAnswer, NothingForgotten, UnderWay
<1>13. QED
  BY <1>1, <1>2, <1>3, <1>4, <1>5, <1>6, <1>7, <1>8, <1>8f, <1>9, <1>10, <1>11, <1>12
     DEF SessionNext

\* Every step that starts or ends a fetch changes processes.
LEMMA BusyStep ==
  ASSUME SessionTypeOK, OneAnswer, PutOff, BusyIsTrue, SessionNext
  PROVE  BusyIsTrue'
<1>0. /\ sent \subseteq waiting /\ resent \subseteq waiting /\ waiting \subseteq Request
      /\ Request \cap Attempt = {} /\ logins \in [Attempt -> {"idle", "sent", "accepted", "refused"}]
      /\ executed \in [Request -> Nat] /\ \A x \in answers : x.request \in Request
  BY SessionAssumption DEF SessionTypeOK, Answer
<1>1. ASSUME NEW r \in Request, NEW b \in Branch \cup {NoBranch, Look}, Query(r, b)
      PROVE  BusyIsTrue'
  <2>1. /\ answers' = answers
        /\ r \notin waiting /\ waiting' = waiting \cup {r}
        /\ sent' = sent \cup {r}
        /\ pending' = pending /\ ToSet(pending') = ToSet(pending)
        /\ processes' = processes \cup {r}
        /\ logins' = logins
    BY <1>1, QueryEffect DEF Query
  <2>2. QED
    BY ONLY <1>0, <1>1, <2>1, OneAnswer, PutOff, BusyIsTrue DEF OneAnswer, PutOff, BusyIsTrue, UnderWay
<1>2. ASSUME NEW r \in Request, Execute(r)
      PROVE  BusyIsTrue'
  <2>1. PICK x \in Result, b \in Branch \cup {NoBranch} :
               answers' = answers \cup {[request |-> r, result |-> x, branch |-> b]}
    BY <1>2 DEF Execute, Result, SessionTypeOK
  <2>2. \A q : UnderWay(q)' <=> UnderWay(q)
    <3>1. r \in sent /\ sent' = sent \ {r}
      BY <1>2 DEF Execute
    <3> DEFINE z == [request |-> r, result |-> x, branch |-> b]
    <3>2. z.request = r /\ answers' = answers \cup {z}
      BY <2>1
    <3> HIDE DEF z
    <3>3. QED
      BY ONLY <3>1, <3>2 DEF UnderWay
  <2>3. UNCHANGED <<waiting, pending, resent, user, processes, logins>>
    BY <1>2 DEF Execute
  <2>4. QED
    BY ONLY <2>2, <2>3, BusyIsTrue DEF BusyIsTrue
<1>3. ASSUME NEW a \in answers, AnswerOk(a)
      PROVE  BusyIsTrue'
  <2>1. /\ answers' = answers \ {a}
        /\ waiting' = waiting \ {a.request}
        /\ sent' = sent
        /\ pending' = pending /\ ToSet(pending') = ToSet(pending)
        /\ processes' = processes \ {a.request}
        /\ logins' = logins
    BY <1>3 DEF AnswerOk, Settle
  <2>2. QED
    BY ONLY <1>0, <1>3, <2>1, OneAnswer, PutOff, BusyIsTrue DEF OneAnswer, PutOff, BusyIsTrue, UnderWay
<1>4. ASSUME NEW a \in answers, AnswerError(a)
      PROVE  BusyIsTrue'
  BY <1>0, <1>4 DEF AnswerError, OneAnswer, PutOff, BusyIsTrue, UnderWay, Settle
<1>5. ASSUME NEW a \in answers, NEW r \in Request, AnswerUnauthorized(a, r)
      PROVE  BusyIsTrue'
  <2>1. /\ a.result = "unauthorized" /\ answers' = answers \ {a}
        /\ r \notin waiting /\ waiting' = waiting \cup {r}
        /\ sent' = sent
        /\ ToSet(pending') = ToSet(pending) \cup {r, a.request}
        /\ processes' = processes \ {a.request}
        /\ logins' = logins
    BY <1>5, UnauthorizedEffect DEF AnswerUnauthorized
  <2>2. QED
    BY ONLY <1>0, <1>5, <2>1, OneAnswer, PutOff, BusyIsTrue DEF OneAnswer, PutOff, BusyIsTrue, UnderWay
<1>6. ASSUME NEW a \in Attempt, Authenticate(a)
      PROVE  BusyIsTrue'
  <2>1. /\ answers' = answers
        /\ waiting' = waiting
        /\ sent' = sent
        /\ pending' = pending /\ ToSet(pending') = ToSet(pending)
        /\ processes' = processes \cup {a}
        /\ logins' = [logins EXCEPT ![a] = "sent"]
    BY <1>6 DEF Authenticate
  <2>2. QED
    BY ONLY <1>0, <1>6, <2>1, OneAnswer, PutOff, BusyIsTrue DEF OneAnswer, PutOff, BusyIsTrue, UnderWay
<1>7. ASSUME NEW a \in Attempt, AcceptLogin(a)
      PROVE  BusyIsTrue'
  <2>1. /\ answers' = answers
        /\ waiting' = waiting
        /\ sent' = sent
        /\ pending' = pending /\ ToSet(pending') = ToSet(pending)
        /\ processes' = processes
        /\ logins[a] # "idle" /\ logins' = [logins EXCEPT ![a] = "accepted"]
    BY <1>7 DEF AcceptLogin
  <2>2. QED
    BY ONLY <1>0, <1>7, <2>1, OneAnswer, PutOff, BusyIsTrue DEF OneAnswer, PutOff, BusyIsTrue, UnderWay
<1>8. ASSUME NEW a \in Attempt, RefuseLogin(a)
      PROVE  BusyIsTrue'
  <2>1. /\ answers' = answers
        /\ waiting' = waiting
        /\ sent' = sent
        /\ pending' = pending /\ ToSet(pending') = ToSet(pending)
        /\ processes' = processes
        /\ logins[a] # "idle" /\ logins' = [logins EXCEPT ![a] = "refused"]
    BY <1>8 DEF RefuseLogin
  <2>2. QED
    BY ONLY <1>0, <1>8, <2>1, OneAnswer, PutOff, BusyIsTrue DEF OneAnswer, PutOff, BusyIsTrue, UnderWay
<1>8f. ASSUME NEW a \in Attempt, LoginFails(a)
      PROVE  BusyIsTrue'
  <2>1. /\ answers' = answers
        /\ waiting' = waiting
        /\ sent' = sent
        /\ pending' = pending /\ ToSet(pending') = ToSet(pending)
        /\ processes' = processes \ {a}
        /\ logins[a] # "idle" /\ logins' = [logins EXCEPT ![a] = "idle"]
    BY <1>8f DEF LoginFails
  <2>2. QED
    BY ONLY <1>0, <1>8f, <2>1, OneAnswer, PutOff, BusyIsTrue DEF OneAnswer, PutOff, BusyIsTrue, UnderWay
<1>9. ASSUME NEW a \in Attempt, NEW r \in Request, LoggedIn(a, r)
      PROVE  BusyIsTrue'
  <2>1. /\ answers' = answers
        /\ r \notin waiting /\ waiting' = waiting \cup {r}
        /\ sent' = sent \cup {r} \cup ToSet(pending)
        /\ pending' = <<>> /\ ToSet(pending') = {}
        /\ processes' = (processes \ {a}) \cup {r} \cup ToSet(pending)
        /\ logins' = [logins EXCEPT ![a] = "idle"]
    BY <1>9, LoggedInEffect DEF LoggedIn
  <2>2. QED
    BY ONLY <1>0, <1>9, <2>1, OneAnswer, PutOff, BusyIsTrue DEF OneAnswer, PutOff, BusyIsTrue, UnderWay
<1>10. ASSUME NEW a \in Attempt, NEW r \in Request, NotLoggedIn(a, r)
      PROVE  BusyIsTrue'
  <2>1. /\ answers' = answers
        /\ r \notin waiting /\ waiting' = waiting \cup {r}
        /\ sent' = sent
        /\ ToSet(pending') = ToSet(pending) \cup {r}
        /\ processes' = processes \ {a}
        /\ logins' = [logins EXCEPT ![a] = "idle"]
    BY <1>10, NotLoggedInEffect DEF NotLoggedIn
  <2>2. QED
    BY ONLY <1>0, <1>10, <2>1, OneAnswer, PutOff, BusyIsTrue DEF OneAnswer, PutOff, BusyIsTrue, UnderWay
<1>11. ASSUME Expire
      PROVE  BusyIsTrue'
  <2>1. /\ answers' = answers
        /\ waiting' = waiting
        /\ sent' = sent
        /\ pending' = pending /\ ToSet(pending') = ToSet(pending)
        /\ processes' = processes
        /\ logins' = logins
    BY <1>11 DEF Expire
  <2>2. QED
    BY ONLY <1>0, <1>11, <2>1, OneAnswer, PutOff, BusyIsTrue DEF OneAnswer, PutOff, BusyIsTrue, UnderWay
<1>12. ASSUME NEW l \in Request, NEW r \in Request, Logout(l, r)
      PROVE  BusyIsTrue'
  <2>1. /\ answers' = answers
        /\ l # r /\ r \notin waiting /\ l \notin waiting /\ waiting' = waiting \cup {l, r}
        /\ sent' = sent \cup {l}
        /\ ToSet(pending') = ToSet(pending) \cup {r}
        /\ processes' = processes \cup {l}
        /\ logins' = logins
    BY <1>12, LogoutEffect DEF Logout
  <2>2. QED
    BY ONLY <1>0, <1>12, <2>1, OneAnswer, PutOff, BusyIsTrue DEF OneAnswer, PutOff, BusyIsTrue, UnderWay
<1>13. QED
  BY <1>1, <1>2, <1>3, <1>4, <1>5, <1>6, <1>7, <1>8, <1>8f, <1>9, <1>10, <1>11, <1>12
     DEF SessionNext

\* The answer the server makes when it executes a request, and the branch it leaves.
LEMMA ExecuteEffect ==
  ASSUME SessionTypeOK, NEW r \in Request, Execute(r)
  PROVE  \E z \in Answer :
           /\ answers' = answers \cup {z} /\ z.request = r
           /\ z.result = "ok" => z.branch = branch' /\ (session \/ target[r] = Leave)
           /\ z.result = "ok" /\ target[r] \in Branch => z.branch = target[r]
           /\ \/ branch' = branch
              \/ target[r] \in Branch /\ branch' = target[r]
           /\ target[r] = Leave /\ session' => z.result # "ok"
           /\ session' => session
<1> DEFINE P(z) == /\ answers' = answers \cup {z} /\ z.request = r
                   /\ z.result = "ok" => z.branch = branch' /\ (session \/ target[r] = Leave)
                   /\ z.result = "ok" /\ target[r] \in Branch => z.branch = target[r]
                   /\ \/ branch' = branch
                      \/ target[r] \in Branch /\ branch' = target[r]
                   /\ target[r] = Leave /\ session' => z.result # "ok"
                   /\ session' => session
<1>0. branch \in Branch
  BY DEF SessionTypeOK
<1>1. CASE /\ session \/ target[r] = Leave
           /\ session' = (session /\ target[r] # Leave)
           /\ branch' = IF target[r] \in Branch THEN target[r] ELSE branch
           /\ \E x \in {"ok", "error"} :
                  answers' = answers \cup {[request |-> r, result |-> x, branch |-> branch']}
  <2>1. PICK x \in {"ok", "error"} :
               answers' = answers \cup {[request |-> r, result |-> x, branch |-> branch']}
    BY <1>1
  <2> DEFINE z == [request |-> r, result |-> x, branch |-> branch']
  <2>2. branch' \in Branch /\ z \in Answer
    BY <1>0, <1>1 DEF Answer, Result
  <2>3. z.request = r /\ z.result = x /\ z.branch = branch' /\ answers' = answers \cup {z}
    BY <2>1
  <2> HIDE DEF z
  <2>4. P(z)
    BY <1>1, <2>3
  <2>5. QED
    BY <2>2, <2>4
<1>2. CASE /\ answers' = answers \cup {[request |-> r, branch |-> NoBranch,
                                  result |-> IF session THEN "error" ELSE "unauthorized"]}
           /\ UNCHANGED <<session, branch>>
  <2> DEFINE z == [request |-> r, branch |-> NoBranch,
                   result |-> IF session THEN "error" ELSE "unauthorized"]
  <2>1. z \in Answer /\ z.request = r /\ z.result # "ok" /\ answers' = answers \cup {z}
    BY <1>2 DEF Answer, Result
  <2> HIDE DEF z
  <2>2. P(z)
    BY <1>2, <2>1
  <2>3. QED
    BY <2>1, <2>2
<1>3. QED
  BY <1>1, <1>2 DEF Execute

\* New requests that cross what waits are noted.
LEMMA OneBranchStep ==
  ASSUME SessionTypeOK, OneAnswer, OneBranchAsked, SessionNext
  PROVE  OneBranchAsked'
<1>0. /\ sent \subseteq waiting /\ waiting \subseteq Request
      /\ target \in [Request -> Branch \cup {NoBranch, Look, Leave}]
      /\ \A x \in answers : x.request \in waiting
      /\ Look \notin Branch /\ Leave \notin Branch \cup {Look} /\ NoBranch \notin Branch
  BY SessionAssumption, OneAnswer DEF SessionTypeOK, OneAnswer
<1>1. ASSUME NEW r \in Request, NEW b \in Branch \cup {NoBranch, Look}, Query(r, b)
      PROVE  OneBranchAsked'
  <2>1. /\ r \notin waiting /\ waiting' = waiting \cup {r}
        /\ target' = [target EXCEPT ![r] = b]
        /\ doubtful' = (doubtful \/ \E q \in waiting : Crosses(q, b))
    BY <1>1, QueryEffect
  <2>2. ~doubtful' => ~doubtful /\ \A q \in waiting : ~Crosses(q, b)
    BY ONLY <2>1, Zenon
  <2>3. QED
    BY ONLY <1>0, <1>1, <2>1, <2>2, OneBranchAsked DEF OneBranchAsked, AboutBranches, Crosses
<1>2. ASSUME NEW r \in Request, Execute(r)
      PROVE  OneBranchAsked'
  <2>1. UNCHANGED <<waiting, target, doubtful>>
    BY <1>2 DEF Execute
  <2>2. QED
    BY ONLY <2>1, OneBranchAsked DEF OneBranchAsked, AboutBranches
<1>3. ASSUME NEW a \in answers, AnswerOk(a)
      PROVE  OneBranchAsked'
  <2>1. /\ waiting' \subseteq waiting /\ \A q \in waiting' : target'[q] = target[q]
        /\ ~doubtful' => ~doubtful
    BY <1>0, <1>3 DEF AnswerOk, Settle
  <2>2. QED
    BY ONLY <2>1, OneBranchAsked DEF OneBranchAsked, AboutBranches
<1>4. ASSUME NEW a \in answers, AnswerError(a)
      PROVE  OneBranchAsked'
  <2>1. /\ waiting' \subseteq waiting /\ \A q \in waiting' : target'[q] = target[q]
        /\ ~doubtful' => ~doubtful
    BY <1>0, <1>4 DEF AnswerError, Settle
  <2>2. QED
    BY ONLY <2>1, OneBranchAsked DEF OneBranchAsked, AboutBranches
<1>5. ASSUME NEW a \in answers, NEW r \in Request, AnswerUnauthorized(a, r)
      PROVE  OneBranchAsked'
  <2>1. /\ r \notin waiting /\ waiting' = waiting \cup {r}
        /\ target' = [target EXCEPT ![r] = BranchToAsk]
        /\ doubtful' = (doubtful \/ \E q \in waiting : Crosses(q, BranchToAsk))
    BY <1>5, UnauthorizedEffect
  <2>2. ~doubtful' => ~doubtful /\ \A q \in waiting : ~Crosses(q, BranchToAsk)
    BY ONLY <2>1, Zenon
  <2>3. QED
    BY ONLY <1>0, <1>5, <2>1, <2>2, OneBranchAsked DEF OneBranchAsked, AboutBranches, Crosses
<1>6. ASSUME NEW a \in Attempt, Authenticate(a)
      PROVE  OneBranchAsked'
  <2>1. UNCHANGED <<waiting, target, doubtful>>
    BY <1>6 DEF Authenticate
  <2>2. QED
    BY ONLY <2>1, OneBranchAsked DEF OneBranchAsked, AboutBranches
<1>7. ASSUME NEW a \in Attempt, AcceptLogin(a)
      PROVE  OneBranchAsked'
  <2>1. UNCHANGED <<waiting, target, doubtful>>
    BY <1>7 DEF AcceptLogin
  <2>2. QED
    BY ONLY <2>1, OneBranchAsked DEF OneBranchAsked, AboutBranches
<1>8. ASSUME NEW a \in Attempt, RefuseLogin(a)
      PROVE  OneBranchAsked'
  <2>1. UNCHANGED <<waiting, target, doubtful>>
    BY <1>8 DEF RefuseLogin
  <2>2. QED
    BY ONLY <2>1, OneBranchAsked DEF OneBranchAsked, AboutBranches
<1>8f. ASSUME NEW a \in Attempt, LoginFails(a)
      PROVE  OneBranchAsked'
  <2>1. UNCHANGED <<waiting, target>> /\ (~doubtful' => ~doubtful)
    BY <1>8f DEF LoginFails
  <2>2. QED
    BY ONLY <2>1, OneBranchAsked DEF OneBranchAsked, AboutBranches
<1>9. ASSUME NEW a \in Attempt, NEW r \in Request, LoggedIn(a, r)
      PROVE  OneBranchAsked'
  <2>1. /\ r \notin waiting /\ waiting' = waiting \cup {r}
        /\ target' = [target EXCEPT ![r] = BranchToAsk]
        /\ doubtful' = (doubtful \/ \E q \in waiting : Crosses(q, BranchToAsk))
    BY <1>9, LoggedInEffect
  <2>2. ~doubtful' => ~doubtful /\ \A q \in waiting : ~Crosses(q, BranchToAsk)
    BY ONLY <2>1, Zenon
  <2>3. QED
    BY ONLY <1>0, <1>9, <2>1, <2>2, OneBranchAsked DEF OneBranchAsked, AboutBranches, Crosses
<1>10. ASSUME NEW a \in Attempt, NEW r \in Request, NotLoggedIn(a, r)
      PROVE  OneBranchAsked'
  <2>1. /\ r \notin waiting /\ waiting' = waiting \cup {r}
        /\ target' = [target EXCEPT ![r] = BranchToAsk]
        /\ doubtful' = (doubtful \/ \E q \in waiting : Crosses(q, BranchToAsk))
    BY <1>10, NotLoggedInEffect
  <2>2. ~doubtful' => ~doubtful /\ \A q \in waiting : ~Crosses(q, BranchToAsk)
    BY ONLY <2>1, Zenon
  <2>3. QED
    BY ONLY <1>0, <1>10, <2>1, <2>2, OneBranchAsked DEF OneBranchAsked, AboutBranches, Crosses
<1>11. ASSUME Expire
      PROVE  OneBranchAsked'
  <2>1. UNCHANGED <<waiting, target, doubtful>>
    BY <1>11 DEF Expire
  <2>2. QED
    BY ONLY <2>1, OneBranchAsked DEF OneBranchAsked, AboutBranches
<1>12. ASSUME NEW l \in Request, NEW r \in Request, Logout(l, r)
      PROVE  OneBranchAsked'
  <2>1. /\ l # r /\ r \notin waiting /\ l \notin waiting /\ waiting' = waiting \cup {l, r}
        /\ target' = [target EXCEPT ![l] = Leave, ![r] = BranchToAsk]
        /\ doubtful' = (doubtful \/ \E q \in waiting : Crosses(q, BranchToAsk))
    BY <1>12, LogoutEffect
  <2>2. ~doubtful' => ~doubtful /\ \A q \in waiting : ~Crosses(q, BranchToAsk)
    BY ONLY <2>1, Zenon
  <2>3. QED
    BY ONLY <1>0, <1>12, <2>1, <2>2, OneBranchAsked DEF OneBranchAsked, AboutBranches, Crosses
<1>13. QED
  BY <1>1, <1>2, <1>3, <1>4, <1>5, <1>6, <1>7, <1>8, <1>8f, <1>9, <1>10, <1>11, <1>12
     DEF SessionNext

\* The server answers a switch with the branch of that moment.
LEMMA SwitchAnswerStep ==
  ASSUME SessionTypeOK, OneAnswer, SwitchesAnswerTheirBranch, SessionNext
  PROVE  SwitchesAnswerTheirBranch'
<1>0. /\ sent \subseteq waiting /\ waiting \subseteq Request
      /\ target \in [Request -> Branch \cup {NoBranch, Look, Leave}]
      /\ \A x \in answers : x.request \in waiting
      /\ Look \notin Branch /\ Leave \notin Branch \cup {Look} /\ NoBranch \notin Branch
  BY SessionAssumption, OneAnswer DEF SessionTypeOK, OneAnswer
<1>1. ASSUME NEW r \in Request, NEW b \in Branch \cup {NoBranch, Look}, Query(r, b)
      PROVE  SwitchesAnswerTheirBranch'
  <2>1. /\ r \notin waiting /\ waiting' = waiting \cup {r}
        /\ target' = [target EXCEPT ![r] = b]
    BY <1>1, QueryEffect
  <2>2. answers' \subseteq answers
    BY <1>1 DEF Query
  <2>3. \A x \in answers' : target'[x.request] = target[x.request]
    BY ONLY <1>0, <1>1, <2>1, <2>2
  <2>4. QED
    BY ONLY <2>2, <2>3, SwitchesAnswerTheirBranch DEF SwitchesAnswerTheirBranch
<1>2. ASSUME NEW r \in Request, Execute(r)
      PROVE  SwitchesAnswerTheirBranch'
  <2>1. PICK z \in Answer : /\ answers' = answers \cup {z} /\ z.request = r
                            /\ z.result = "ok" /\ target[r] \in Branch => z.branch = target[r]
    BY ExecuteEffect, <1>2
  <2>2. target' = target
    BY <1>2 DEF Execute
  <2>3. ASSUME NEW x \in answers', x.result = "ok", target'[x.request] \in Branch
        PROVE  x.branch = target'[x.request]
    <3>1. CASE x \in answers
      BY ONLY <2>2, <2>3, <3>1, SwitchesAnswerTheirBranch DEF SwitchesAnswerTheirBranch
    <3>2. CASE x = z
      BY ONLY <2>1, <2>2, <2>3, <3>2
    <3>3. QED
      BY <2>1, <3>1, <3>2
  <2>4. QED
    BY <2>3 DEF SwitchesAnswerTheirBranch
<1>3. ASSUME NEW a \in answers, AnswerOk(a)
      PROVE  SwitchesAnswerTheirBranch'
  <2>1. answers' \subseteq answers /\ \A x \in answers' : target'[x.request] = target[x.request]
    BY <1>0, <1>3, OneAnswer DEF AnswerOk, Settle, OneAnswer
  <2>2. QED
    BY ONLY <2>1, SwitchesAnswerTheirBranch DEF SwitchesAnswerTheirBranch
<1>4. ASSUME NEW a \in answers, AnswerError(a)
      PROVE  SwitchesAnswerTheirBranch'
  <2>1. answers' \subseteq answers /\ \A x \in answers' : target'[x.request] = target[x.request]
    BY <1>0, <1>4, OneAnswer DEF AnswerError, Settle, OneAnswer
  <2>2. QED
    BY ONLY <2>1, SwitchesAnswerTheirBranch DEF SwitchesAnswerTheirBranch
<1>5. ASSUME NEW a \in answers, NEW r \in Request, AnswerUnauthorized(a, r)
      PROVE  SwitchesAnswerTheirBranch'
  <2>1. /\ r \notin waiting /\ waiting' = waiting \cup {r}
        /\ target' = [target EXCEPT ![r] = BranchToAsk]
    BY <1>5, UnauthorizedEffect
  <2>2. answers' \subseteq answers
    BY <1>5 DEF AnswerUnauthorized
  <2>3. \A x \in answers' : target'[x.request] = target[x.request]
    BY ONLY <1>0, <1>5, <2>1, <2>2
  <2>4. QED
    BY ONLY <2>2, <2>3, SwitchesAnswerTheirBranch DEF SwitchesAnswerTheirBranch
<1>6. ASSUME NEW a \in Attempt, Authenticate(a)
      PROVE  SwitchesAnswerTheirBranch'
  <2>1. answers' \subseteq answers /\ \A x \in answers' : target'[x.request] = target[x.request]
    BY <1>0, <1>6, OneAnswer DEF Authenticate, OneAnswer
  <2>2. QED
    BY ONLY <2>1, SwitchesAnswerTheirBranch DEF SwitchesAnswerTheirBranch
<1>7. ASSUME NEW a \in Attempt, AcceptLogin(a)
      PROVE  SwitchesAnswerTheirBranch'
  <2>1. answers' \subseteq answers /\ \A x \in answers' : target'[x.request] = target[x.request]
    BY <1>0, <1>7, OneAnswer DEF AcceptLogin, OneAnswer
  <2>2. QED
    BY ONLY <2>1, SwitchesAnswerTheirBranch DEF SwitchesAnswerTheirBranch
<1>8. ASSUME NEW a \in Attempt, RefuseLogin(a)
      PROVE  SwitchesAnswerTheirBranch'
  <2>1. answers' \subseteq answers /\ \A x \in answers' : target'[x.request] = target[x.request]
    BY <1>0, <1>8, OneAnswer DEF RefuseLogin, OneAnswer
  <2>2. QED
    BY ONLY <2>1, SwitchesAnswerTheirBranch DEF SwitchesAnswerTheirBranch
<1>8f. ASSUME NEW a \in Attempt, LoginFails(a)
      PROVE  SwitchesAnswerTheirBranch'
  <2>1. answers' \subseteq answers /\ \A x \in answers' : target'[x.request] = target[x.request]
    BY <1>0, <1>8f, OneAnswer DEF LoginFails, OneAnswer
  <2>2. QED
    BY ONLY <2>1, SwitchesAnswerTheirBranch DEF SwitchesAnswerTheirBranch
<1>9. ASSUME NEW a \in Attempt, NEW r \in Request, LoggedIn(a, r)
      PROVE  SwitchesAnswerTheirBranch'
  <2>1. /\ r \notin waiting /\ waiting' = waiting \cup {r}
        /\ target' = [target EXCEPT ![r] = BranchToAsk]
    BY <1>9, LoggedInEffect
  <2>2. answers' \subseteq answers
    BY <1>9 DEF LoggedIn
  <2>3. \A x \in answers' : target'[x.request] = target[x.request]
    BY ONLY <1>0, <1>9, <2>1, <2>2
  <2>4. QED
    BY ONLY <2>2, <2>3, SwitchesAnswerTheirBranch DEF SwitchesAnswerTheirBranch
<1>10. ASSUME NEW a \in Attempt, NEW r \in Request, NotLoggedIn(a, r)
      PROVE  SwitchesAnswerTheirBranch'
  <2>1. /\ r \notin waiting /\ waiting' = waiting \cup {r}
        /\ target' = [target EXCEPT ![r] = BranchToAsk]
    BY <1>10, NotLoggedInEffect
  <2>2. answers' \subseteq answers
    BY <1>10 DEF NotLoggedIn
  <2>3. \A x \in answers' : target'[x.request] = target[x.request]
    BY ONLY <1>0, <1>10, <2>1, <2>2
  <2>4. QED
    BY ONLY <2>2, <2>3, SwitchesAnswerTheirBranch DEF SwitchesAnswerTheirBranch
<1>11. ASSUME Expire
      PROVE  SwitchesAnswerTheirBranch'
  <2>1. answers' \subseteq answers /\ \A x \in answers' : target'[x.request] = target[x.request]
    BY <1>0, <1>11, OneAnswer DEF Expire, OneAnswer
  <2>2. QED
    BY ONLY <2>1, SwitchesAnswerTheirBranch DEF SwitchesAnswerTheirBranch
<1>12. ASSUME NEW l \in Request, NEW r \in Request, Logout(l, r)
      PROVE  SwitchesAnswerTheirBranch'
  <2>1. /\ l # r /\ r \notin waiting /\ l \notin waiting /\ waiting' = waiting \cup {l, r}
        /\ target' = [target EXCEPT ![l] = Leave, ![r] = BranchToAsk]
    BY <1>12, LogoutEffect
  <2>2. answers' \subseteq answers
    BY <1>12 DEF Logout
  <2>3. \A x \in answers' : target'[x.request] = target[x.request]
    BY ONLY <1>0, <1>12, <2>1, <2>2
  <2>4. QED
    BY ONLY <2>2, <2>3, SwitchesAnswerTheirBranch DEF SwitchesAnswerTheirBranch
<1>13. QED
  BY <1>1, <1>2, <1>3, <1>4, <1>5, <1>6, <1>7, <1>8, <1>8f, <1>9, <1>10, <1>11, <1>12
     DEF SessionNext

\* A switch that is executed takes the session ahead of the page, and its answer brings
\* the page there; no other step moves either.
LEMMA PageStep ==
  ASSUME SessionTypeOK, OneAnswer, OneBranchAsked, SwitchesAnswerTheirBranch,
         PageFollowsSession, SessionNext
  PROVE  PageFollowsSession'
<1>0. /\ sent \subseteq waiting /\ waiting \subseteq Request
      /\ target \in [Request -> Branch \cup {NoBranch, Look, Leave}]
      /\ logins \in [Attempt -> {"idle", "sent", "accepted", "refused"}]
      /\ \A x \in answers : x.request \in waiting
      /\ Look \notin Branch /\ Leave \notin Branch \cup {Look} /\ NoBranch \notin Branch
  BY SessionAssumption, OneAnswer DEF SessionTypeOK, OneAnswer
<1>1. ASSUME NEW r \in Request, NEW b \in Branch \cup {NoBranch, Look}, Query(r, b)
      PROVE  PageFollowsSession'
  <2> SUFFICES ASSUME Settled' PROVE PageFollowsSession'
    BY DEF PageFollowsSession
  <2>1. /\ r \notin waiting /\ waiting' = waiting \cup {r}
        /\ target' = [target EXCEPT ![r] = b]
        /\ doubtful' = (doubtful \/ \E q \in waiting : Crosses(q, b))
    BY <1>1, QueryEffect
  <2>2. sent' = sent \cup {r} /\ UNCHANGED <<answers, user, session, branch, shown, logins>>
    BY <1>1 DEF Query
  <2>3. \A q \in waiting : target'[q] = target[q]
    BY ONLY <1>0, <1>1, <2>1
  <2>4. ~doubtful /\ session /\ user /\ NoneAccepted
    <3>1. ~doubtful
      BY ONLY <2>1, Settled', Zenon DEF Settled
    <3>2. QED
      BY ONLY <3>1, <2>2, Settled' DEF Settled, NoneAccepted
  <2>5. ASSUME NEW q \in waiting, Switching(q) PROVE FALSE
    <3>1. Switching(q)'
      BY ONLY <1>0, <2>2, <2>3, <2>5 DEF Switching
    <3>2. QED
      BY ONLY <2>1, <2>5, <3>1, Settled' DEF Settled
  <2>6. Settled
    BY <2>4, <2>5 DEF Settled
  <2>7. \A q \in waiting : AboutBranches(q)' <=> AboutBranches(q)
    BY <2>3 DEF AboutBranches
  <2>8. ASSUME \A q \in waiting' : target'[q] \in Branch => ~UnderWay(q)'
        PROVE  \A q \in waiting : target[q] \in Branch => ~UnderWay(q)
    BY ONLY <2>1, <2>2, <2>3, <2>8 DEF UnderWay
  <2>9. QED
    BY ONLY <1>0, <2>2, <2>6, <2>7, <2>8, PageFollowsSession DEF PageFollowsSession
<1>2. ASSUME NEW r \in Request, Execute(r)
      PROVE  PageFollowsSession'
  <2> SUFFICES ASSUME Settled' PROVE PageFollowsSession'
    BY DEF PageFollowsSession
  <2>1. PICK z \in Answer :
           /\ answers' = answers \cup {z} /\ z.request = r
           /\ z.result = "ok" => z.branch = branch' /\ (session \/ target[r] = Leave)
           /\ z.result = "ok" /\ target[r] \in Branch => z.branch = target[r]
           /\ \/ branch' = branch
              \/ target[r] \in Branch /\ branch' = target[r]
           /\ target[r] = Leave /\ session' => z.result # "ok"
           /\ session' => session
    BY <1>2, ExecuteEffect
  <2>2. /\ r \in sent /\ sent' = sent \ {r}
        /\ UNCHANGED <<waiting, target, user, shown, logins, doubtful>>
    BY <1>2 DEF Execute
  <2>3. ~doubtful /\ session /\ user /\ NoneAccepted /\ session'
    BY ONLY <2>1, <2>2, Settled' DEF Settled, NoneAccepted
  <2>4. r \in waiting /\ \A q \in waiting : ~Switching(q)'
    BY <1>0, <2>2 DEF Settled
  <2>5. \A q : UnderWay(q)' <=> UnderWay(q)
    BY ONLY <2>1, <2>2 DEF UnderWay
  <2>6. \A q : AboutBranches(q)' <=> AboutBranches(q)
    BY ONLY <2>2 DEF AboutBranches
  <2>7. CASE target[r] \in Branch
    <3>1. z.result = "ok"
      BY ONLY <2>1, <2>2, <2>4, <2>7 DEF Switching
    <3>2. branch' = target[r] /\ z.branch = branch'
      BY ONLY <2>1, <2>7, <3>1
    <3>3. UnderWay(r)' /\ target'[r] \in Branch
      BY ONLY <2>1, <2>2, <2>7 DEF UnderWay
    <3>4. ASSUME NEW x \in answers, x.result = "ok", AboutBranches(x.request)
          PROVE  x.branch = branch'
      <4>1. x.request \in waiting /\ target[x.request] = target[r]
        BY ONLY <1>0, <2>3, <2>4, <2>7, <3>4, OneBranchAsked DEF OneBranchAsked, AboutBranches
      <4>2. QED
        BY ONLY <2>7, <3>2, <3>4, <4>1, SwitchesAnswerTheirBranch DEF SwitchesAnswerTheirBranch
    <3>5. \A x \in answers' : x.result = "ok" /\ AboutBranches(x.request)' => x.branch = branch'
      BY ONLY <2>1, <2>6, <3>2, <3>4
    <3>6. QED
      BY ONLY <2>2, <2>4, <3>3, <3>5 DEF PageFollowsSession
  <2>8. CASE target[r] \notin Branch
    <3>1. branch' = branch
      BY ONLY <2>1, <2>8
    <3>2. ASSUME NEW q \in waiting, Switching(q) PROVE FALSE
      <4>1. Switching(q)'
        BY ONLY <2>1, <2>2, <2>8, <3>2 DEF Switching
      <4>2. QED
        BY ONLY <2>4, <3>2, <4>1
    <3>3. Settled
      BY <2>3, <3>2 DEF Settled
    <3>4. QED
      BY ONLY <2>1, <2>2, <2>5, <2>6, <3>1, <3>3, PageFollowsSession DEF PageFollowsSession
  <2>9. QED
    BY <2>7, <2>8
<1>3. ASSUME NEW a \in answers, AnswerOk(a)
      PROVE  PageFollowsSession'
  <2> SUFFICES ASSUME Settled' PROVE PageFollowsSession'
    BY DEF PageFollowsSession
  <2>1. /\ a.result = "ok" /\ a.request \in waiting /\ a.request \notin sent
        /\ \A x \in answers : x.request = a.request => x = a
    BY <1>3, OneAnswer DEF AnswerOk, OneAnswer
  <2>2. /\ answers' = answers \ {a} /\ waiting' = waiting \ {a.request}
        /\ target' = [target EXCEPT ![a.request] = NoBranch]
        /\ UNCHANGED <<user, session, branch, sent, logins, doubtful>>
    BY <1>3 DEF AnswerOk, Settle
  <2>3. \A q \in waiting' : target'[q] = target[q]
    BY ONLY <1>0, <2>1, <2>2
  <2>4. ~doubtful /\ session /\ user /\ NoneAccepted
    BY ONLY <2>2, Settled' DEF Settled, NoneAccepted
  <2>5. ASSUME NEW q \in waiting, Switching(q) PROVE FALSE
    <3>1. q # a.request
      BY ONLY <2>1, <2>5 DEF Switching
    <3>2. q \in waiting' /\ Switching(q)'
      BY ONLY <2>1, <2>2, <2>3, <2>5, <3>1 DEF Switching
    <3>3. QED
      BY ONLY <3>2, Settled' DEF Settled
  <2>6. Settled
    BY <2>4, <2>5 DEF Settled
  <2>7. \A x \in answers' : x \in answers /\ x.request \in waiting'
    BY ONLY <1>0, <2>1, <2>2
  <2>8. \A q \in waiting' : AboutBranches(q)' <=> AboutBranches(q)
    BY <2>3 DEF AboutBranches
  <2>9. \A x \in answers' : x.result = "ok" /\ AboutBranches(x.request)' => x.branch = branch'
    BY ONLY <2>2, <2>6, <2>7, <2>8, PageFollowsSession DEF PageFollowsSession
  <2>10. CASE AboutBranches(a.request)
    <3>1. a.branch = branch
      BY ONLY a \in answers, <2>1, <2>6, <2>10, PageFollowsSession DEF PageFollowsSession
    <3>2. shown' = a.branch
      BY <1>3, <2>10 DEF AnswerOk, AboutBranches
    <3>3. QED
      BY ONLY <2>2, <2>9, <3>1, <3>2 DEF PageFollowsSession
  <2>11. CASE ~AboutBranches(a.request)
    <3>1. shown' = shown
      BY <1>3, <2>11 DEF AnswerOk, AboutBranches
    <3>2. ASSUME \A q \in waiting' : target'[q] \in Branch => ~UnderWay(q)'
          PROVE  \A q \in waiting : target[q] \in Branch => ~UnderWay(q)
      BY ONLY <2>1, <2>2, <2>3, <2>11, <3>2 DEF UnderWay, AboutBranches
    <3>3. QED
      BY ONLY <2>2, <2>6, <2>9, <3>1, <3>2, PageFollowsSession DEF PageFollowsSession
  <2>12. QED
    BY <2>10, <2>11
<1>4. ASSUME NEW a \in answers, AnswerError(a)
      PROVE  PageFollowsSession'
  <2> SUFFICES ASSUME Settled' PROVE PageFollowsSession'
    BY DEF PageFollowsSession
  <2>1. /\ a.request \in waiting /\ a.request \notin sent
        /\ \A x \in answers : x.request = a.request => x = a
    BY <1>4, OneAnswer DEF AnswerError, OneAnswer
  <2>2. /\ answers' = answers \ {a}
        /\ doubtful' = (doubtful \/ target[a.request] \in Branch)
        /\ UNCHANGED <<user, session, branch, sent, logins, shown>>
    BY <1>4 DEF AnswerError
  <2>3. /\ waiting \ {a.request} \subseteq waiting'
        /\ \A q \in waiting : q # a.request => target'[q] = target[q]
    BY <1>0, <1>4, <2>1 DEF AnswerError, Settle
  <2>4. ~doubtful /\ session /\ user /\ NoneAccepted /\ target[a.request] \notin Branch
    BY ONLY <2>2, Settled' DEF Settled, NoneAccepted
  <2>5. ASSUME NEW q \in waiting, Switching(q) PROVE FALSE
    <3>1. q # a.request
      BY ONLY <2>4, <2>5 DEF Switching
    <3>2. q \in waiting' /\ Switching(q)'
      BY ONLY <2>1, <2>2, <2>3, <2>5, <3>1 DEF Switching
    <3>3. QED
      BY ONLY <3>2, Settled' DEF Settled
  <2>6. Settled
    BY <2>4, <2>5 DEF Settled
  <2>7. \A x \in answers' : x \in answers /\ x.request \in waiting /\ x.request # a.request
    BY ONLY <1>0, <2>1, <2>2
  <2>8. \A x \in answers' : x.result = "ok" /\ AboutBranches(x.request)' => x.branch = branch'
    <3>1. \A x \in answers' : AboutBranches(x.request)' <=> AboutBranches(x.request)
      BY ONLY <2>3, <2>7 DEF AboutBranches
    <3>2. QED
      BY ONLY <2>2, <2>6, <2>7, <3>1, PageFollowsSession DEF PageFollowsSession
  <2>9. ASSUME \A q \in waiting' : target'[q] \in Branch => ~UnderWay(q)'
        PROVE  \A q \in waiting : target[q] \in Branch => ~UnderWay(q)
    BY ONLY <2>1, <2>2, <2>3, <2>4, <2>9 DEF UnderWay
  <2>10. QED
    BY ONLY <2>2, <2>6, <2>8, <2>9, PageFollowsSession DEF PageFollowsSession
<1>5. ASSUME NEW a \in answers, NEW r \in Request, AnswerUnauthorized(a, r)
      PROVE  PageFollowsSession'
  <2>1. user' = FALSE
    BY <1>0, <1>5, UnauthorizedEffect, AskedBranch DEF AnswerUnauthorized
  <2>2. QED
    BY ONLY <2>1, <1>5 DEF PageFollowsSession, Settled
<1>6. ASSUME NEW a \in Attempt, Authenticate(a)
      PROVE  PageFollowsSession'
  <2>1. ~user'
    BY <1>0, <1>6 DEF Authenticate
  <2>2. QED
    BY ONLY <2>1, <1>6 DEF PageFollowsSession, Settled
<1>7. ASSUME NEW a \in Attempt, AcceptLogin(a)
      PROVE  PageFollowsSession'
  <2>1. logins'[a] = "accepted"
    BY <1>0, <1>7 DEF AcceptLogin, SessionTypeOK
  <2>2. QED
    BY ONLY <2>1, <1>7 DEF PageFollowsSession, Settled, NoneAccepted
<1>8. ASSUME NEW a \in Attempt, RefuseLogin(a)
      PROVE  PageFollowsSession'
  <2>1. ~session'
    BY <1>8 DEF RefuseLogin
  <2>2. QED
    BY ONLY <2>1, <1>8 DEF PageFollowsSession, Settled
<1>8f. ASSUME NEW a \in Attempt, LoginFails(a)
      PROVE  PageFollowsSession'
  <2> SUFFICES ASSUME Settled' PROVE PageFollowsSession'
    BY DEF PageFollowsSession
  <2>1. /\ logins' = [logins EXCEPT ![a] = "idle"]
        /\ doubtful' = (doubtful \/ logins[a] = "accepted")
        /\ UNCHANGED <<user, session, branch, waiting, target, sent, answers, shown>>
    BY <1>8f DEF LoginFails
  <2>2. ~doubtful /\ logins[a] # "accepted"
    BY ONLY <2>1, Settled' DEF Settled
  <2>3. NoneAccepted
    BY ONLY <2>1, <2>2, Settled', <1>0
       DEF Settled, NoneAccepted
  <2>4. Settled
    BY ONLY <2>1, <2>2, <2>3, Settled' DEF Settled, Switching
  <2>5. QED
    BY ONLY <2>1, <2>4, PageFollowsSession DEF PageFollowsSession, AboutBranches, UnderWay
<1>9. ASSUME NEW a \in Attempt, NEW r \in Request, LoggedIn(a, r)
      PROVE  PageFollowsSession'
  <2>1. /\ r \in waiting' /\ r \in sent'
        /\ target' = [target EXCEPT ![r] = BranchToAsk] /\ BranchToAsk \in Branch
    BY <1>9, LoggedInEffect, AskedBranch DEF LoggedIn
  <2>2. target'[r] \in Branch
    BY ONLY <1>0, <1>9, <2>1
  <2>3. Switching(r)'
    BY ONLY <2>1, <2>2 DEF Switching
  <2>4. QED
    BY ONLY <2>1, <2>3 DEF PageFollowsSession, Settled
<1>10. ASSUME NEW a \in Attempt, NEW r \in Request, NotLoggedIn(a, r)
      PROVE  PageFollowsSession'
  <2>1. user' = FALSE
    BY <1>0, <1>10, NotLoggedInEffect, AskedBranch DEF NotLoggedIn
  <2>2. QED
    BY ONLY <2>1, <1>10 DEF PageFollowsSession, Settled
<1>11. ASSUME Expire
      PROVE  PageFollowsSession'
  <2>1. session' = FALSE
    BY <1>0, <1>11 DEF Expire
  <2>2. QED
    BY ONLY <2>1, <1>11 DEF PageFollowsSession, Settled
<1>12. ASSUME NEW l \in Request, NEW r \in Request, Logout(l, r)
      PROVE  PageFollowsSession'
  <2>1. user' = FALSE
    BY <1>0, <1>12, LogoutEffect, AskedBranch DEF Logout
  <2>2. QED
    BY ONLY <2>1, <1>12 DEF PageFollowsSession, Settled
<1>13. QED
  BY <1>1, <1>2, <1>3, <1>4, <1>5, <1>6, <1>7, <1>8, <1>8f, <1>9, <1>10, <1>11, <1>12
     DEF SessionNext

-----------------------------------------------------------------------------
(* The theorems.                                                           *)

\* The inductive invariant of the requests holds.
THEOREM SessionInvCorrect == SessionSpec => []SessionInv
<1>1. SessionInit => SessionInv
  <2> SUFFICES ASSUME SessionInit PROVE SessionInv
    OBVIOUS
  <2>1. ToSet(pending) = {}
    BY DEF SessionInit, ToSet
  <2>2. SessionTypeOK
    <3>1. /\ target \in [Request -> Branch \cup {NoBranch, Look, Leave}]
          /\ logins \in [Attempt -> {"idle", "sent", "accepted", "refused"}]
          /\ executed \in [Request -> Nat] /\ pending \in Seq(waiting)
      BY DEF SessionInit
    <3>2. /\ user \in BOOLEAN /\ session \in BOOLEAN /\ doubtful \in BOOLEAN
          /\ branch \in Branch /\ {shown, stored} \subseteq Branch \cup {NoBranch}
          /\ waiting \in SUBSET Request /\ resent \in SUBSET waiting /\ sent \in SUBSET waiting
          /\ answers \in SUBSET Answer /\ processes \in SUBSET (Request \cup Attempt)
      BY SessionAssumption DEF SessionInit
    <3>3. QED
      BY ONLY <3>1, <3>2 DEF SessionTypeOK
  <2>3. QED
    BY <2>1, <2>2 DEF SessionInv, SessionInit, OneAnswer, PutOff, NotYetExecuted,
                      NothingForgotten, BusyIsTrue, UnderWay
<1>2. SessionInv /\ [SessionNext]_sessionVars => SessionInv'
  <2> SUFFICES ASSUME SessionInv, [SessionNext]_sessionVars PROVE SessionInv'
    OBVIOUS
  <2>1. CASE SessionNext
    BY ONLY <2>1, SessionInv, TypeStep, OneStep, PutOffStep, ExecutedStep, ForgottenStep, BusyStep
       DEF SessionInv
  <2>2. CASE UNCHANGED sessionVars
    <3>1. SessionTypeOK'
      BY <2>2 DEF SessionInv, SessionTypeOK, sessionVars
    <3>2. OneAnswer' /\ PutOff' /\ NotYetExecuted'
      BY <2>2 DEF SessionInv, OneAnswer, PutOff, NotYetExecuted, sessionVars
    <3>3. NothingForgotten' /\ BusyIsTrue'
      BY <2>2 DEF SessionInv, NothingForgotten, BusyIsTrue, UnderWay, sessionVars
    <3>4. QED
      BY ONLY <3>1, <3>2, <3>3 DEF SessionInv
  <2>3. QED
    BY <2>1, <2>2
<1>3. QED
  BY <1>1, <1>2, PTL DEF SessionSpec

\* The state of Resource.js and App.js keeps its types.
THEOREM SessionTypeCorrect == SessionSpec => []SessionTypeOK
<1>1. SessionInv => SessionTypeOK
  BY DEF SessionInv
<1>2. QED
  BY <1>1, SessionInvCorrect, PTL

\* Resource.js forgets no request whose caller waits, and with a user none is pending.
THEOREM NothingForgottenCorrect == SessionSpec => []NothingForgotten
<1>1. SessionInv => NothingForgotten
  BY DEF SessionInv
<1>2. QED
  BY <1>1, SessionInvCorrect, PTL

\* However often sessions expire and pending requests are sent again by resendPending,
\* the server executes a request once.
THEOREM ExecutedOnceCorrect == SessionSpec => []ExecutedOnce
<1>1. SessionInv => ExecutedOnce
  BY DEF SessionInv, NotYetExecuted, ExecutedOnce
<1>2. QED
  BY <1>1, SessionInvCorrect, PTL

\* fetchCount counts what is being fetched: no failure, 401 or repeated request leaves
\* the menus of ViewContainer disabled, or enables them too early.
THEOREM BusyIsTrueCorrect == SessionSpec => []BusyIsTrue
<1>1. SessionInv => BusyIsTrue
  BY DEF SessionInv
<1>2. QED
  BY <1>1, SessionInvCorrect, PTL

\* With no switch and no login under way, and none ever crossed or failed, BranchesInfo
\* shows the branch of the session.
THEOREM ShownBranchCorrect == SessionSpec => []ShownBranchIsReal
<1>1. SessionInit => BranchInv
  BY SessionAssumption DEF SessionInit, BranchInv, OneBranchAsked, SwitchesAnswerTheirBranch,
     PageFollowsSession, Settled
<1>2. SessionInv /\ BranchInv /\ [SessionNext]_sessionVars => BranchInv'
  <2> SUFFICES ASSUME SessionInv, BranchInv, [SessionNext]_sessionVars PROVE BranchInv'
    OBVIOUS
  <2>1. CASE SessionNext
    <3>1. SessionTypeOK /\ OneAnswer
      BY DEF SessionInv
    <3>2. OneBranchAsked /\ SwitchesAnswerTheirBranch /\ PageFollowsSession
      BY DEF BranchInv
    <3>3. OneBranchAsked'
      BY ONLY <2>1, <3>1, <3>2, OneBranchStep
    <3>4. SwitchesAnswerTheirBranch'
      BY ONLY <2>1, <3>1, <3>2, SwitchAnswerStep
    <3>5. PageFollowsSession'
      BY ONLY <2>1, <3>1, <3>2, PageStep
    <3>6. QED
      BY <3>3, <3>4, <3>5 DEF BranchInv
  <2>2. CASE UNCHANGED sessionVars
    BY <2>2 DEF sessionVars, BranchInv, OneBranchAsked, SwitchesAnswerTheirBranch,
       PageFollowsSession, Settled, NoneAccepted, AboutBranches, Switching, UnderWay
  <2>3. QED
    BY <2>1, <2>2
<1>3. BranchInv => ShownBranchIsReal
  <2> SUFFICES ASSUME PageFollowsSession, user /\ session /\ ~doubtful /\ shown # NoBranch,
                      \A r \in waiting : target[r] \in Branch => ~UnderWay(r), NoneAccepted
               PROVE  shown = branch
    BY DEF BranchInv, ShownBranchIsReal, NoneAccepted
  <2>1. \A r \in waiting : ~Switching(r)
    BY DEF Switching, UnderWay
  <2>2. QED
    BY <2>1 DEF PageFollowsSession, Settled
<1>4. QED
  BY <1>1, <1>2, <1>3, SessionInvCorrect, PTL DEF SessionSpec
-----------------------------------------------------------------------------
(* The web socket (UiStomp).                                               *)

(* Only after the first stompConnect is there a client that lives.         *)
NoneBeforeFirst == current = NoClient => \A c \in Client : clients[c] = "closed"

StompInv == StompTypeOK /\ NoneBeforeFirst /\ LogIsReceived

LEMMA LoggedSeq ==
  /\ Logged \subseteq Seq(Message)
  /\ \A s \in Seq(Message) : Len(s) <= LogLimit => s \in Logged
  /\ <<>> \in Logged
<1>1. ASSUME NEW s \in Logged PROVE s \in Seq(Message)
  BY StompAssumption DEF Logged
<1>2. ASSUME NEW s \in Seq(Message), Len(s) <= LogLimit PROVE s \in Logged
  <2>1. Len(s) \in 0 .. LogLimit /\ s \in [1 .. Len(s) -> Message]
    BY <1>2, StompAssumption, LenProperties
  <2>2. QED
    BY <2>1 DEF Logged
<1>3. <<>> \in Seq(Message) /\ Len(<<>>) <= LogLimit
  BY StompAssumption, EmptySeq
<1>4. QED
  BY <1>1, <1>2, <1>3

(* The end of a log that has become too long is a log.                     *)
LEMMA LogCut ==
  ASSUME NEW long \in Seq(Message), Len(long) > LogLimit
  PROVE  SubSeq(long, Len(long) - LogLimit + 1, Len(long)) \in Logged
<1> DEFINE m == Len(long) - LogLimit + 1
<1>1. Len(long) \in Nat /\ LogLimit \in Nat \ {0} /\ m \in 1 .. Len(long) + 1
  BY StompAssumption, LenProperties
<1>2. \A i \in m .. Len(long) : long[i] \in Message
  BY <1>1, ElementOfSeq
<1>3. /\ SubSeq(long, m, Len(long)) \in Seq(Message)
      /\ Len(SubSeq(long, m, Len(long))) = IF m <= Len(long) THEN Len(long) - m + 1 ELSE 0
  BY <1>1, <1>2, SubSeqProperties
<1>4. Len(SubSeq(long, m, Len(long))) <= LogLimit
  BY <1>1, <1>3
<1>5. QED
  BY <1>3, <1>4, LoggedSeq

LEMMA StompInvInit == StompInit => StompInv
<1> SUFFICES ASSUME StompInit PROVE StompInv
  OBVIOUS
<1>1. StompTypeOK
  <2>1. clients \in [Client -> {"connecting", "open", "closed"}] /\ listeners \in [Client -> Nat]
    BY DEF StompInit
  <2>2. timers \in 0 .. MaxTimers
    BY StompAssumption DEF StompInit
  <2>3. logs \in Logged /\ page \in Logged \cup {Closed}
    BY LoggedSeq DEF StompInit
  <2>4. QED
    BY <2>1, <2>2, <2>3 DEF StompInit, StompTypeOK
<1>2. NoneBeforeFirst /\ LogIsReceived
  BY DEF StompInit, NoneBeforeFirst, LogIsReceived
<1>3. QED
  BY <1>1, <1>2 DEF StompInv

(* A client is made, by a login or by a timer that waited.                 *)
LEMMA ConnectKeeps ==
  ASSUME StompInv, NEW c \in Client, StompConnect(c), timers' \in 0 .. MaxTimers,
         UNCHANGED <<logs, page, redraw>>
  PROVE  StompInv'
<1> USE DEF StompInv
<1>1. clients' \in [Client -> {"connecting", "open", "closed"}]
  BY DEF StompConnect, StompTypeOK
<1>2. listeners' \in [Client -> Nat]
  <2>1. CASE subscription # NoClient /\ listeners[subscription] > 0
    <3>1. listeners' = [listeners EXCEPT ![subscription] = @ - 1]
      BY <2>1 DEF StompConnect
    <3>2. QED
      BY <2>1, <3>1 DEF StompTypeOK
  <2>2. CASE ~(subscription # NoClient /\ listeners[subscription] > 0)
    BY <2>2 DEF StompConnect, StompTypeOK
  <2>3. QED
    BY <2>1, <2>2
<1>3. StompTypeOK'
  BY <1>1, <1>2 DEF StompConnect, StompTypeOK
<1>4. /\ clients'[c] = "connecting" /\ current' = c /\ c # NoClient
      /\ \A d \in Client \ {c} : clients'[d] = clients[d]
      /\ clients[c] = "closed" /\ connected' = connected
  BY StompAssumption DEF StompConnect, StompTypeOK
<1>5. NoneBeforeFirst'
  BY <1>4 DEF NoneBeforeFirst
<1>6. LogIsReceived'
  BY <1>4 DEF LogIsReceived
<1>7. QED
  BY <1>3, <1>5, <1>6

LEMMA StompInvNext == StompInv /\ [StompNext]_stompVars => StompInv'
<1> SUFFICES ASSUME StompInv, [StompNext]_stompVars
             PROVE  StompInv'
  OBVIOUS
<1>0. StompTypeOK /\ NoneBeforeFirst /\ LogIsReceived
  BY DEF StompInv
<1>1. CASE UNCHANGED stompVars
  BY <1>0, <1>1 DEF stompVars, StompInv, StompTypeOK, NoneBeforeFirst, LogIsReceived
<1>2. ASSUME NEW c \in Client, Connect(c)
      PROVE  StompInv'
  BY <1>0, <1>2, ConnectKeeps DEF Connect, StompTypeOK
<1>3. ASSUME NEW c \in Client, Reconnect(c)
      PROVE  StompInv'
  <2>1. timers' \in 0 .. MaxTimers
    BY <1>0, <1>3, StompAssumption DEF Reconnect, StompTypeOK
  <2>2. QED
    BY <1>3, <2>1, ConnectKeeps DEF Reconnect
<1>4. ASSUME NEW c \in Client, StompConnected(c)
      PROVE  StompInv'
  <2>1. current \in Client
    BY <1>0, <1>4 DEF StompConnected, StompTypeOK, NoneBeforeFirst
  <2>2. /\ clients' \in [Client -> {"connecting", "open", "closed"}]
        /\ clients'[c] = "open" /\ \A d \in Client \ {c} : clients'[d] = clients[d]
    BY <1>0, <1>4 DEF StompConnected, StompTypeOK
  <2>3. /\ listeners' \in [Client -> Nat]
        /\ clients'[current] = "open" => listeners'[current] > 0 /\ subscription' = current
        /\ clients'[current] # "open" => UNCHANGED <<listeners, subscription>>
    BY <1>0, <1>4, <2>1 DEF StompConnected, StompTypeOK
  <2>4. connected' = TRUE /\ UNCHANGED <<current, reconnect, timers, logs, page, redraw>>
    BY <1>4 DEF StompConnected
  <2>5. StompTypeOK'
    BY <1>0, <2>1, <2>2, <2>3, <2>4 DEF StompTypeOK
  <2>6. NoneBeforeFirst'
    BY <2>1, <2>4, StompAssumption DEF NoneBeforeFirst
  <2>7. LogIsReceived'
    <3>1. (page \notin {Closed, logs} => redraw)'
      BY <1>0, <2>4 DEF LogIsReceived
    <3>2. clients'[c] = "open" /\ clients'[c] # "closed"
      BY <2>2
    <3>3. QED
      BY <2>3, <2>4, <3>1, <3>2 DEF LogIsReceived
  <2>8. QED
    BY <2>5, <2>6, <2>7 DEF StompInv
<1>5. ASSUME NEW c \in Client, StompError(c)
      PROVE  StompInv'
  <2>1. /\ clients' \in [Client -> {"connecting", "open", "closed"}]
        /\ clients'[c] = "closed" /\ \A d \in Client \ {c} : clients'[d] = clients[d]
        /\ listeners' \in [Client -> Nat]
        /\ \A d \in Client \ {c} : listeners'[d] = listeners[d]
    BY <1>0, <1>5 DEF StompError, StompTypeOK
  <2>2. timers' \in 0 .. MaxTimers /\ (reconnect => timers' > 0)
    BY <1>0, <1>5, StompAssumption DEF StompError, StompTypeOK
  <2>3. connected' = FALSE /\ UNCHANGED <<current, subscription, reconnect, logs, page, redraw>>
    BY <1>5 DEF StompError
  <2>4. StompTypeOK'
    BY <1>0, <2>1, <2>2, <2>3 DEF StompTypeOK
  <2>5. NoneBeforeFirst' /\ LogIsReceived'
    BY <1>0, <2>1, <2>2, <2>3 DEF NoneBeforeFirst, LogIsReceived, StompTypeOK
  <2>6. QED
    BY <2>4, <2>5 DEF StompInv
<1>6. CASE StompDisconnect
  <2>1. current \in Client
    BY <1>0, <1>6 DEF StompDisconnect, StompTypeOK
  <2>2. reconnect' = FALSE /\ UNCHANGED <<current, subscription, timers, logs, page, redraw>>
    BY <1>6 DEF StompDisconnect
  <2>3. CASE clients[current] = "connecting"
    <3>1. UNCHANGED <<connected, clients, listeners>>
      BY <1>6, <2>3 DEF StompDisconnect
    <3>2. StompTypeOK'
      BY <1>0, <2>2, <3>1 DEF StompTypeOK
    <3>3. QED
      BY <1>0, <2>2, <3>1, <3>2 DEF StompInv, NoneBeforeFirst, LogIsReceived
  <2>4. CASE clients[current] # "connecting"
    <3>1. /\ clients' \in [Client -> {"connecting", "open", "closed"}]
          /\ clients'[current] = "closed" /\ listeners' \in [Client -> Nat]
          /\ connected' = FALSE
      BY <1>0, <1>6, <2>1, <2>4 DEF StompDisconnect, StompTypeOK
    <3>2. StompTypeOK'
      BY <1>0, <2>2, <3>1 DEF StompTypeOK
    <3>3. NoneBeforeFirst' /\ LogIsReceived'
      BY <1>0, <2>1, <2>2, <3>1, StompAssumption DEF NoneBeforeFirst, LogIsReceived
    <3>4. QED
      BY <3>2, <3>3 DEF StompInv
  <2>5. QED
    BY <2>3, <2>4
<1>7. ASSUME NEW c \in Client, NEW m \in Message, Log(c, m)
      PROVE  StompInv'
  <2> DEFINE more == [i \in 1 .. listeners[c] |-> m]
             long == logs \o more
  <2>1. logs \in Seq(Message)
    BY <1>0, LoggedSeq DEF StompTypeOK
  <2>2. more \in Seq(Message)
    BY <1>0 DEF StompTypeOK
  <2>3. long \in Seq(Message)
    BY <2>1, <2>2, ConcatProperties
  <2>4. logs' = IF Len(long) > LogLimit
                THEN SubSeq(long, Len(long) - LogLimit + 1, Len(long)) ELSE long
    BY <1>7 DEF Log
  <2> HIDE DEF long
  <2>5. logs' \in Logged
    <3>1. Len(long) \in Nat
      BY <2>3, LenProperties
    <3>2. QED
      BY <2>3, <2>4, <3>1, StompAssumption, LoggedSeq, LogCut
  <2>6. redraw' = (page # Closed) /\ UNCHANGED <<sockets, page>>
    BY <1>7 DEF Log
  <2>7. StompTypeOK'
    BY <1>0, <2>5, <2>6 DEF sockets, StompTypeOK
  <2>8. NoneBeforeFirst' /\ LogIsReceived'
    BY <1>0, <2>6 DEF sockets, NoneBeforeFirst, LogIsReceived
  <2>9. QED
    BY <2>7, <2>8 DEF StompInv
<1>8. CASE OpenLogs \/ Redraw \/ ClearLogs \/ CloseLogs
  <2>1. UNCHANGED sockets
    BY <1>8 DEF OpenLogs, Redraw, ClearLogs, CloseLogs
  <2>2. StompTypeOK'
    BY <1>0, <1>8, <2>1, LoggedSeq DEF OpenLogs, Redraw, ClearLogs, CloseLogs, sockets, StompTypeOK
  <2>3. NoneBeforeFirst' /\ LogIsReceived'
    BY <1>0, <1>8, <2>1
    DEF OpenLogs, Redraw, ClearLogs, CloseLogs, sockets, NoneBeforeFirst, LogIsReceived
  <2>4. QED
    BY <2>2, <2>3 DEF StompInv
<1>9. QED
  BY <1>1, <1>2, <1>3, <1>4, <1>5, <1>6, <1>7, <1>8 DEF StompNext

(* The sockets, the log and the panel have their types.                    *)
THEOREM StompTypeCorrect == StompSpec => []StompTypeOK
BY StompInvInit, StompInvNext, PTL DEF StompSpec, StompInv

(* Whatever clients were forgotten, failed or connected late: a page that  *)
(* wants its connection has a client or a timer, it is told connected only *)
(* with an open client, an open current client is listened to, and no row  *)
(* of the log is missed by an open panel.                                  *)
THEOREM LogReceivedCorrect == StompSpec => []LogIsReceived
BY StompInvInit, StompInvNext, PTL DEF StompSpec, StompInv

-----------------------------------------------------------------------------
(* The map of a workspace (UiWorkspace).                                   *)

(* Something was deleted or imported for which no list was asked yet.      *)
Unlisted ==
    \/ \E x \in deletions : x.stage = "done"
    \/ \E d \in Dataset : import[d] = "saved"

(* What is under way together, as long as nothing failed or crossed.       *)
RequestsInv ==
    /\ DOMAIN lists = 1..MaxLists
    /\ ~unsure =>
        /\ \A d \in Dataset : import[d] \notin {"failed", "lost"}
        /\ \A l, m \in 1..MaxLists : lists[l] # None /\ lists[m] # None => l = m
        /\ Listing => changes = {}
        /\ \A b, c \in changes : b.of = c.of => b = c

(* The page has what the server has, each type that is under way counted   *)
(* in; a list that was read has it too.                                    *)
PageShows ==
    /\ \A d \in Dataset : objects[d] # Absent => datasets[d] # Absent
    /\ \A d \in Dataset : datasets[d] # Absent =>
          \E e \in Dataset : ShortName[e] = ShortName[d] /\ objects[e] # Absent
    /\ \A d, e \in Dataset : d # e /\ ShortName[d] = ShortName[e]
                              => objects[d] = Absent \/ objects[e] = Absent
    /\ \A c \in changes : c.stage = "sent" => objects[c.of] \in {c.type, Absent}
    /\ \A d \in Dataset :
          (\A c \in changes : c.of = d => c.stage # "sent") => objects[d] \in {datasets[d], Absent}

ShownInv ==
    ~unsure /\ ~Unlisted =>
        /\ \A c \in changes : c.stage = "sent" => datasets[c.of] # Absent
        /\ \A l \in 1..MaxLists : lists[l].stage = "read" => lists[l].content \in Pages(datasets)
        /\ onPage /\ ~Listing => PageShows

WorkspaceInv == WorkspaceTypeOK /\ RequestsInv /\ ShownInv

AList == {None, [stage |-> "asked"]} \cup [stage : {"read"}, content : Content]
Change == [of : Dataset, type : DatasetType, stage : {"sent", "done"}]
Deletion == [of : Dataset, stage : {"sent", "done"}, live : BOOLEAN]
ImportStage == {"none", "reading", "saving", "saved", "failed", "lost"}

LEMMA WorkspaceParts ==
  WorkspaceTypeOK <=>
    /\ datasets \in Content /\ objects \in Content
    /\ onPage \in BOOLEAN /\ importer \in BOOLEAN /\ unsure \in BOOLEAN
    /\ \A l \in 1..MaxLists : lists[l] \in AList
    /\ changes \subseteq Change /\ deletions \subseteq Deletion /\ linking \subseteq Dataset
    /\ importDialog \in {"closed", "open", "importing"}
    /\ import \in [Dataset -> ImportStage]
BY DEF WorkspaceTypeOK, AList, Change, Deletion, ImportStage

LEMMA WorkspacePartsPrime ==
  WorkspaceTypeOK' <=>
    /\ datasets' \in Content /\ objects' \in Content
    /\ onPage' \in BOOLEAN /\ importer' \in BOOLEAN /\ unsure' \in BOOLEAN
    /\ \A l \in 1..MaxLists : lists'[l] \in AList
    /\ changes' \subseteq Change /\ deletions' \subseteq Deletion /\ linking' \subseteq Dataset
    /\ importDialog' \in {"closed", "open", "importing"}
    /\ import' \in [Dataset -> ImportStage]
BY DEF WorkspaceTypeOK, AList, Change, Deletion, ImportStage

LEMMA ListStages ==
  /\ None \in AList /\ None.stage = "none"
  /\ [stage |-> "asked"] \in AList /\ [stage |-> "asked"] # None
  /\ \A c \in Content : /\ [stage |-> "read", content |-> c] \in AList
                        /\ [stage |-> "read", content |-> c] # None
                        /\ [stage |-> "read", content |-> c].stage = "read"
                        /\ [stage |-> "read", content |-> c].content = c
  /\ \A x \in AList : /\ x = None <=> x.stage = "none"
                      /\ x.stage = "read" => x.content \in Content
<1>1. None.stage = "none" /\ [stage |-> "asked"].stage = "asked"
  BY DEF None
<1>2. \A c \in Content : /\ [stage |-> "read", content |-> c] \in AList
                         /\ [stage |-> "read", content |-> c].stage = "read"
                         /\ [stage |-> "read", content |-> c].content = c
  BY DEF AList
<1>3. \A x \in [stage : {"read"}, content : Content] : x.stage = "read" /\ x.content \in Content
  OBVIOUS
<1>4. QED
  BY <1>1, <1>2, <1>3 DEF AList

LEMMA WorkspaceFacts ==
  ASSUME WorkspaceInv
  PROVE  /\ datasets \in Content /\ objects \in Content
         /\ onPage \in BOOLEAN /\ importer \in BOOLEAN /\ unsure \in BOOLEAN
         /\ \A l \in 1..MaxLists : lists[l] \in AList
         /\ changes \subseteq Change /\ deletions \subseteq Deletion /\ linking \subseteq Dataset
         /\ importDialog \in {"closed", "open", "importing"}
         /\ import \in [Dataset -> ImportStage]
         /\ DOMAIN lists = 1..MaxLists
BY WorkspaceParts DEF WorkspaceInv, RequestsInv

LEMMA WorkspaceConstants ==
  /\ Own \subseteq Dataset
  /\ \A d \in Dataset : ShortName[d] # Absent
  /\ NoType \notin DatasetType /\ Absent \notin DatasetType /\ Absent # NoType
  /\ MaxLists \in Nat /\ 1 \in 1..MaxLists
BY WorkspaceAssumption

(* What a page may show of what the server has, dataset by dataset.        *)
LEMMA PagesMeans ==
  ASSUME NEW content \in Content, NEW c \in Content
  PROVE  c \in Pages(content) <=>
           /\ \A d \in Dataset : c[d] \in {content[d], Absent}
           /\ \A d \in Dataset : content[d] # Absent =>
                 \E e \in Dataset : ShortName[e] = ShortName[d] /\ c[e] # Absent
           /\ \A d, e \in Dataset : d # e /\ ShortName[d] = ShortName[e]
                                     => c[d] = Absent \/ c[e] = Absent
<1>1. ASSUME \A d \in Dataset : c[d] \in {content[d], Absent}
      PROVE  Names(c) = Names(content) <=>
               \A d \in Dataset : content[d] # Absent =>
                 \E e \in Dataset : ShortName[e] = ShortName[d] /\ c[e] # Absent
  <2>1. Names(c) \subseteq Names(content)
    BY <1>1 DEF Names
  <2>2. ASSUME Names(c) = Names(content), NEW d \in Dataset, content[d] # Absent
        PROVE  \E e \in Dataset : ShortName[e] = ShortName[d] /\ c[e] # Absent
    <3>1. ShortName[d] \in Names(content)
      BY <2>2 DEF Names
    <3>2. ShortName[d] \in Names(c)
      BY <2>2, <3>1
    <3>3. QED
      BY <3>2 DEF Names
  <2>3. ASSUME \A d \in Dataset : content[d] # Absent =>
                 \E e \in Dataset : ShortName[e] = ShortName[d] /\ c[e] # Absent
        PROVE  Names(content) \subseteq Names(c)
    <3>1. ASSUME NEW d \in Dataset, content[d] # Absent PROVE ShortName[d] \in Names(c)
      BY <2>3, <3>1 DEF Names
    <3>2. QED
      BY <3>1 DEF Names
  <2>4. QED
    BY <2>1, <2>2, <2>3
<1>2. c \in Pages(content) <=>
           /\ \A d \in Dataset : c[d] \in {content[d], Absent}
           /\ Names(c) = Names(content)
           /\ \A d, e \in Dataset : d # e /\ ShortName[d] = ShortName[e]
                                     => Absent \in {c[d], c[e]}
  BY DEF Pages
<1>3. QED
  BY <1>1, <1>2

LEMMA WorkspaceInvInit == WorkspaceInit => WorkspaceInv
<1> SUFFICES ASSUME WorkspaceInit PROVE WorkspaceInv
  OBVIOUS
<1>1. datasets \in Content /\ objects \in Content
  BY WorkspaceConstants DEF WorkspaceInit, Content, Empty
<1>2. /\ lists = [l \in 1..MaxLists |-> IF l = 1 THEN [stage |-> "asked"] ELSE None]
      /\ \A l \in 1..MaxLists : lists[l] \in AList /\ lists[l].stage # "read"
      /\ \A l \in 1..MaxLists : lists[l] # None => l = 1
  BY ListStages DEF WorkspaceInit
<1>3. import \in [Dataset -> ImportStage] /\ \A d \in Dataset : import[d] = "none"
  BY DEF WorkspaceInit, ImportStage
<1>4. WorkspaceTypeOK
  BY <1>1, <1>2, <1>3, WorkspaceParts DEF WorkspaceInit
<1>5. RequestsInv
  BY <1>2, <1>3 DEF WorkspaceInit, RequestsInv
<1>6. ShownInv
  <2>1. changes = {} /\ datasets \in Content
    BY <1>1 DEF WorkspaceInit
  <2>2. Listing
    BY <1>2, WorkspaceConstants, ListStages DEF Listing
  <2>3. QED
    BY <1>2, <2>1, <2>2 DEF ShownInv
<1>7. QED
  BY <1>4, <1>5, <1>6 DEF WorkspaceInv

LEMMA Sure ==
  ASSUME WorkspaceInv, ~unsure
  PROVE  /\ \A d \in Dataset : import[d] \notin {"failed", "lost"}
         /\ \A l, m \in 1..MaxLists : lists[l] # None /\ lists[m] # None => l = m
         /\ Listing => changes = {}
         /\ \A b, c \in changes : b.of = c.of => b = c
BY DEF WorkspaceInv, RequestsInv

LEMMA Listed ==
  ASSUME WorkspaceInv, ~unsure, ~Unlisted
  PROVE  /\ \A c \in changes : c.stage = "sent" => datasets[c.of] # Absent
         /\ \A l \in 1..MaxLists : lists[l].stage = "read" => lists[l].content \in Pages(datasets)
         /\ onPage /\ ~Listing => PageShows
BY DEF WorkspaceInv, ShownInv

(* A step that concerns neither what the server has nor what is shown.     *)
LEMMA ShownStays ==
  ASSUME WorkspaceInv, UNCHANGED <<datasets, onPage, objects, lists, changes>>,
         ~unsure' => ~unsure, ~unsure' /\ ~Unlisted' => ~Unlisted
  PROVE  ShownInv'
<1>1. Listing' = Listing /\ (PageShows <=> PageShows')
  BY DEF Listing, PageShows
<1>2. Pages(datasets)' = Pages(datasets)
  BY DEF Pages, Names
<1>3. QED
  BY <1>1, <1>2, Listed DEF ShownInv

LEMMA RequestsStay ==
  ASSUME WorkspaceInv, UNCHANGED <<lists, changes>>, ~unsure' => ~unsure,
         ~unsure' => \A d \in Dataset : import'[d] \notin {"failed", "lost"}
  PROVE  RequestsInv'
BY DEF WorkspaceInv, RequestsInv, Listing

(* A list is asked for while nothing is under way with which it would      *)
(* cross: what the page shows meanwhile does not count.                    *)
LEMMA ListAsked ==
  ASSUME WorkspaceInv, AskList, UNCHANGED changes,
         ~unsure' => \A d \in Dataset : import'[d] \notin {"failed", "lost"}
  PROVE  /\ \A l \in 1..MaxLists : lists'[l] \in AList
         /\ unsure' \in BOOLEAN
         /\ RequestsInv' /\ ShownInv'
<1> DEFINE asked == [stage |-> "asked"]
<1>1. PICK k \in 1..MaxLists : lists[k] = None /\ lists' = [lists EXCEPT ![k] = asked]
  BY DEF AskList
<1>0. /\ asked \in AList /\ asked # None /\ asked.stage # "read"
      /\ None \in AList /\ None.stage # "read"
  BY ListStages
<1> HIDE DEF asked
<1>2. unsure' = (unsure \/ Listing \/ changes # {})
  BY DEF AskList
<1>3. /\ DOMAIN lists' = 1..MaxLists
      /\ \A l \in 1..MaxLists : lists'[l] = IF l = k THEN asked ELSE lists[l]
  BY <1>1, WorkspaceFacts
<1>4. \A l \in 1..MaxLists : lists'[l] \in AList
  BY <1>0, <1>3, WorkspaceFacts
<1>5. ASSUME ~unsure'
      PROVE  /\ changes' = {} /\ Listing'
             /\ \A l \in 1..MaxLists : lists'[l] # None => l = k
             /\ \A l \in 1..MaxLists : lists'[l].stage # "read"
  <2>1. \A l \in 1..MaxLists : lists[l] = None
    BY <1>2, <1>5 DEF Listing
  <2>2. \A l \in 1..MaxLists : lists'[l] = IF l = k THEN asked ELSE None
    BY <1>3, <2>1
  <2>3. changes' = {}
    BY <1>2, <1>5
  <2>4. QED
    BY <1>0, <2>2, <2>3 DEF Listing
<1>6. RequestsInv'
  BY <1>3, <1>5 DEF RequestsInv
<1>7. ShownInv'
  BY <1>5 DEF ShownInv
<1>8. unsure' \in BOOLEAN
  BY <1>2, WorkspaceFacts
<1>9. QED
  BY <1>4, <1>6, <1>7, <1>8

LEMMA ListReadKeeps ==
  ASSUME WorkspaceInv, NEW l \in 1..MaxLists, ListRead(l)
  PROVE  WorkspaceInv'
<1>1. PICK c \in Pages(datasets) : lists' = [lists EXCEPT ![l] = [stage |-> "read", content |-> c]]
  BY DEF ListRead
<1> DEFINE new == [stage |-> "read", content |-> c]
<1>2. /\ lists[l].stage = "asked"
      /\ UNCHANGED <<datasets, onPage, objects, changes, deletions, importDialog, import, unsure,
                     importer, linking>>
  BY DEF ListRead
<1>3. c \in Content
  BY DEF Pages
<1>4. new \in AList /\ new # None /\ new.stage = "read" /\ new.content = c
  BY <1>3, ListStages
<1>5. lists[l] # None
  BY <1>2 DEF None
<1>6. lists' = [lists EXCEPT ![l] = new]
  BY <1>1
<1> HIDE DEF new
<1>7. /\ DOMAIN lists' = 1..MaxLists
      /\ \A m \in 1..MaxLists : lists'[m] = IF m = l THEN new ELSE lists[m]
  BY <1>6, WorkspaceFacts
<1>8. Listing' /\ Listing
  BY <1>4, <1>5, <1>7 DEF Listing
<1>9. WorkspaceTypeOK'
  BY <1>2, <1>4, <1>7, WorkspaceFacts, WorkspacePartsPrime
<1>10. RequestsInv'
  BY <1>2, <1>5, <1>7, <1>8 DEF WorkspaceInv, RequestsInv
<1>11. ShownInv'
  <2>1. ASSUME ~unsure, ~Unlisted, NEW m \in 1..MaxLists, lists'[m].stage = "read"
        PROVE  lists'[m].content \in Pages(datasets)
    BY <1>4, <1>7, <2>1, Listed
  <2>2. Pages(datasets)' = Pages(datasets) /\ Unlisted' = Unlisted
    BY <1>2 DEF Pages, Names, Unlisted
  <2>3. QED
    BY <1>2, <1>8, <2>1, <2>2, Listed DEF ShownInv
<1>12. QED
  BY <1>9, <1>10, <1>11 DEF WorkspaceInv

LEMMA ListShownKeeps ==
  ASSUME WorkspaceInv, NEW l \in 1..MaxLists, ListShown(l)
  PROVE  WorkspaceInv'
<1>1. /\ lists[l].stage = "read" /\ lists' = [lists EXCEPT ![l] = None]
      /\ objects' = lists[l].content
      /\ UNCHANGED <<datasets, onPage, changes, deletions, importDialog, import, unsure,
                     importer, linking>>
  BY DEF ListShown
<1>2. /\ lists[l] \in AList /\ lists[l] # None /\ lists[l].content \in Content
  BY <1>1, ListStages, WorkspaceFacts
<1>3. /\ DOMAIN lists' = 1..MaxLists
      /\ \A m \in 1..MaxLists : lists'[m] = IF m = l THEN None ELSE lists[m]
  BY <1>1, WorkspaceFacts
<1>4. Listing
  BY <1>2 DEF Listing
<1>5. WorkspaceTypeOK'
  BY <1>1, <1>2, <1>3, ListStages, WorkspaceFacts, WorkspacePartsPrime
<1>6. RequestsInv'
  BY <1>1, <1>3, <1>4 DEF WorkspaceInv, RequestsInv
<1>7. ASSUME ~unsure', ~Unlisted'
      PROVE  /\ \A m \in 1..MaxLists : lists'[m].stage # "read"
             /\ changes' = {} /\ PageShows'
  <2>1. ~unsure /\ ~Unlisted /\ changes = {}
    BY <1>1, <1>4, <1>7, Sure DEF Unlisted
  <2>2. \A m \in 1..MaxLists : lists'[m].stage # "read"
    BY <1>2, <1>3, <2>1, Sure, ListStages
  <2>3. objects' \in Pages(datasets)
    BY <1>1, <2>1, Listed
  <2>4. /\ \A d \in Dataset : objects'[d] \in {datasets[d], Absent}
        /\ \A d \in Dataset : datasets[d] # Absent =>
              \E e \in Dataset : ShortName[e] = ShortName[d] /\ objects'[e] # Absent
        /\ \A d, e \in Dataset : d # e /\ ShortName[d] = ShortName[e]
                                  => objects'[d] = Absent \/ objects'[e] = Absent
    BY <1>1, <1>2, <2>3, PagesMeans, WorkspaceFacts
  <2>5. QED
    BY <1>1, <2>1, <2>2, <2>4 DEF PageShows
<1>8. ShownInv'
  BY <1>7 DEF ShownInv
<1>9. QED
  BY <1>5, <1>6, <1>8 DEF WorkspaceInv

LEMMA SetTypeKeeps ==
  ASSUME WorkspaceInv, NEW d \in Dataset, NEW t \in DatasetType, SetType(d, t)
  PROVE  WorkspaceInv'
<1> DEFINE new == [of |-> d, type |-> t, stage |-> "sent"]
<1>1. /\ onPage /\ objects[d] # Absent
      /\ objects' = [objects EXCEPT ![d] = t]
      /\ changes' = changes \cup {new}
      /\ unsure' = (unsure \/ Listing \/ \E c \in changes : c.of = d)
      /\ UNCHANGED <<datasets, onPage, lists, deletions, importDialog, import, importer, linking>>
  BY DEF SetType, OnMap
<1>2. new \in Change /\ new.of = d /\ new.type = t /\ new.stage = "sent"
  BY DEF Change
<1> HIDE DEF new
<1>3. t # Absent /\ objects' \in Content
  BY <1>1, WorkspaceConstants, WorkspaceFacts DEF Content
<1>4. \A e \in Dataset : objects'[e] = IF e = d THEN t ELSE objects[e]
  BY <1>1, WorkspaceFacts DEF Content
<1>5. unsure' \in BOOLEAN
  BY <1>1, WorkspaceFacts
<1>6. WorkspaceTypeOK'
  BY <1>1, <1>2, <1>3, <1>5, WorkspaceFacts, WorkspacePartsPrime
<1>7. ASSUME ~unsure'
      PROVE  ~unsure /\ ~Listing /\ ~Listing' /\ \A c \in changes : c.of # d
  BY <1>1, <1>7 DEF Listing
<1>8. RequestsInv'
  BY <1>1, <1>2, <1>7, Sure DEF WorkspaceInv, RequestsInv
<1>9. ASSUME ~unsure', ~Unlisted'
      PROVE  /\ \A c \in changes' : c.stage = "sent" => datasets'[c.of] # Absent
             /\ \A l \in 1..MaxLists : lists'[l].stage # "read"
             /\ PageShows'
  <2>1. ~unsure /\ ~Unlisted /\ PageShows /\ \A c \in changes : c.of # d
    BY <1>1, <1>7, <1>9, Listed DEF Unlisted
  <2>2. \A l \in 1..MaxLists : lists'[l].stage # "read"
    <3>1. \A l \in 1..MaxLists : lists[l] = None
      BY <1>7, <1>9 DEF Listing
    <3>2. QED
      BY <1>1, <3>1 DEF None
  <2>3. datasets[d] # Absent
    BY <1>1, <2>1 DEF PageShows
  <2>4. \A c \in changes' : c.stage = "sent" => datasets'[c.of] # Absent
    BY <1>1, <1>2, <2>1, <2>3, Listed
  <2>5. /\ \A e \in Dataset : objects[e] # Absent <=> objects'[e] # Absent
    BY <1>1, <1>3, <1>4
  <2>6. ASSUME NEW c \in changes', c.stage = "sent" PROVE objects'[c.of] \in {c.type, Absent}
    <3>1. CASE c = new
      BY <1>2, <1>4, <3>1
    <3>2. CASE c \in changes
      <4>1. c.of \in Dataset /\ c.of # d
        BY <2>1, <3>2, WorkspaceFacts DEF Change
      <4>2. QED
        BY <1>4, <2>1, <2>6, <3>2, <4>1 DEF PageShows
    <3>3. QED
      BY <1>1, <3>1, <3>2
  <2>7. ASSUME NEW e \in Dataset, \A c \in changes' : c.of = e => c.stage # "sent"
        PROVE  objects'[e] \in {datasets'[e], Absent}
    <3>1. e # d
      BY <1>1, <1>2, <2>7
    <3>2. QED
      BY <1>1, <1>4, <2>1, <2>7, <3>1 DEF PageShows
  <2>8. /\ \A e \in Dataset : objects'[e] # Absent => datasets'[e] # Absent
        /\ \A e \in Dataset : datasets'[e] # Absent =>
              \E f \in Dataset : ShortName[f] = ShortName[e] /\ objects'[f] # Absent
        /\ \A e, f \in Dataset : e # f /\ ShortName[e] = ShortName[f]
                                  => objects'[e] = Absent \/ objects'[f] = Absent
    BY <1>1, <2>1, <2>5 DEF PageShows
  <2>9. PageShows'
    BY <2>6, <2>7, <2>8 DEF PageShows
  <2>10. QED
    BY <2>2, <2>4, <2>9
<1>10. ShownInv'
  BY <1>9 DEF ShownInv
<1>11. QED
  BY <1>6, <1>8, <1>10 DEF WorkspaceInv

LEMMA TypeSetKeeps ==
  ASSUME WorkspaceInv, NEW c \in changes, TypeSet(c)
  PROVE  WorkspaceInv'
<1> DEFINE done == [c EXCEPT !.stage = "done"]
<1>1. /\ c.stage = "sent"
      /\ changes' = (changes \ {c}) \cup {done}
      /\ datasets' = IF datasets[c.of] = Absent THEN datasets ELSE [datasets EXCEPT ![c.of] = c.type]
      /\ UNCHANGED <<onPage, objects, lists, deletions, importDialog, import, unsure, importer,
                     linking>>
  BY DEF TypeSet
<1>2. /\ c \in Change /\ c.of \in Dataset /\ c.type \in DatasetType /\ c.type # Absent
      /\ done \in Change /\ done.of = c.of /\ done.stage = "done" /\ done.type = c.type
  BY WorkspaceFacts, WorkspaceConstants DEF Change
<1> HIDE DEF done
<1>3. /\ datasets' \in Content
      /\ \A d \in Dataset : datasets'[d] = IF d = c.of /\ datasets[d] # Absent THEN c.type ELSE datasets[d]
  BY <1>1, <1>2, WorkspaceFacts DEF Content
<1>4. WorkspaceTypeOK'
  BY <1>1, <1>2, <1>3, WorkspaceFacts, WorkspacePartsPrime
<1>5. ~unsure => ~Listing
  BY Sure
<1>6. RequestsInv'
  BY <1>1, <1>2, <1>5, Sure DEF WorkspaceInv, RequestsInv, Listing
<1>7. ASSUME ~unsure', ~Unlisted'
      PROVE  /\ \A b \in changes' : b.stage = "sent" => datasets'[b.of] # Absent
             /\ \A l \in 1..MaxLists : lists'[l].stage # "read"
             /\ onPage' => PageShows'
  <2>1. /\ ~unsure /\ ~Unlisted /\ datasets[c.of] # Absent
        /\ \A b \in changes \ {c} : b.of # c.of
        /\ onPage => PageShows
    BY <1>1, <1>5, <1>7, Listed, Sure DEF Unlisted
  <2>2. \A l \in 1..MaxLists : lists'[l].stage # "read"
    <3>1. \A l \in 1..MaxLists : lists[l] = None
      BY <1>5, <2>1 DEF Listing
    <3>2. QED
      BY <1>1, <3>1 DEF None
  <2>3. \A d \in Dataset : datasets'[d] # Absent <=> datasets[d] # Absent
    BY <1>2, <1>3
  <2>4. ASSUME NEW b \in changes', b.stage = "sent"
        PROVE  b \in changes /\ b # c /\ b.of # c.of /\ b.of \in Dataset
    BY <1>1, <1>2, <2>1, <2>4, WorkspaceFacts DEF Change
  <2>5. \A b \in changes' : b.stage = "sent" => datasets'[b.of] # Absent
    BY <2>1, <2>3, <2>4, Listed
  <2>6. ASSUME onPage PROVE PageShows'
    <3>1. PageShows
      BY <2>1, <2>6
    <3>2. \A b \in changes' : b.stage = "sent" => objects'[b.of] \in {b.type, Absent}
      BY <1>1, <2>4, <3>1 DEF PageShows
    <3>3. ASSUME NEW d \in Dataset, \A b \in changes' : b.of = d => b.stage # "sent"
          PROVE  objects'[d] \in {datasets'[d], Absent}
      <4>1. CASE d = c.of
        <5>1. objects[d] \in {c.type, Absent}
          BY <1>1, <3>1, <4>1 DEF PageShows
        <5>2. QED
          BY <1>1, <1>3, <2>1, <4>1, <5>1
      <4>2. CASE d # c.of
        <5>1. \A b \in changes : b.of = d => b.stage # "sent"
          BY <1>1, <3>3, <4>2
        <5>2. QED
          BY <1>1, <1>3, <3>1, <4>2, <5>1 DEF PageShows
      <4>3. QED
        BY <4>1, <4>2
    <3>4. /\ \A e \in Dataset : objects'[e] # Absent => datasets'[e] # Absent
          /\ \A e \in Dataset : datasets'[e] # Absent =>
                \E f \in Dataset : ShortName[f] = ShortName[e] /\ objects'[f] # Absent
          /\ \A e, f \in Dataset : e # f /\ ShortName[e] = ShortName[f]
                                    => objects'[e] = Absent \/ objects'[f] = Absent
      BY <1>1, <2>3, <3>1 DEF PageShows
    <3>5. QED
      BY <3>2, <3>3, <3>4 DEF PageShows
  <2>7. QED
    BY <1>1, <2>2, <2>5, <2>6
<1>8. ShownInv'
  BY <1>7 DEF ShownInv
<1>9. QED
  BY <1>4, <1>6, <1>8 DEF WorkspaceInv

LEMMA TypeAnsweredKeeps ==
  ASSUME WorkspaceInv, NEW c \in changes, TypeAnswered(c)
  PROVE  WorkspaceInv'
<1>1. /\ c.stage = "done" /\ changes' = changes \ {c}
      /\ UNCHANGED <<datasets, onPage, objects, lists, deletions, importDialog, import, unsure,
                     importer, linking>>
  BY DEF TypeAnswered
<1>2. WorkspaceTypeOK'
  BY <1>1, WorkspaceFacts, WorkspacePartsPrime
<1>3. RequestsInv'
  BY <1>1 DEF WorkspaceInv, RequestsInv, Listing
<1>4. Listing' = Listing /\ Unlisted' = Unlisted /\ Pages(datasets)' = Pages(datasets)
  BY <1>1 DEF Listing, Unlisted, Pages, Names
<1>5. PageShows => PageShows'
  <2> SUFFICES ASSUME PageShows PROVE PageShows'
    OBVIOUS
  <2>1. \A d \in Dataset : (\A b \in changes' : b.of = d => b.stage # "sent") =>
                              \A b \in changes : b.of = d => b.stage # "sent"
    BY <1>1
  <2>2. QED
    BY <1>1, <2>1 DEF PageShows
<1>6. ShownInv'
  BY <1>1, <1>4, <1>5, Listed DEF ShownInv
<1>7. QED
  BY <1>2, <1>3, <1>6 DEF WorkspaceInv

LEMMA DeleteDatasetKeeps ==
  ASSUME WorkspaceInv, NEW d \in Dataset, DeleteDataset(d)
  PROVE  WorkspaceInv'
<1> DEFINE new == [of |-> d, stage |-> "sent", live |-> TRUE]
<1>1. /\ deletions' = deletions \cup {new}
      /\ UNCHANGED <<datasets, onPage, objects, lists, changes, importDialog, import, unsure,
                     importer, linking>>
  BY DEF DeleteDataset
<1>2. new \in Deletion /\ new.stage # "done"
  BY DEF Deletion
<1> HIDE DEF new
<1>3. WorkspaceTypeOK'
  BY <1>1, <1>2, WorkspaceFacts, WorkspacePartsPrime
<1>4. Unlisted => Unlisted'
  BY <1>1 DEF Unlisted
<1>5. RequestsInv' /\ ShownInv'
  BY <1>1, <1>4, RequestsStay, ShownStays, WorkspaceFacts, Sure
<1>6. QED
  BY <1>3, <1>5 DEF WorkspaceInv

LEMMA DatasetDeletedKeeps ==
  ASSUME WorkspaceInv, NEW x \in deletions, DatasetDeleted(x)
  PROVE  WorkspaceInv'
<1> DEFINE done == [x EXCEPT !.stage = "done"]
<1>1. /\ deletions' = (deletions \ {x}) \cup {done}
      /\ datasets' = [datasets EXCEPT ![x.of] = Absent]
      /\ UNCHANGED <<onPage, objects, lists, changes, importDialog, import, unsure, importer,
                     linking>>
  BY DEF DatasetDeleted
<1>2. done \in Deletion /\ done.stage = "done"
  BY WorkspaceFacts DEF Deletion
<1> HIDE DEF done
<1>3. datasets' \in Content
  BY <1>1, WorkspaceFacts DEF Content
<1>4. WorkspaceTypeOK'
  BY <1>1, <1>2, <1>3, WorkspaceFacts, WorkspacePartsPrime
<1>5. Unlisted'
  BY <1>1, <1>2 DEF Unlisted
<1>6. RequestsInv'
  BY <1>1, RequestsStay, WorkspaceFacts, Sure
<1>7. QED
  BY <1>4, <1>5, <1>6 DEF WorkspaceInv, ShownInv

(* setRefresh(true): a list is asked for, or no one is sure.               *)
LEMMA Refreshed ==
  ASSUME WorkspaceInv, NEW live \in BOOLEAN, RefreshWorkspace(live), UNCHANGED changes,
         ~unsure' => \A d \in Dataset : import'[d] \notin {"failed", "lost"}
  PROVE  /\ \A l \in 1..MaxLists : lists'[l] \in AList
         /\ unsure' \in BOOLEAN /\ onPage' \in BOOLEAN
         /\ RequestsInv' /\ ShownInv'
<1>1. CASE onPage /\ ~live
  <2>1. unsure' = TRUE /\ onPage' = onPage /\ lists' = lists
    BY <1>1 DEF RefreshWorkspace
  <2>2. QED
    BY <2>1, WorkspaceFacts DEF RequestsInv, ShownInv
<1>2. CASE ~(onPage /\ ~live)
  <2>1. AskList /\ onPage' = TRUE
    BY <1>2 DEF RefreshWorkspace
  <2>2. QED
    BY <2>1, ListAsked
<1>3. QED
  BY <1>1, <1>2

LEMMA DeletionAnsweredKeeps ==
  ASSUME WorkspaceInv, NEW x \in deletions, DeletionAnswered(x)
  PROVE  WorkspaceInv'
<1>1. /\ deletions' = deletions \ {x} /\ RefreshWorkspace(x.live)
      /\ UNCHANGED <<datasets, objects, changes, importDialog, import, importer, linking>>
  BY DEF DeletionAnswered
<1>2. x.live \in BOOLEAN
  BY WorkspaceFacts DEF Deletion
<1>3. ~unsure' => ~unsure
  BY <1>1 DEF RefreshWorkspace, AskList
<1>4. /\ \A l \in 1..MaxLists : lists'[l] \in AList
      /\ unsure' \in BOOLEAN /\ onPage' \in BOOLEAN
      /\ RequestsInv' /\ ShownInv'
  BY <1>1, <1>2, <1>3, Refreshed, WorkspaceFacts, Sure
<1>5. WorkspaceTypeOK'
  BY <1>1, <1>4, WorkspaceFacts, WorkspacePartsPrime
<1>6. QED
  BY <1>4, <1>5 DEF WorkspaceInv

LEMMA LinkDatasetKeeps ==
  ASSUME WorkspaceInv, NEW d \in Dataset, LinkDataset(d)
  PROVE  WorkspaceInv'
<1>1. /\ linking' = linking \cup {d}
      /\ UNCHANGED <<datasets, onPage, objects, lists, changes, deletions, importDialog, import,
                     unsure, importer>>
  BY DEF LinkDataset
<1>2. WorkspaceTypeOK'
  BY <1>1, WorkspaceFacts, WorkspacePartsPrime
<1>3. Unlisted' = Unlisted
  BY <1>1 DEF Unlisted
<1>4. RequestsInv' /\ ShownInv'
  BY <1>1, <1>3, RequestsStay, ShownStays, WorkspaceFacts, Sure
<1>5. QED
  BY <1>2, <1>4 DEF WorkspaceInv

LEMMA LinkedKeeps ==
  ASSUME WorkspaceInv, NEW d \in linking, Linked(d)
  PROVE  WorkspaceInv'
<1>0. d \in Dataset
  BY WorkspaceFacts
<1>1. /\ linking' = linking \ {d}
      /\ UNCHANGED <<onPage, objects, lists, changes, deletions, importDialog, import, unsure,
                     importer>>
  BY DEF Linked
<1>2. Unlisted' = Unlisted /\ Listing' = Listing
  BY <1>1 DEF Unlisted, Listing
<1>3. RequestsInv'
  BY <1>1, RequestsStay, WorkspaceFacts, Sure
<1>4. CASE datasets' = datasets
  <2>1. WorkspaceTypeOK'
    BY <1>1, <1>4, WorkspaceFacts, WorkspacePartsPrime
  <2>2. ShownInv'
    BY <1>1, <1>2, <1>4, ShownStays
  <2>3. QED
    BY <1>3, <2>1, <2>2 DEF WorkspaceInv
<1>5. CASE datasets' # datasets
  <2>1. PICK e \in Dataset : /\ datasets[d] # Absent
                             /\ datasets[e] = Absent /\ ShortName[e] = ShortName[d]
                             /\ datasets' = [datasets EXCEPT ![e] = NoType]
    BY <1>5 DEF Linked
  <2>2. /\ datasets' \in Content
        /\ \A f \in Dataset : datasets'[f] = IF f = e THEN NoType ELSE datasets[f]
    BY <2>1, WorkspaceFacts DEF Content
  <2>3. WorkspaceTypeOK'
    BY <1>1, <2>2, WorkspaceFacts, WorkspacePartsPrime
  <2>4. NoType # Absent /\ datasets'[d] # Absent
    BY <1>0, <2>1, <2>2, WorkspaceConstants
  <2>5. Pages(datasets) \subseteq Pages(datasets')
    <3> SUFFICES ASSUME NEW c \in Pages(datasets) PROVE c \in Pages(datasets')
      OBVIOUS
    <3>1. c \in Content
      BY DEF Pages
    <3>2. /\ \A f \in Dataset : c[f] \in {datasets[f], Absent}
          /\ \A f \in Dataset : datasets[f] # Absent =>
                \E g \in Dataset : ShortName[g] = ShortName[f] /\ c[g] # Absent
          /\ \A f, g \in Dataset : f # g /\ ShortName[f] = ShortName[g]
                                    => c[f] = Absent \/ c[g] = Absent
      BY <3>1, PagesMeans, WorkspaceFacts
    <3>3. \A f \in Dataset : c[f] \in {datasets'[f], Absent}
      BY <2>1, <2>2, <3>2
    <3>4. \A f \in Dataset : datasets'[f] # Absent =>
             \E g \in Dataset : ShortName[g] = ShortName[f] /\ c[g] # Absent
      BY <1>0, <2>1, <2>2, <3>2
    <3>5. QED
      BY <2>2, <3>1, <3>2, <3>3, <3>4, PagesMeans
  <2>6. ASSUME PageShows, \A c \in changes : c.stage = "sent" => datasets[c.of] # Absent
        PROVE  PageShows'
    <3>1. objects[e] = Absent
      BY <2>1, <2>6 DEF PageShows
    <3>2. \A f \in Dataset : objects'[f] # Absent => datasets'[f] # Absent
      BY <1>1, <2>2, <2>4, <2>6 DEF PageShows
    <3>3. \A f \in Dataset : datasets'[f] # Absent =>
             \E g \in Dataset : ShortName[g] = ShortName[f] /\ objects'[g] # Absent
      BY <1>0, <1>1, <2>1, <2>2, <2>6 DEF PageShows
    <3>4. \A f \in Dataset : (\A c \in changes' : c.of = f => c.stage # "sent")
                                => objects'[f] \in {datasets'[f], Absent}
      BY <1>1, <2>2, <2>6, <3>1 DEF PageShows
    <3>5. QED
      BY <1>1, <2>6, <3>2, <3>3, <3>4 DEF PageShows
  <2>7. ASSUME ~unsure, ~Unlisted
        PROVE  /\ \A c \in changes' : c.stage = "sent" => datasets'[c.of] # Absent
               /\ \A l \in 1..MaxLists : lists'[l].stage = "read" => lists'[l].content \in Pages(datasets')
               /\ onPage' /\ ~Listing' => PageShows'
    <3>1. \A c \in changes' : c.stage = "sent" => datasets'[c.of] # Absent
      BY <1>1, <2>2, <2>4, <2>7, Listed, WorkspaceFacts DEF Change
    <3>2. QED
      BY <1>1, <1>2, <2>5, <2>6, <2>7, <3>1, Listed
  <2>8. ShownInv'
    <3>1. Pages(datasets)' = Pages(datasets')
      BY DEF Pages, Names
    <3>2. QED
      BY <1>1, <1>2, <2>7, <3>1 DEF ShownInv
  <2>9. QED
    BY <1>3, <2>3, <2>8 DEF WorkspaceInv
<1>6. QED
  BY <1>4, <1>5

(* Without an import under way nothing is left to be listed.               *)
LEMMA NothingToImport ==
  ASSUME WorkspaceInv, ~unsure, ~Importing, ~AllSettled
  PROVE  \A d \in Dataset : import[d] = "none"
<1>1. \A d \in Dataset : import[d] \in {"none", "saved"}
  BY Sure, WorkspaceFacts DEF Importing, ImportStage
<1>2. ASSUME NEW d \in Dataset, import[d] # "none" PROVE FALSE
  BY <1>1, <1>2 DEF AllSettled
<1>3. QED
  BY <1>2

LEMMA OpenImportKeeps == ASSUME WorkspaceInv, OpenImport PROVE WorkspaceInv'
<1>1. /\ importDialog' = "open"
      /\ UNCHANGED <<datasets, onPage, objects, lists, changes, deletions, import, unsure,
                     importer, linking>>
  BY DEF OpenImport
<1>2. WorkspaceTypeOK'
  BY <1>1, WorkspaceFacts, WorkspacePartsPrime
<1>3. Unlisted' = Unlisted
  BY <1>1 DEF Unlisted
<1>4. RequestsInv' /\ ShownInv'
  BY <1>1, <1>3, RequestsStay, ShownStays, Sure
<1>5. QED
  BY <1>2, <1>4 DEF WorkspaceInv

LEMMA CancelImportKeeps == ASSUME WorkspaceInv, CancelImport PROVE WorkspaceInv'
<1>1. /\ importDialog' = "closed"
      /\ UNCHANGED <<datasets, onPage, objects, lists, changes, deletions, import, unsure,
                     importer, linking>>
  BY DEF CancelImport
<1>2. WorkspaceTypeOK'
  BY <1>1, WorkspaceFacts, WorkspacePartsPrime
<1>3. Unlisted' = Unlisted
  BY <1>1 DEF Unlisted
<1>4. RequestsInv' /\ ShownInv'
  BY <1>1, <1>3, RequestsStay, ShownStays, Sure
<1>5. QED
  BY <1>2, <1>4 DEF WorkspaceInv

LEMMA ImportKeeps == ASSUME WorkspaceInv, NEW chosen, Import(chosen) PROVE WorkspaceInv'
<1>1. /\ ~Importing /\ ~AllSettled
      /\ importDialog' = "importing" /\ importer' = TRUE
      /\ import' = [d \in Dataset |-> IF d \in chosen THEN "reading" ELSE "none"]
      /\ UNCHANGED <<datasets, onPage, objects, lists, changes, deletions, unsure, linking>>
  BY DEF Import
<1>2. import' \in [Dataset -> ImportStage] /\ \A d \in Dataset : import'[d] \in {"reading", "none"}
  BY <1>1 DEF ImportStage
<1>3. WorkspaceTypeOK'
  BY <1>1, <1>2, WorkspaceFacts, WorkspacePartsPrime
<1>4. ~unsure' /\ ~Unlisted' => ~Unlisted
  BY <1>1, NothingToImport DEF Unlisted
<1>5. RequestsInv' /\ ShownInv'
  BY <1>1, <1>2, <1>4, RequestsStay, ShownStays
<1>6. QED
  BY <1>3, <1>5 DEF WorkspaceInv

LEMMA ImportedKeeps ==
  ASSUME WorkspaceInv, NEW d \in Dataset, NEW from \in {"reading", "saving"},
         NEW to \in {"saving", "lost", "failed", "saved"}, Imported(d, from, to)
  PROVE  WorkspaceInv'
<1>1. /\ import[d] = from /\ import' = [import EXCEPT ![d] = to]
      /\ datasets' = IF to = "saved" THEN [datasets EXCEPT ![d] = NoType] ELSE datasets
      /\ unsure' = (unsure \/ to \in {"failed", "lost"})
      /\ UNCHANGED <<onPage, objects, lists, changes, deletions, importDialog, importer, linking>>
  BY DEF Imported
<1>2. /\ import' \in [Dataset -> ImportStage]
      /\ \A e \in Dataset : import'[e] = IF e = d THEN to ELSE import[e]
  BY <1>1, WorkspaceFacts DEF ImportStage
<1>3. datasets' \in Content
  BY <1>1, WorkspaceFacts DEF Content
<1>4. unsure' \in BOOLEAN
  BY <1>1, WorkspaceFacts
<1>5. WorkspaceTypeOK'
  BY <1>1, <1>2, <1>3, <1>4, WorkspaceFacts, WorkspacePartsPrime
<1>6. RequestsInv'
  BY <1>1, <1>2, RequestsStay, Sure
<1>7. CASE to = "saved"
  <2>1. Unlisted'
    BY <1>2, <1>7 DEF Unlisted
  <2>2. QED
    BY <1>5, <1>6, <2>1 DEF WorkspaceInv, ShownInv
<1>8. CASE to # "saved"
  <2>1. Unlisted => Unlisted'
    BY <1>1, <1>2 DEF Unlisted
  <2>2. ShownInv'
    BY <1>1, <1>8, <2>1, ShownStays
  <2>3. QED
    BY <1>5, <1>6, <2>2 DEF WorkspaceInv
<1>9. QED
  BY <1>7, <1>8

LEMMA ImportDoneKeeps == ASSUME WorkspaceInv, ImportDone PROVE WorkspaceInv'
<1>1. /\ RefreshWorkspace(importer)
      /\ importDialog' = IF importer THEN "closed" ELSE importDialog
      /\ import' = [d \in Dataset |-> "none"]
      /\ UNCHANGED <<datasets, objects, changes, deletions, importer, linking>>
  BY DEF ImportDone
<1>2. import' \in [Dataset -> ImportStage] /\ \A d \in Dataset : import'[d] = "none"
  BY <1>1 DEF ImportStage
<1>3. /\ \A l \in 1..MaxLists : lists'[l] \in AList
      /\ unsure' \in BOOLEAN /\ onPage' \in BOOLEAN
      /\ RequestsInv' /\ ShownInv'
  BY <1>1, <1>2, Refreshed, WorkspaceFacts
<1>4. WorkspaceTypeOK'
  BY <1>1, <1>2, <1>3, WorkspaceFacts, WorkspacePartsPrime
<1>5. QED
  BY <1>3, <1>4 DEF WorkspaceInv

LEMMA LeaveWorkspaceKeeps == ASSUME WorkspaceInv, LeaveWorkspace PROVE WorkspaceInv'
<1>1. /\ onPage' = FALSE /\ objects' = Empty /\ importDialog' = "closed" /\ importer' = FALSE
      /\ lists' = [l \in 1..MaxLists |-> None]
      /\ deletions' = {[x EXCEPT !.live = FALSE] : x \in deletions}
      /\ UNCHANGED <<datasets, changes, import, unsure, linking>>
  BY DEF LeaveWorkspace
<1>2. /\ \A y \in deletions' : y \in Deletion
      /\ \A x \in deletions : \E y \in deletions' : y.stage = x.stage
  <2>1. ASSUME NEW x \in deletions
        PROVE  [x EXCEPT !.live = FALSE] \in Deletion /\ [x EXCEPT !.live = FALSE].stage = x.stage
    BY WorkspaceFacts DEF Deletion
  <2>2. QED
    BY <1>1, <2>1
<1>3. /\ DOMAIN lists' = 1..MaxLists
      /\ \A l \in 1..MaxLists : lists'[l] = None /\ lists'[l] \in AList /\ lists'[l].stage # "read"
  BY <1>1, ListStages
<1>4. objects' \in Content
  BY <1>1 DEF Empty, Content
<1>5. WorkspaceTypeOK'
  BY <1>1, <1>2, <1>3, <1>4, WorkspaceFacts, WorkspacePartsPrime
<1>6. ~Listing'
  BY <1>3 DEF Listing
<1>7. RequestsInv'
  BY <1>1, <1>3, <1>6, Sure DEF RequestsInv
<1>8. Unlisted => Unlisted'
  BY <1>1, <1>2 DEF Unlisted
<1>9. ShownInv'
  BY <1>1, <1>3, <1>8, Listed DEF ShownInv
<1>10. QED
  BY <1>5, <1>7, <1>9 DEF WorkspaceInv

LEMMA ReturnKeeps == ASSUME WorkspaceInv, Return PROVE WorkspaceInv'
<1>1. /\ onPage' = TRUE /\ AskList
      /\ UNCHANGED <<datasets, objects, changes, deletions, importDialog, import, importer, linking>>
  BY DEF Return
<1>2. ~unsure' => ~unsure
  BY <1>1 DEF AskList
<1>3. /\ \A l \in 1..MaxLists : lists'[l] \in AList
      /\ unsure' \in BOOLEAN
      /\ RequestsInv' /\ ShownInv'
  BY <1>1, <1>2, ListAsked, WorkspaceFacts, Sure
<1>4. WorkspaceTypeOK'
  BY <1>1, <1>3, WorkspaceFacts, WorkspacePartsPrime
<1>5. QED
  BY <1>3, <1>4 DEF WorkspaceInv

LEMMA WorkspaceFailsKeeps == ASSUME WorkspaceInv, WorkspaceFails PROVE WorkspaceInv'
<1>1. /\ unsure' = TRUE
      /\ UNCHANGED <<datasets, onPage, objects, importDialog, import, importer, linking>>
  BY DEF WorkspaceFails
<1>2. /\ changes' \subseteq Change /\ deletions' \subseteq Deletion
      /\ DOMAIN lists' = 1..MaxLists /\ \A l \in 1..MaxLists : lists'[l] \in AList
  <2>1. CASE /\ \E l \in 1..MaxLists : lists[l] # None /\ lists' = [lists EXCEPT ![l] = None]
             /\ UNCHANGED <<changes, deletions>>
    BY <2>1, WorkspaceFacts, ListStages
  <2>2. CASE \E c \in changes : changes' = changes \ {c} /\ UNCHANGED <<lists, deletions>>
    BY <2>2, WorkspaceFacts
  <2>3. CASE \E d \in deletions : deletions' = deletions \ {d} /\ UNCHANGED <<lists, changes>>
    BY <2>3, WorkspaceFacts
  <2>4. QED
    BY <2>1, <2>2, <2>3 DEF WorkspaceFails
<1>3. WorkspaceTypeOK'
  BY <1>1, <1>2, WorkspaceFacts, WorkspacePartsPrime
<1>4. RequestsInv' /\ ShownInv'
  BY <1>1, <1>2, WorkspaceFacts DEF RequestsInv, ShownInv
<1>5. QED
  BY <1>3, <1>4 DEF WorkspaceInv

LEMMA WorkspaceInvNext == WorkspaceInv /\ [WorkspaceNext]_workspaceVars => WorkspaceInv'
<1> SUFFICES ASSUME WorkspaceInv, [WorkspaceNext]_workspaceVars PROVE WorkspaceInv'
  OBVIOUS
<1>1. CASE UNCHANGED workspaceVars
  <2>1. /\ UNCHANGED <<datasets, onPage, objects, lists, changes, deletions, importDialog, import,
                       linking, importer, unsure>>
    BY <1>1 DEF workspaceVars
  <2>2. WorkspaceTypeOK'
    BY <2>1, WorkspaceFacts, WorkspacePartsPrime
  <2>3. Unlisted' = Unlisted
    BY <2>1 DEF Unlisted
  <2>4. RequestsInv' /\ ShownInv'
    BY <2>1, <2>3, RequestsStay, ShownStays, WorkspaceFacts, Sure
  <2>5. QED
    BY <2>2, <2>4 DEF WorkspaceInv
<1>2. ASSUME NEW d \in Dataset,
             \/ Imported(d, "reading", "saving") \/ Imported(d, "reading", "lost")
             \/ Imported(d, "saving", "failed") \/ Imported(d, "saving", "saved")
      PROVE  WorkspaceInv'
  BY <1>2, ImportedKeeps
<1>3. CASE WorkspaceNext
  BY <1>2, <1>3, ListReadKeeps, ListShownKeeps, SetTypeKeeps, TypeSetKeeps, TypeAnsweredKeeps,
     DeleteDatasetKeeps, DatasetDeletedKeeps, DeletionAnsweredKeeps, LinkDatasetKeeps,
     LinkedKeeps, OpenImportKeeps, CancelImportKeeps, ImportKeeps, ImportDoneKeeps,
     LeaveWorkspaceKeeps, ReturnKeeps, WorkspaceFailsKeeps DEF WorkspaceNext
<1>4. QED
  BY <1>1, <1>3

(* The inductive invariant of the map of a workspace.                      *)
THEOREM WorkspaceInvariant == WorkspaceSpec => []WorkspaceInv
BY WorkspaceInvInit, WorkspaceInvNext, PTL DEF WorkspaceSpec

(* The map, its requests and the import dialog keep their types.           *)
THEOREM WorkspaceTypeCorrect == WorkspaceSpec => []WorkspaceTypeOK
<1>1. WorkspaceInv => WorkspaceTypeOK
  BY DEF WorkspaceInv
<1>2. QED
  BY <1>1, WorkspaceInvariant, PTL

(* When nothing is under way, the map has a dataset for every short name   *)
(* of the workspace, with its type, and nothing else (WorkspaceView.js),   *)
(* unless a request failed or crossed one that MapIsTrue names.            *)
THEOREM MapIsTrueCorrect == WorkspaceSpec => []MapIsTrue
<1>1. ASSUME WorkspaceInv, onPage, Quiet, ~unsure PROVE objects \in Pages(datasets)
  <2>1. /\ ~Listing /\ changes = {} /\ deletions = {} /\ ~Importing /\ ~AllSettled
    BY <1>1 DEF Quiet
  <2>2. ~Unlisted
    BY <1>1, <2>1, NothingToImport DEF Unlisted
  <2>3. PageShows
    BY <1>1, <2>1, <2>2, Listed
  <2>4. QED
    BY <1>1, <2>1, <2>3, PagesMeans, WorkspaceFacts DEF PageShows
<1>2. WorkspaceInv => MapIsTrue
  BY <1>1 DEF MapIsTrue
<1>3. QED
  BY <1>2, WorkspaceInvariant, PTL

-----------------------------------------------------------------------------
(* The page of an object (UiEntity).                                       *)

Unborn == [value |-> "unborn"]
Gone == [value |-> "deleted"]
AnyCall == [stage : {"sent", "answered"}, kind : Kind, live : BOOLEAN, of : Entity]

(* The object was there once, or has no identity yet.                      *)
Met(table, id) == id # New => table[id] # Unborn

PageTypes ==
    /\ path \in Seq(Element) /\ Len(path) <= MaxPath
    /\ entity \in Entity \cup {Nobody} /\ saved \in Entity \cup {Nobody}
    /\ rows \in [Object -> Row \cup {Unborn, Gone}]
    /\ calls \in [Call -> AnyCall \cup {Idle}]
    /\ crossed \in BOOLEAN

(* The page shows the end of its path; a page without an object has no     *)
(* view that an answer could reach.                                        *)
PathInv ==
    /\ entity = Nobody <=> path = <<>>
    /\ entity # Nobody => entity.id = Last(path).id
    /\ entity = Nobody => saved = Nobody /\ \A c \in Call : calls[c] # Idle => ~calls[c].live
    /\ \A i \in 1 .. Len(path) : Met(rows, path[i].id)
    /\ \A c \in Call : calls[c] # Idle =>
          Met(rows, calls[c].of.id) /\ (calls[c].kind = "command" => calls[c].of.id # New)

(* As long as no two requests for one object crossed, an answer is true    *)
(* until it is applied, and none is for the object of a view that is gone. *)
CallsInv ==
    ~crossed =>
        /\ \A c, d \in Call : calls[c] # Idle /\ calls[d] # Idle
                              /\ calls[c].of.id = calls[d].of.id => c = d
        /\ \A c \in Call : calls[c] # Idle /\ entity # Nobody /\ calls[c].of.id = entity.id
                              => calls[c].live
        /\ \A c \in Call : calls[c] # Idle /\ calls[c].stage = "answered"
                              /\ calls[c].kind \in {"load", "save"}
                              /\ calls[c].of.id # New /\ Exists(calls[c].of.id)
                => rows[calls[c].of.id] = [value |-> calls[c].of.value, name |-> calls[c].of.name]

(* And entity_old is the row of the object that is shown, unless it is     *)
(* being loaded or an answer that changes it is on its way.                *)
Coming(c, id) == calls[c] # Idle /\ calls[c].live /\ calls[c].of.id = id
Loading(id) == \E c \in Call : Coming(c, id) /\ calls[c].kind = "load"
Changing(id) ==
    \E c \in Call : Coming(c, id) /\ calls[c].stage = "answered" /\ calls[c].kind \in {"save", "command"}

SavedInv ==
    ~crossed /\ entity # Nobody /\ entity.id # New =>
        \/ Loading(entity.id)
        \/ saved = Nobody
        \/ ~Exists(entity.id)
        \/ /\ saved.id = entity.id
           /\ \/ rows[entity.id] = [value |-> saved.value, name |-> saved.name]
              \/ Changing(entity.id)

EntityInv == PageTypes /\ PathInv /\ CallsInv /\ SavedInv

LEMMA EntityConstants ==
  /\ New \notin Object /\ Blank \notin Value /\ Born \subseteq Object /\ First \in Name
  /\ MaxPath \in Nat /\ MaxPath >= 1
  /\ Nobody \notin Entity
  /\ \A e \in Entity : e # Nobody
BY EntityAssumption DEF Entity

LEMMA RowsDiffer ==
  /\ Unborn \notin Row /\ Gone \notin Row /\ Unborn # Gone
  /\ \A r \in Row : r.value # "unborn"
  /\ Unborn.value = "unborn" /\ Gone.value # "unborn"
<1>1. Unborn.value = "unborn" /\ Gone.value = "deleted" /\ "deleted" # "unborn"
  BY DEF Unborn, Gone
<1>2. \A r \in Row : r.value \in Value \cup {Blank}
  BY DEF Row
<1>3. "unborn" \notin Value \cup {Blank} /\ "deleted" \notin Value \cup {Blank}
  BY EntityAssumption
<1>4. QED
  BY <1>1, <1>2, <1>3

LEMMA RowIsNotUnborn == \A value, name : [value |-> value, name |-> name] # Unborn
BY DEF Unborn

LEMMA IdOnPath ==
  ASSUME NEW p \in Seq(Element)
  PROVE  \A i \in 1 .. Len(p) : p[i].id \in Object \cup {New}
<1>1. \A i \in 1 .. Len(p) : p[i] \in Element
  BY ElementOfSeq, LenProperties
<1>2. QED
  BY <1>1 DEF Element

LEMMA CallsDiffer == \A c \in AnyCall : c # Idle /\ c.stage # "idle"
BY DEF AnyCall, Idle

(* The beginning of a path.                                                *)
LEMMA Beginning ==
  ASSUME NEW S, NEW s \in Seq(S), NEW n \in Nat, n <= Len(s)
  PROVE  /\ SubSeq(s, 1, n) \in Seq(S) /\ Len(SubSeq(s, 1, n)) = n
         /\ \A i \in 1 .. n : SubSeq(s, 1, n)[i] = s[i]
<1>1. \A i \in 1 .. n : s[i] \in S
  BY ElementOfSeq, LenProperties
<1>2. 1 \in Int /\ n \in Int
  OBVIOUS
<1> DEFINE t == SubSeq(s, 1, n)
<1>3. /\ t \in Seq(S) /\ Len(t) = IF 1 <= n THEN n - 1 + 1 ELSE 0
      /\ \A i \in 1 .. n - 1 + 1 : t[i] = s[1 + i - 1]
  BY <1>1, <1>2, SubSeqProperties
<1> HIDE DEF t
<1>4. Len(t) = n /\ n - 1 + 1 = n /\ \A i \in 1 .. n : 1 + i - 1 = i
  BY <1>3
<1>5. QED
  BY <1>3, <1>4 DEF t

LEMMA PathTo ==
  ASSUME NEW p \in Seq(Element), NEW e \in Element
  PROVE  /\ AddToPath(p, e) \in Seq(Element)
         /\ Len(AddToPath(p, e)) \in 1 .. Len(p) + 1
         /\ Last(AddToPath(p, e)) = e
         /\ \A i \in 1 .. Len(AddToPath(p, e)) :
               AddToPath(p, e)[i] = e \/ \E j \in 1 .. Len(p) : AddToPath(p, e)[i] = p[j]
<1>0. Len(p) \in Nat /\ DOMAIN p = 1 .. Len(p)
  BY LenProperties
<1>1. CASE e \in ToSet(p)
  <2> DEFINE n == CHOOSE i \in DOMAIN p : p[i] = e
  <2>1. n \in 1 .. Len(p) /\ p[n] = e
    BY <1>0, <1>1 DEF ToSet
  <2>2. AddToPath(p, e) = SubSeq(p, 1, n)
    BY <1>1 DEF AddToPath
  <2> HIDE DEF n
  <2>3. n \in Nat /\ n <= Len(p)
    BY <1>0, <2>1
  <2>4. /\ SubSeq(p, 1, n) \in Seq(Element) /\ Len(SubSeq(p, 1, n)) = n
        /\ \A i \in 1 .. n : SubSeq(p, 1, n)[i] = p[i]
    BY <2>3, Beginning
  <2>5. n \in 1 .. n /\ n \in 1 .. Len(p) + 1 /\ \A i \in 1 .. n : i \in 1 .. Len(p)
    BY <1>0, <2>1
  <2>6. QED
    BY <2>1, <2>2, <2>4, <2>5 DEF Last
<1>2. CASE e \notin ToSet(p)
  <2>1. AddToPath(p, e) = Append(p, e)
    BY <1>2 DEF AddToPath
  <2>2. /\ Append(p, e) \in Seq(Element) /\ Len(Append(p, e)) = Len(p) + 1
        /\ \A i \in 1 .. Len(p) : Append(p, e)[i] = p[i]
        /\ Append(p, e)[Len(p) + 1] = e
    BY AppendProperties
  <2>3. \A i \in 1 .. Len(p) + 1 : i \in 1 .. Len(p) \/ i = Len(p) + 1
    BY <1>0
  <2>4. Len(p) + 1 \in 1 .. Len(p) + 1
    BY <1>0
  <2>5. QED
    BY <2>1, <2>2, <2>3, <2>4 DEF Last
<1>3. QED
  BY <1>1, <1>2

(* A path that can be shown, of objects that were there.                   *)
GoodPath(p) ==
    /\ p \in Seq(Element) /\ Len(p) <= MaxPath
    /\ \A i \in 1 .. Len(p) : Met(rows, p[i].id)

LEMMA EndOfPath ==
  ASSUME NEW p, GoodPath(p), p # <<>>
  PROVE  /\ Last(p) \in Element /\ Met(rows, Last(p).id)
         /\ GoodPath(Front(p)) /\ Len(Front(p)) = Len(p) - 1
<1>1. Len(p) \in Nat /\ Len(p) # 0 /\ p \in Seq(Element)
  BY EmptySeq, LenProperties DEF GoodPath
<1>2. Len(p) \in 1 .. Len(p) /\ Len(p) - 1 \in Nat /\ Len(p) - 1 <= Len(p)
  BY <1>1
<1>3. Last(p) \in Element /\ Met(rows, Last(p).id)
  BY <1>1, <1>2, ElementOfSeq DEF GoodPath, Last
<1>4. /\ Front(p) \in Seq(Element) /\ Len(Front(p)) = Len(p) - 1
      /\ \A i \in 1 .. Len(p) - 1 : Front(p)[i] = p[i]
  BY <1>1, <1>2, Beginning DEF Front
<1>5. Len(p) - 1 <= MaxPath /\ \A i \in 1 .. Len(p) - 1 : i \in 1 .. Len(p)
  BY <1>1, EntityConstants DEF GoodPath
<1>6. QED
  BY <1>3, <1>4, <1>5 DEF GoodPath

LEMMA PathReplaced ==
  ASSUME NEW p, GoodPath(p), NEW e \in Element, Met(rows, e.id)
  PROVE  GoodPath(Replace(p, e)) /\ Replace(p, e) # <<>> /\ Last(Replace(p, e)) = e
<1> DEFINE q == IF p = <<>> THEN p ELSE Front(p)
           new == AddToPath(q, e)
<1>0. Replace(p, e) = new
  BY DEF Replace
<1>1. GoodPath(q) /\ Len(q) + 1 <= MaxPath
  <2>1. CASE p = <<>>
    BY <2>1, EntityConstants
  <2>2. CASE p # <<>>
    <3>1. GoodPath(Front(p)) /\ Len(Front(p)) = Len(p) - 1
      BY <2>2, EndOfPath
    <3>2. Len(p) \in Nat /\ Len(p) <= MaxPath /\ MaxPath \in Nat
      BY LenProperties, EntityConstants DEF GoodPath
    <3>3. q = Front(p)
      BY <2>2
    <3>4. Len(p) - 1 + 1 <= MaxPath
      BY <3>2
    <3>5. QED
      BY <3>1, <3>3, <3>4
  <2>3. QED
    BY <2>1, <2>2
<1> HIDE DEF q
<1>2. q \in Seq(Element) /\ Len(q) \in Nat
  BY <1>1, LenProperties DEF GoodPath
<1>3. /\ new \in Seq(Element) /\ Len(new) \in 1 .. Len(q) + 1 /\ Last(new) = e
      /\ \A i \in 1 .. Len(new) : new[i] = e \/ \E j \in 1 .. Len(q) : new[i] = q[j]
  BY <1>2, PathTo
<1> HIDE DEF new
<1>4. Len(new) <= MaxPath /\ Len(new) # 0
  BY <1>1, <1>2, <1>3, EntityConstants
<1>5. \A i \in 1 .. Len(new) : Met(rows, new[i].id)
  BY <1>1, <1>3 DEF GoodPath
<1>6. new # <<>>
  BY <1>4
<1>7. QED
  BY <1>0, <1>3, <1>4, <1>5, <1>6 DEF GoodPath

LEMMA Uncrossed ==
  ASSUME EntityInv, ~crossed
  PROVE  /\ \A c, d \in Call : calls[c] # Idle /\ calls[d] # Idle
                              /\ calls[c].of.id = calls[d].of.id => c = d
         /\ \A c \in Call : calls[c] # Idle /\ entity # Nobody /\ calls[c].of.id = entity.id
                              => calls[c].live
         /\ \A c \in Call : calls[c] # Idle /\ calls[c].stage = "answered"
                              /\ calls[c].kind \in {"load", "save"}
                              /\ calls[c].of.id # New /\ Exists(calls[c].of.id)
                => rows[calls[c].of.id] = [value |-> calls[c].of.value, name |-> calls[c].of.name]
BY DEF EntityInv, CallsInv

LEMMA EntityFacts ==
  ASSUME EntityInv
  PROVE  /\ GoodPath(path)
         /\ entity \in Entity \cup {Nobody} /\ saved \in Entity \cup {Nobody}
         /\ rows \in [Object -> Row \cup {Unborn, Gone}]
         /\ calls \in [Call -> AnyCall \cup {Idle}]
         /\ crossed \in BOOLEAN
         /\ entity = Nobody <=> path = <<>>
         /\ entity # Nobody => entity.id = Last(path).id
         /\ entity = Nobody => saved = Nobody /\ \A c \in Call : calls[c] # Idle => ~calls[c].live
         /\ \A c \in Call : calls[c] # Idle =>
               Met(rows, calls[c].of.id) /\ (calls[c].kind = "command" => calls[c].of.id # New)
BY DEF EntityInv, PageTypes, PathInv, GoodPath

LEMMA Shown ==
  ASSUME EntityInv, entity # Nobody
  PROVE  /\ entity \in Entity /\ path # <<>> /\ entity.id = Last(path).id
         /\ ElementOf(entity) \in Element /\ ElementOf(entity).id = entity.id
         /\ Met(rows, entity.id)
<1>1. entity \in Entity /\ path # <<>> /\ entity.id = Last(path).id
  BY EntityFacts
<1>2. ElementOf(entity) \in Element /\ ElementOf(entity).id = entity.id
  BY <1>1 DEF ElementOf, Entity, Element
<1>3. QED
  BY <1>1, <1>2, EndOfPath, EntityFacts

LEMMA PlaceholderOf ==
  ASSUME NEW e, e \in Element \cup Entity
  PROVE  /\ Placeholder(e) \in Entity /\ Placeholder(e).id = e.id /\ Placeholder(e) # Nobody
         /\ ElementOf(e) \in Element /\ ElementOf(e).id = e.id
<1>1. e.id \in Object \cup {New} /\ e.name \in Name
  BY DEF Element, Entity
<1>2. Placeholder(e) \in Entity /\ Placeholder(e).id = e.id
  BY <1>1 DEF Placeholder, Entity
<1>3. ElementOf(e) \in Element /\ ElementOf(e).id = e.id
  BY <1>1 DEF ElementOf, Element
<1>4. QED
  BY <1>2, <1>3, EntityConstants

LEMMA Sent ==
  ASSUME NEW kind \in Kind, NEW of \in Entity
  PROVE  /\ Send(kind, of) \in AnyCall /\ Send(kind, of) # Idle
         /\ Send(kind, of).stage = "sent" /\ Send(kind, of).kind = kind
         /\ Send(kind, of).live = TRUE /\ Send(kind, of).of.id = of.id
<1>1. of.id \in Object \cup {New}
  BY DEF Entity
<1> DEFINE what == IF kind \in {"save", "command"} THEN of
                   ELSE [id |-> of.id, value |-> Blank, name |-> First]
<1>2. what \in Entity /\ what.id = of.id
  BY <1>1, EntityConstants DEF Entity
<1>3. Send(kind, of) = [stage |-> "sent", kind |-> kind, live |-> TRUE, of |-> what]
  BY DEF Send
<1> DEFINE call == [stage |-> "sent", kind |-> kind, live |-> TRUE, of |-> what]
<1> HIDE DEF what
<1>4. call \in AnyCall
  BY <1>2 DEF AnyCall
<1>5. call.stage = "sent" /\ call.kind = kind /\ call.live = TRUE /\ call.of = what
  OBVIOUS
<1> HIDE DEF call
<1>6. Send(kind, of) = call
  BY <1>3 DEF call
<1>7. QED
  BY <1>2, <1>4, <1>5, <1>6, CallsDiffer

LEMMA SentLoad ==
  ASSUME NEW of \in Element
  PROVE  /\ Send("load", of) \in AnyCall /\ Send("load", of) # Idle
         /\ Send("load", of).stage = "sent" /\ Send("load", of).kind = "load"
         /\ Send("load", of).live = TRUE /\ Send("load", of).of.id = of.id
<1>1. of.id \in Object \cup {New}
  BY DEF Element
<1> DEFINE what == [id |-> of.id, value |-> Blank, name |-> First]
<1>2. what \in Entity /\ what.id = of.id
  BY <1>1, EntityConstants DEF Entity
<1>3. Send("load", of) = [stage |-> "sent", kind |-> "load", live |-> TRUE, of |-> what]
  BY DEF Send
<1> DEFINE call == [stage |-> "sent", kind |-> "load", live |-> TRUE, of |-> what]
<1> HIDE DEF what
<1>4. call \in AnyCall
  BY <1>2 DEF AnyCall, Kind
<1>5. call.stage = "sent" /\ call.kind = "load" /\ call.live = TRUE /\ call.of = what
  OBVIOUS
<1> HIDE DEF call
<1>6. Send("load", of) = call
  BY <1>3 DEF call
<1>7. QED
  BY <1>2, <1>4, <1>5, <1>6, CallsDiffer

LEMMA EntityInvInit == EntityInit => EntityInv
<1> SUFFICES ASSUME EntityInit PROVE EntityInv
  OBVIOUS
<1>1. /\ path = <<>> /\ entity = Nobody /\ saved = Nobody
      /\ rows \in [Object -> {[value |-> "unborn"]} \cup [value : Value, name : {First}]]
      /\ calls = [c \in Call |-> Idle] /\ crossed = FALSE
  BY DEF EntityInit
<1>2. rows \in [Object -> Row \cup {Unborn, Gone}]
  <2>1. [value : Value, name : {First}] \subseteq Row
    BY EntityConstants DEF Row
  <2>2. \A o \in Object : rows[o] \in Row \cup {Unborn, Gone}
    BY <1>1, <2>1 DEF Unborn
  <2>3. QED
    BY <1>1, <2>2
<1>3. path \in Seq(Element) /\ Len(path) = 0 /\ Len(path) <= MaxPath
  BY <1>1, EntityConstants
<1>4. calls \in [Call -> AnyCall \cup {Idle}] /\ \A c \in Call : calls[c] = Idle
  BY <1>1
<1>5. PageTypes
  <2>1. entity \in Entity \cup {Nobody} /\ saved \in Entity \cup {Nobody} /\ crossed \in BOOLEAN
    BY <1>1
  <2>2. QED
    BY ONLY <1>2, <1>3, <1>4, <2>1 DEF PageTypes
<1>6. PathInv
  BY <1>1, <1>3, <1>4 DEF PathInv
<1>7. CallsInv /\ SavedInv
  BY <1>1, <1>4 DEF CallsInv, SavedInv
<1>8. QED
  BY <1>5, <1>6, <1>7 DEF EntityInv

-----------------------------------------------------------------------------
(* What a step leaves of the calls: none that is for the page is dropped,  *)
(* and none that loads or changes what is shown.                           *)
Rest(rest) ==
    /\ rest \in [Call -> AnyCall \cup {Idle}]
    /\ \A c \in Call : rest[c] \in {calls[c], Idle}

Kept(rest) ==
    /\ Rest(rest)
    /\ \A c \in Call : calls[c] # Idle /\ rest[c] = Idle =>
          ~calls[c].live \/ calls[c].kind \notin {"load", "save", "command"}

(* Answers that are not waited for any more, or were applied: what is left *)
(* of the calls is as it was.                                              *)
LEMMA CallsEnd ==
  ASSUME EntityInv, NEW rest, Rest(rest), calls' = rest, rows' = rows,
         GoodPath(path'), saved' \in Entity \cup {Nobody}, crossed' \in BOOLEAN,
         crossed => crossed',
         entity = Nobody => entity' = Nobody /\ saved' = Nobody /\ path' = <<>>,
         entity # Nobody => /\ entity' \in Entity /\ entity'.id = entity.id
                            /\ path' # <<>> /\ Last(path').id = entity.id
  PROVE  PageTypes' /\ PathInv' /\ CallsInv'
<1>r. /\ rest \in [Call -> AnyCall \cup {Idle}]
      /\ \A d \in Call : rest[d] \in {calls[d], Idle}
  BY DEF Rest
<1>e. entity' \in Entity \cup {Nobody} /\ (entity' = Nobody <=> entity = Nobody)
  BY EntityConstants
<1>1. PageTypes'
  BY <1>r, <1>e, EntityFacts DEF PageTypes, GoodPath
<1>2. PathInv'
  <2>1. \A i \in 1 .. Len(path') : Met(rows', path'[i].id)
    BY DEF GoodPath
  <2>2. \A d \in Call : calls'[d] # Idle =>
           Met(rows', calls'[d].of.id) /\ (calls'[d].kind = "command" => calls'[d].of.id # New)
    BY <1>r, EntityFacts
  <2>3. entity = Nobody => \A d \in Call : calls'[d] # Idle => ~calls'[d].live
    BY <1>r, EntityFacts
  <2>4. QED
    BY <1>e, <2>1, <2>2, <2>3 DEF PathInv
<1>3. CallsInv'
  <2> SUFFICES ASSUME ~crossed' PROVE CallsInv'
    BY DEF CallsInv
  <2>1. ~crossed
    OBVIOUS
  <2>2. \A d \in Call : calls'[d] # Idle => calls'[d] = calls[d] /\ calls[d] # Idle
    BY <1>r
  <2>3. entity' # Nobody => entity # Nobody /\ entity'.id = entity.id
    BY <1>e
  <2>4. QED
    BY <2>1, <2>2, <2>3, Uncrossed DEF CallsInv, Exists
<1>4. QED
  BY <1>1, <1>2, <1>3

(* A request for the object at the end of the path, which the page shows.  *)
LEMMA CallBegins ==
  ASSUME EntityInv, NEW p, GoodPath(p), p # <<>>, path' = p, rows' = rows,
         entity' \in Entity, entity'.id = Last(p).id, saved' \in Entity \cup {Nobody},
         NEW rest, Rest(rest), NEW c \in Call, rest[c] = Idle,
         NEW call \in AnyCall, call.stage = "sent", call.live = TRUE,
         call.of.id = Last(p).id, call.kind = "command" => call.of.id # New,
         calls' = [rest EXCEPT ![c] = call] \/ calls' = rest,
         crossed' \in BOOLEAN,
         ~crossed' => ~crossed /\ \A d \in Call : rest[d] # Idle => rest[d].of.id # Last(p).id
  PROVE  PageTypes' /\ PathInv' /\ CallsInv'
<1>r. /\ rest \in [Call -> AnyCall \cup {Idle}]
      /\ \A d \in Call : rest[d] \in {calls[d], Idle}
  BY DEF Rest
<1>e. Met(rows, Last(p).id) /\ call # Idle /\ entity' # Nobody
  BY EndOfPath, CallsDiffer, EntityConstants
<1>c. /\ calls' \in [Call -> AnyCall \cup {Idle}]
      /\ \A d \in Call : calls'[d] = rest[d] \/ (d = c /\ calls'[d] = call)
  <2>1. CASE calls' = [rest EXCEPT ![c] = call]
    BY <1>r, <2>1
  <2>2. CASE calls' = rest
    BY <1>r, <2>2
  <2>3. QED
    BY <2>1, <2>2
<1>1. PageTypes'
  BY <1>c, EntityFacts DEF PageTypes, GoodPath
<1>2. PathInv'
  <2>1. \A i \in 1 .. Len(path') : Met(rows', path'[i].id)
    BY DEF GoodPath
  <2>2. \A d \in Call : calls'[d] # Idle =>
           Met(rows', calls'[d].of.id) /\ (calls'[d].kind = "command" => calls'[d].of.id # New)
    BY <1>r, <1>e, <1>c, EntityFacts
  <2>3. QED
    BY <1>e, <2>1, <2>2 DEF PathInv
<1>3. CallsInv'
  <2> SUFFICES ASSUME ~crossed' PROVE CallsInv'
    BY DEF CallsInv
  <2>0. ~crossed /\ \A d \in Call : rest[d] # Idle => rest[d].of.id # Last(p).id
    OBVIOUS
  <2>1. ASSUME NEW d \in Call, calls'[d] # Idle
        PROVE  \/ /\ calls'[d] = calls[d] /\ calls[d] # Idle
                  /\ calls'[d].of.id # Last(p).id
               \/ d = c /\ calls'[d] = call
    BY <1>r, <1>c, <2>0, <2>1
  <2>2. ASSUME NEW x \in Call, NEW d \in Call, calls'[x] # Idle, calls'[d] # Idle,
               calls'[x].of.id = calls'[d].of.id
        PROVE  x = d
    BY <2>0, <2>1, <2>2, Uncrossed
  <2>3. \A d \in Call : calls'[d] # Idle /\ calls'[d].of.id = entity'.id => calls'[d].live
    BY <2>1
  <2>4. \A d \in Call : calls'[d] # Idle /\ calls'[d].stage = "answered" =>
           calls[d] # Idle /\ calls'[d] = calls[d]
    BY <2>1
  <2>5. QED
    BY <2>0, <2>2, <2>3, <2>4, Uncrossed DEF CallsInv, Exists
<1>4. QED
  BY <1>1, <1>2, <1>3

(* A request that is not lost: entity_old is what it was.                  *)
LEMMA SavedStays ==
  ASSUME EntityInv, saved' = saved, rows' = rows, ~crossed' => ~crossed,
         entity' # Nobody => entity # Nobody /\ entity'.id = entity.id,
         \A d \in Call : calls[d] # Idle /\ calls[d].live
                         /\ calls[d].kind \in {"load", "save", "command"} => calls'[d] = calls[d]
  PROVE  SavedInv'
<1>1. \A id : Loading(id) => Loading(id)'
  BY DEF Loading, Coming
<1>2. \A id : Changing(id) => Changing(id)'
  BY DEF Changing, Coming
<1>3. QED
  BY <1>1, <1>2 DEF EntityInv, SavedInv, Exists

(* The view shows something else, which it loads.                          *)
LEMMA OpenKeeps ==
  ASSUME EntityInv, NEW p, GoodPath(p), NEW rest, Rest(rest), NEW c \in Call,
         Open(p, rest, c), rows' = rows
  PROVE  EntityInv'
<1>r. /\ rest \in [Call -> AnyCall \cup {Idle}]
      /\ \A d \in Call : rest[d] \in {calls[d], Idle}
  BY DEF Rest
<1>1. CASE p = <<>>
  <2>1. /\ path' = p /\ entity' = Nobody /\ saved' = Nobody /\ crossed' = crossed
        /\ calls' = [d \in Call |-> IF rest[d] = Idle THEN Idle ELSE [rest[d] EXCEPT !.live = FALSE]]
    BY <1>1 DEF Open
  <2>2. ASSUME NEW d \in Call
        PROVE  /\ calls'[d] \in AnyCall \cup {Idle}
               /\ calls'[d] # Idle => /\ calls[d] # Idle /\ calls'[d].live = FALSE
                                      /\ calls'[d].of = calls[d].of /\ calls'[d].kind = calls[d].kind
                                      /\ calls'[d].stage = calls[d].stage
    <3>1. CASE rest[d] = Idle
      BY <2>1, <3>1
    <3>2. CASE rest[d] # Idle
      <4>1. rest[d] = calls[d] /\ rest[d] \in AnyCall /\ calls'[d] = [rest[d] EXCEPT !.live = FALSE]
        BY <1>r, <2>1, <3>2
      <4>2. QED
        BY <4>1, CallsDiffer DEF AnyCall
    <3>3. QED
      BY <3>1, <3>2
  <2>3. PageTypes'
    <3>1. calls' \in [Call -> AnyCall \cup {Idle}]
      BY <2>1, <2>2
    <3>2. QED
      BY <2>1, <3>1, EntityFacts DEF PageTypes, GoodPath
  <2>4. PathInv'
    <3>1. \A i \in 1 .. Len(path') : Met(rows', path'[i].id)
      BY <2>1 DEF GoodPath
    <3>2. \A d \in Call : calls'[d] # Idle =>
             Met(rows', calls'[d].of.id) /\ (calls'[d].kind = "command" => calls'[d].of.id # New)
      BY <2>2, EntityFacts
    <3>3. QED
      BY <1>1, <2>1, <2>2, <3>1, <3>2, EntityConstants DEF PathInv
  <2>5. CallsInv'
    <3> SUFFICES ASSUME ~crossed' PROVE CallsInv'
      BY DEF CallsInv
    <3>1. ~crossed
      BY <2>1
    <3>2. ASSUME NEW x \in Call, NEW d \in Call, calls'[x] # Idle, calls'[d] # Idle,
                 calls'[x].of.id = calls'[d].of.id
          PROVE  x = d
      <4>1. calls[x] # Idle /\ calls'[x].of = calls[x].of
        BY ONLY <2>2, <3>2
      <4>2. calls[d] # Idle /\ calls'[d].of = calls[d].of
        BY ONLY <2>2, <3>2
      <4>3. calls[x].of.id = calls[d].of.id
        BY ONLY <3>2, <4>1, <4>2
      <4>4. QED
        BY <3>1, <4>1, <4>2, <4>3, Uncrossed
    <3>3. ASSUME NEW d \in Call, calls'[d] # Idle, calls'[d].stage = "answered",
                 calls'[d].kind \in {"load", "save"},
                 calls'[d].of.id # New, Exists(calls'[d].of.id)
          PROVE  rows[calls'[d].of.id] = [value |-> calls'[d].of.value, name |-> calls'[d].of.name]
      <4>1. /\ calls[d] # Idle /\ calls'[d].of = calls[d].of
            /\ calls'[d].kind = calls[d].kind /\ calls'[d].stage = calls[d].stage
        BY ONLY <2>2, <3>3
      <4>2. /\ calls[d].stage = "answered" /\ calls[d].kind \in {"load", "save"}
            /\ calls[d].of.id # New /\ Exists(calls[d].of.id)
        BY <3>3, <4>1
      <4>3. rows[calls[d].of.id] = [value |-> calls[d].of.value, name |-> calls[d].of.name]
        BY <3>1, <4>1, <4>2, Uncrossed
      <4>4. QED
        BY ONLY <4>1, <4>3
    <3>4. QED
      BY <2>1, <3>2, <3>3 DEF CallsInv, Exists
  <2>6. SavedInv'
    BY <2>1 DEF SavedInv
  <2>7. QED
    BY <2>3, <2>4, <2>5, <2>6 DEF EntityInv
<1>2. CASE p # <<>>
  <2> DEFINE e == Last(p)
             load == Send("load", e)
  <2>0. e \in Element
    BY <1>2, EndOfPath
  <2>1. /\ path' = p /\ rest[c] = Idle
        /\ entity' = Placeholder(e) /\ saved' = saved
        /\ calls' = IF e.id = New THEN rest ELSE [rest EXCEPT ![c] = load]
        /\ crossed' = (crossed \/ Overlaps(rest, e))
    BY <1>2 DEF Open
  <2>2. /\ load \in AnyCall /\ load # Idle /\ load.stage = "sent" /\ load.kind = "load"
        /\ load.live = TRUE /\ load.of.id = e.id
    BY <2>0, SentLoad
  <2> HIDE DEF load
  <2>3. entity' \in Entity /\ entity'.id = e.id
    BY <2>0, <2>1, PlaceholderOf
  <2>4. /\ crossed' \in BOOLEAN
        /\ ~crossed' => ~crossed /\ \A d \in Call : rest[d] # Idle => rest[d].of.id # e.id
    BY <2>1, EntityFacts DEF Overlaps
  <2>5. PageTypes' /\ PathInv' /\ CallsInv'
    <3>1. saved' \in Entity \cup {Nobody} /\ load.kind # "command"
      BY <2>1, <2>2, EntityFacts
    <3>2. calls' = [rest EXCEPT ![c] = load] \/ calls' = rest
      BY <2>1
    <3>3. QED
      BY <1>2, <2>1, <2>2, <2>3, <2>4, <3>1, <3>2, CallBegins
  <2>6. SavedInv'
    <3>1. entity'.id # New => calls'[c] = load
      BY <1>r, <2>1, <2>3
    <3>2. entity'.id # New => Loading(entity.id)'
      BY <2>2, <2>3, <3>1 DEF Loading, Coming
    <3>3. QED
      BY <3>2 DEF SavedInv
  <2>7. QED
    BY <2>5, <2>6 DEF EntityInv
<1>3. QED
  BY <1>1, <1>2

(* The view shows the object it did; calls for others may have ended.      *)
LEMMA StayKeeps ==
  ASSUME EntityInv, NEW rest, Kept(rest), calls' = rest, GoodPath(path'),
         entity = Nobody => entity' = Nobody /\ path' = <<>>,
         entity # Nobody => /\ entity' \in Entity /\ entity'.id = entity.id
                            /\ path' # <<>> /\ Last(path').id = entity.id,
         UNCHANGED <<saved, rows, crossed>>
  PROVE  EntityInv'
<1>r. /\ Rest(rest)
      /\ \A d \in Call : rest[d] \in {calls[d], Idle}
      /\ \A d \in Call : calls[d] # Idle /\ rest[d] = Idle =>
            ~calls[d].live \/ calls[d].kind \notin {"load", "save", "command"}
  BY DEF Kept, Rest
<1>1. /\ saved' \in Entity \cup {Nobody} /\ crossed' \in BOOLEAN /\ (crossed => crossed')
      /\ entity = Nobody => entity' = Nobody /\ saved' = Nobody /\ path' = <<>>
  BY EntityFacts
<1>2. PageTypes' /\ PathInv' /\ CallsInv'
  BY <1>r, <1>1, CallsEnd
<1>3. SavedInv'
  BY <1>r, SavedStays
<1>4. QED
  BY <1>2, <1>3 DEF EntityInv

LEMMA GoKeeps ==
  ASSUME EntityInv, NEW p, GoodPath(p), NEW rest, Kept(rest), NEW c \in Call,
         Go(p, rest, c), rows' = rows
  PROVE  EntityInv'
<1>1. CASE p # <<>> /\ entity # Nobody /\ Last(p).id = entity.id
  <2>1. /\ path' = Replace(p, ElementOf(entity)) /\ calls' = rest
        /\ UNCHANGED <<entity, saved, crossed>>
    BY <1>1 DEF Go
  <2>2. /\ GoodPath(Replace(p, ElementOf(entity))) /\ Replace(p, ElementOf(entity)) # <<>>
        /\ Last(Replace(p, ElementOf(entity))) = ElementOf(entity)
    BY <1>1, Shown, PathReplaced
  <2>3. GoodPath(path') /\ path' # <<>> /\ Last(path').id = entity.id
    BY <1>1, <2>1, <2>2, Shown
  <2>4. entity' \in Entity /\ entity'.id = entity.id
    BY <1>1, <2>1, Shown
  <2>5. UNCHANGED <<saved, rows, crossed>> /\ calls' = rest
    BY <2>1
  <2>6. QED
    BY <1>1, <2>3, <2>4, <2>5, StayKeeps
<1>2. CASE ~(p # <<>> /\ entity # Nobody /\ Last(p).id = entity.id)
  BY <1>2, OpenKeeps DEF Go, Kept
<1>3. QED
  BY <1>1, <1>2

LEMMA GoIfAllowedKeeps ==
  ASSUME EntityInv, NEW p, GoodPath(p), NEW rest, Kept(rest), NEW c \in Call,
         GoIfAllowed(p, rest, c), rows' = rows
  PROVE  EntityInv'
<1>1. CASE Go(p, rest, c)
  BY <1>1, GoKeeps
<1>2. CASE entity # Nobody /\ calls' = rest /\ UNCHANGED <<path, entity, saved, crossed>>
  <2>1. GoodPath(path') /\ path' # <<>> /\ Last(path').id = entity.id
    BY <1>2, Shown, EntityFacts
  <2>2. entity' \in Entity /\ entity'.id = entity.id
    BY <1>2, Shown
  <2>3. QED
    BY <1>2, <2>1, <2>2, StayKeeps
<1>3. QED
  BY <1>1, <1>2 DEF GoIfAllowed

LEMMA AllKept == EntityInv => Kept(calls)
BY EntityFacts DEF Kept, Rest

(* A request for what the page shows.                                      *)
LEMMA AskKeeps ==
  ASSUME EntityInv, entity # Nobody, NEW kind \in Kind, kind = "command" => entity.id # New,
         NEW rest, kind = "load" \/ Kept(rest), Rest(rest), NEW c \in Call, rest[c] = Idle,
         calls' = [rest EXCEPT ![c] = Send(kind, entity)],
         crossed' = (crossed \/ Overlaps(rest, entity)),
         UNCHANGED <<path, entity, saved, rows>>
  PROVE  EntityInv'
<1> DEFINE call == Send(kind, entity)
<1>1. entity \in Entity /\ path # <<>> /\ entity.id = Last(path).id
  BY Shown
<1>2. /\ call \in AnyCall /\ call # Idle /\ call.stage = "sent" /\ call.kind = kind
      /\ call.live = TRUE /\ call.of.id = entity.id
  <2>1. kind \in Kind /\ entity \in Entity
    BY <1>1
  <2>2. QED
    BY ONLY <2>1, Sent
<1>3. calls' = [rest EXCEPT ![c] = call]
  OBVIOUS
<1> HIDE DEF call
<1>r. /\ rest \in [Call -> AnyCall \cup {Idle}]
      /\ \A d \in Call : rest[d] \in {calls[d], Idle}
  BY DEF Rest
<1>4. /\ crossed' \in BOOLEAN
      /\ ~crossed' => ~crossed /\ \A d \in Call : rest[d] # Idle => rest[d].of.id # entity.id
  BY EntityFacts DEF Overlaps
<1>5. PageTypes' /\ PathInv' /\ CallsInv'
  <2>1. /\ GoodPath(path) /\ path' = path /\ rows' = rows
        /\ entity' \in Entity /\ entity'.id = Last(path).id /\ saved' \in Entity \cup {Nobody}
    BY <1>1, EntityFacts
  <2>2. call.of.id = Last(path).id /\ (call.kind = "command" => call.of.id # New)
    BY <1>1, <1>2
  <2>3. ~crossed' => ~crossed /\ \A d \in Call : rest[d] # Idle => rest[d].of.id # Last(path).id
    BY <1>1, <1>4
  <2>4. calls' = [rest EXCEPT ![c] = call] \/ calls' = rest
    BY <1>3
  <2>5. QED
    BY <1>1, <1>2, <1>4, <2>1, <2>2, <2>3, <2>4, CallBegins
<1>6. SavedInv'
  <2>1. CASE kind = "load"
    <3>1. calls'[c] = call
      BY <1>3, <1>r
    <3>2. Loading(entity.id)'
      BY <1>2, <2>1, <3>1 DEF Loading, Coming
    <3>3. QED
      BY <3>2 DEF SavedInv
  <2>2. CASE Kept(rest)
    <3>1. ASSUME NEW d \in Call, calls[d] # Idle, calls[d].live,
                 calls[d].kind \in {"load", "save", "command"}
          PROVE  calls'[d] = calls[d]
      <4>1. rest[d] = calls[d]
        BY <1>r, <2>2, <3>1 DEF Kept
      <4>2. d # c
        BY <3>1, <4>1
      <4>3. QED
        BY <1>3, <1>r, <4>1, <4>2
    <3>2. ~crossed' => ~crossed
      BY <1>4
    <3>3. QED
      BY <3>1, <3>2, SavedStays
  <2>3. QED
    BY <2>1, <2>2
<1>7. QED
  BY <1>5, <1>6 DEF EntityInv

LEMMA BeginKeeps ==
  ASSUME EntityInv, NEW kind \in Kind, kind = "command" => entity.id # New,
         NEW c \in Call, Begin(c, kind)
  PROVE  EntityInv'
<1>1. /\ entity # Nobody /\ calls[c] = Idle
      /\ calls' = [calls EXCEPT ![c] = Send(kind, entity)]
      /\ crossed' = (crossed \/ Overlaps(calls, entity))
      /\ UNCHANGED <<path, entity, saved, rows>>
  BY DEF Begin
<1>2. Kept(calls) /\ Rest(calls)
  BY AllKept DEF Kept
<1>3. QED
  BY <1>1, <1>2, AskKeeps

(* What ends of the calls when one is answered, or fails.                  *)
LEMMA Ended ==
  ASSUME EntityInv, NEW c \in Call
  PROVE  /\ Rest([calls EXCEPT ![c] = Idle])
         /\ [calls EXCEPT ![c] = Idle][c] = Idle
         /\ calls[c] # Idle /\ (~calls[c].live \/ calls[c].kind \notin {"load", "save", "command"})
               => Kept([calls EXCEPT ![c] = Idle])
<1>1. calls \in [Call -> AnyCall \cup {Idle}]
  BY EntityFacts
<1> DEFINE rest == [calls EXCEPT ![c] = Idle]
<1>2. /\ rest \in [Call -> AnyCall \cup {Idle}] /\ rest[c] = Idle
      /\ \A d \in Call : d # c => rest[d] = calls[d]
  BY <1>1
<1> HIDE DEF rest
<1>3. Rest(rest)
  BY <1>2 DEF Rest
<1>4. calls[c] # Idle /\ (~calls[c].live \/ calls[c].kind \notin {"load", "save", "command"})
        => Kept(rest)
  BY <1>2, <1>3 DEF Kept
<1>5. QED
  BY <1>2, <1>3, <1>4 DEF rest

LEMMA SelectKeeps ==
  ASSUME EntityInv, NEW e \in Element, NEW c \in Call, Select(e, c)
  PROVE  EntityInv'
<1> DEFINE p == AddToPath(path, e)
<1>1. Len(p) <= MaxPath /\ (e.id # New => Exists(e.id)) /\ Go(p, calls, c) /\ rows' = rows
  BY DEF Select
<1>2. path \in Seq(Element) /\ \A i \in 1 .. Len(path) : Met(rows, path[i].id)
  BY EntityFacts DEF GoodPath
<1>3. /\ p \in Seq(Element)
      /\ \A i \in 1 .. Len(p) : p[i] = e \/ \E j \in 1 .. Len(path) : p[i] = path[j]
  BY <1>2, PathTo
<1>4. Met(rows, e.id)
  BY <1>1, RowsDiffer DEF Met, Exists
<1> HIDE DEF p
<1>5. GoodPath(p)
  BY <1>1, <1>2, <1>3, <1>4 DEF GoodPath
<1>6. QED
  BY <1>1, <1>5, AllKept, GoKeeps

LEMMA BackKeeps ==
  ASSUME EntityInv, NEW n \in 0 .. MaxPath, NEW c \in Call, Back(n, c)
  PROVE  EntityInv'
<1> DEFINE p == SubSeq(path, 1, n)
<1>1. n < Len(path) /\ Go(p, calls, c) /\ rows' = rows
  BY DEF Back
<1>2. /\ path \in Seq(Element) /\ Len(path) <= MaxPath
      /\ \A i \in 1 .. Len(path) : Met(rows, path[i].id)
  BY EntityFacts DEF GoodPath
<1>3. n \in Nat /\ n <= Len(path) /\ n <= MaxPath
      /\ \A i \in 1 .. n : i \in 1 .. Len(path)
  BY <1>1, <1>2, LenProperties, EntityConstants
<1>4. p \in Seq(Element) /\ Len(p) = n /\ \A i \in 1 .. n : p[i] = path[i]
  BY <1>2, <1>3, Beginning
<1> HIDE DEF p
<1>5. GoodPath(p)
  BY <1>2, <1>3, <1>4 DEF GoodPath
<1>6. QED
  BY <1>1, <1>5, AllKept, GoKeeps

LEMMA EditKeeps ==
  ASSUME EntityInv, NEW v \in Value, NEW n \in Name, Edit(v, n)
  PROVE  EntityInv'
<1>1. /\ entity # Nobody /\ entity' = [entity EXCEPT !.value = v, !.name = n]
      /\ path' = Replace(path, ElementOf(entity'))
      /\ UNCHANGED <<saved, rows, calls, crossed>>
  BY DEF Edit
<1>2. entity' \in Entity /\ entity'.id = entity.id
  BY <1>1, Shown DEF Entity
<1> DEFINE e == ElementOf(entity')
<1>3. e \in Element /\ e.id = entity.id
  BY <1>2 DEF ElementOf, Element, Entity
<1>4. path' = Replace(path, e)
  BY <1>1
<1> HIDE DEF e
<1>5. GoodPath(path) /\ Met(rows, e.id)
  BY <1>1, <1>3, Shown, EntityFacts
<1>6. GoodPath(path') /\ path' # <<>> /\ Last(path').id = entity.id
  BY <1>3, <1>4, <1>5, PathReplaced
<1>7. QED
  BY <1>1, <1>2, <1>6, AllKept, StayKeeps

LEMMA FailKeeps ==
  ASSUME EntityInv, NEW c \in Call, Fail(c)
  PROVE  EntityInv'
<1> DEFINE rest == [calls EXCEPT ![c] = Idle]
<1>1. /\ calls[c].stage \in {"sent", "answered"} /\ calls' = rest
      /\ crossed' = (crossed \/ calls[c].stage = "answered"
                     \/ (calls[c].kind = "load" /\ saved # Nobody))
      /\ UNCHANGED <<path, entity, saved, rows>>
  BY DEF Fail
<1>2. Rest(rest) /\ rest[c] = Idle
  BY Ended
<1>3. calls \in [Call -> AnyCall \cup {Idle}] /\ \A d \in Call : d # c => rest[d] = calls[d]
  BY EntityFacts
<1> HIDE DEF rest
<1>4. PageTypes' /\ PathInv' /\ CallsInv'
  <2>1. /\ saved' \in Entity \cup {Nobody} /\ crossed' \in BOOLEAN /\ (crossed => crossed')
        /\ GoodPath(path') /\ rows' = rows
        /\ entity = Nobody => entity' = Nobody /\ saved' = Nobody /\ path' = <<>>
    BY <1>1, EntityFacts
  <2>2. entity # Nobody => /\ entity' \in Entity /\ entity'.id = entity.id
                           /\ path' # <<>> /\ Last(path').id = entity.id
    BY <1>1, Shown
  <2>3. QED
    BY <1>1, <1>2, <2>1, <2>2, CallsEnd
<1>5. SavedInv'
  <2> SUFFICES ASSUME ~crossed', saved # Nobody PROVE SavedInv'
    BY <1>1 DEF SavedInv
  <2>1. ~crossed /\ calls[c].stage # "answered" /\ calls[c].kind # "load"
    BY <1>1
  <2>2. \A id : Loading(id) => Loading(id)'
    BY <1>1, <1>3, <2>1 DEF Loading, Coming
  <2>3. \A id : Changing(id) => Changing(id)'
    BY <1>1, <1>3, <2>1 DEF Changing, Coming
  <2>4. QED
    BY <1>1, <2>1, <2>2, <2>3 DEF EntityInv, SavedInv, Exists
<1>6. QED
  BY <1>4, <1>5 DEF EntityInv

(* An answer is applied to what the view shows by then.                    *)
LEMMA ApplyKeeps ==
  ASSUME EntityInv, NEW c \in Call, calls[c].stage = "answered",
         calls[c].kind \in {"load", "save"}, calls[c].live, Apply(calls[c].of, c), rows' = rows
  PROVE  EntityInv'
<1> DEFINE rest == [calls EXCEPT ![c] = Idle]
           e == calls[c].of
           load == Send("load", e)
           p == Replace(path, ElementOf(e))
<1>1. calls[c] \in AnyCall /\ calls[c] # Idle
  BY EntityFacts DEF Idle
<1>2. e \in Entity /\ Met(rows, e.id) /\ entity # Nobody
  BY <1>1, EntityFacts DEF AnyCall
<1>3. ElementOf(e) \in Element /\ ElementOf(e).id = e.id
      /\ Placeholder(e) \in Entity /\ Placeholder(e).id = e.id
  BY <1>2, PlaceholderOf
<1>4. GoodPath(p) /\ p # <<>> /\ Last(p).id = e.id
  <2>1. GoodPath(path) /\ Met(rows, ElementOf(e).id)
    BY <1>2, <1>3, EntityFacts
  <2>2. GoodPath(p) /\ p # <<>> /\ Last(p) = ElementOf(e)
    BY <1>3, <2>1, PathReplaced
  <2>3. QED
    BY <1>3, <2>2
<1>5. Rest(rest) /\ rest[c] = Idle
  BY Ended
<1>6. /\ load \in AnyCall /\ load # Idle /\ load.stage = "sent" /\ load.kind = "load"
      /\ load.live = TRUE /\ load.of.id = e.id
  <2>1. "load" \in Kind /\ e \in Entity
    BY <1>2 DEF Kind
  <2> HIDE DEF e
  <2>2. QED
    BY ONLY <2>1, Sent
<1>7. entity.id = Last(path).id
  BY <1>2, EntityFacts
<1>8. CASE Last(path).id = e.id
  <2>1. /\ entity' = e /\ saved' = e /\ path' = p /\ calls' = rest /\ crossed' = crossed
    BY <1>8 DEF Apply
  <2> HIDE DEF rest, p
  <2>2. PageTypes' /\ PathInv' /\ CallsInv'
    <3>1. /\ saved' \in Entity \cup {Nobody} /\ crossed' \in BOOLEAN /\ (crossed => crossed')
          /\ GoodPath(path') /\ rows' = rows
      BY <1>2, <1>4, <2>1, EntityFacts
    <3>2. entity # Nobody => /\ entity' \in Entity /\ entity'.id = entity.id
                             /\ path' # <<>> /\ Last(path').id = entity.id
      BY <1>2, <1>4, <1>7, <1>8, <2>1
    <3>3. entity = Nobody => entity' = Nobody /\ saved' = Nobody /\ path' = <<>>
      BY <1>2
    <3>4. QED
      BY <1>5, <2>1, <3>1, <3>2, <3>3, CallsEnd
  <2>3. SavedInv'
    <3> SUFFICES ASSUME ~crossed', entity'.id # New, Exists(entity'.id)
                 PROVE  rows[entity'.id] = [value |-> e.value, name |-> e.name]
      BY <2>1 DEF SavedInv, Exists
    <3>1. ~crossed /\ e.id # New /\ Exists(e.id)
      BY <2>1
    <3>2. rows[calls[c].of.id] = [value |-> calls[c].of.value, name |-> calls[c].of.name]
      BY <1>1, <3>1, Uncrossed
    <3>3. QED
      BY <2>1, <3>2
  <2>4. QED
    BY <2>2, <2>3 DEF EntityInv
<1>9. CASE Last(path).id # e.id
  <2>1. /\ path' = p /\ entity' = Placeholder(e) /\ saved' = e
        /\ calls' = [rest EXCEPT ![c] = load]
        /\ crossed' = (crossed \/ Overlaps(rest, e))
    BY <1>9 DEF Apply
  <2> HIDE DEF rest, p, load
  <2>2. /\ crossed' \in BOOLEAN
        /\ ~crossed' => ~crossed /\ \A d \in Call : rest[d] # Idle => rest[d].of.id # e.id
    BY <2>1, EntityFacts DEF Overlaps
  <2>3. PageTypes' /\ PathInv' /\ CallsInv'
    <3>1. saved' \in Entity \cup {Nobody} /\ load.kind # "command"
      BY <1>2, <1>6, <2>1
    <3>2. entity' \in Entity /\ entity'.id = Last(p).id /\ load.of.id = Last(p).id
      BY <1>3, <1>4, <1>6, <2>1
    <3>3. calls' = [rest EXCEPT ![c] = load] \/ calls' = rest
      BY <2>1
    <3>4. ~crossed' => ~crossed /\ \A d \in Call : rest[d] # Idle => rest[d].of.id # Last(p).id
      BY <1>4, <2>2
    <3>5. QED
      BY <1>4, <1>5, <1>6, <2>1, <2>2, <3>1, <3>2, <3>3, <3>4, CallBegins
  <2>4. SavedInv'
    <3>1. calls'[c] = load
      BY <1>5, <2>1 DEF Rest
    <3>2. Loading(entity.id)'
      BY <1>3, <1>6, <2>1, <3>1 DEF Loading, Coming
    <3>3. QED
      BY <3>2 DEF SavedInv
  <2>5. QED
    BY <2>3, <2>4 DEF EntityInv
<1>10. QED
  BY <1>8, <1>9

(* An answer that nobody waits for changes nothing but the calls.          *)
LEMMA NothingApplied ==
  ASSUME EntityInv, NEW rest, Kept(rest), calls' = rest,
         UNCHANGED <<path, entity, saved, rows, crossed>>
  PROVE  EntityInv'
<1>1. GoodPath(path') /\ UNCHANGED <<saved, rows, crossed>>
  BY EntityFacts
<1>2. entity = Nobody => entity' = Nobody /\ path' = <<>>
  BY EntityFacts
<1>3. entity # Nobody => /\ entity' \in Entity /\ entity'.id = entity.id
                         /\ path' # <<>> /\ Last(path').id = entity.id
  BY Shown
<1>4. QED
  BY <1>1, <1>2, <1>3, StayKeeps

LEMMA AnswersKeep ==
  ASSUME EntityInv, NEW c \in Call, Loaded(c) \/ Copied(c) \/ Deleted(c) \/ Commanded(c)
  PROVE  EntityInv'
<1> DEFINE rest == [calls EXCEPT ![c] = Idle]
           p == Replace(path, ElementOf(calls[c].of))
<1>0. calls[c].stage = "answered" /\ rows' = rows
  BY DEF Loaded, Copied, Deleted, Commanded
<1>1. calls[c] \in AnyCall /\ calls[c] # Idle
  BY <1>0, EntityFacts DEF Idle
<1>2. calls[c].of \in Entity /\ Met(rows, calls[c].of.id) /\ GoodPath(path)
  BY <1>1, EntityFacts DEF AnyCall
<1>3. GoodPath(p)
  <2>1. ElementOf(calls[c].of) \in Element /\ ElementOf(calls[c].of).id = calls[c].of.id
    BY <1>2, PlaceholderOf
  <2>2. QED
    BY <1>2, <2>1, PathReplaced
<1>4. /\ Rest(rest) /\ rest[c] = Idle
      /\ ~calls[c].live \/ calls[c].kind \notin {"load", "save", "command"} => Kept(rest)
  BY <1>1, Ended
<1>5. CASE Loaded(c)
  <2>1. CASE calls[c].live
    BY <1>0, <1>5, <2>1, ApplyKeeps DEF Loaded
  <2>2. CASE ~calls[c].live
    <3>1. Kept(rest) /\ calls' = rest /\ UNCHANGED <<path, entity, saved, rows, crossed>>
      BY <1>4, <1>5, <2>2 DEF Loaded
    <3> HIDE DEF rest
    <3>2. QED
      BY <3>1, NothingApplied
  <2>3. QED
    BY <2>1, <2>2
<1>6. CASE Copied(c)
  <2>1. GoIfAllowed(p, rest, c) /\ Kept(rest)
    BY <1>4, <1>6 DEF Copied
  <2> HIDE DEF rest, p
  <2>2. QED
    BY <1>0, <1>3, <2>1, GoIfAllowedKeeps
<1>7. CASE Deleted(c)
  <2> DEFINE q == IF path = <<>> THEN path ELSE Front(path)
  <2>1. GoIfAllowed(q, rest, c) /\ Kept(rest)
    BY <1>4, <1>7 DEF Deleted
  <2>2. GoodPath(q)
    BY <1>2, EndOfPath
  <2> HIDE DEF rest, q
  <2>3. QED
    BY <1>0, <2>1, <2>2, GoIfAllowedKeeps
<1>8. CASE Commanded(c)
  <2>1. CASE calls[c].live
    <3>1. entity # Nobody
      BY <1>1, <2>1, EntityFacts
    <3>2. CASE HasId
      <4>1. /\ calls' = [rest EXCEPT ![c] = Send("load", entity)]
            /\ crossed' = (crossed \/ Overlaps(rest, entity))
            /\ UNCHANGED <<path, entity, saved, rows>>
        BY <1>8, <2>1, <3>2 DEF Commanded
      <4> HIDE DEF rest
      <4>2. "load" \in Kind /\ "load" # "command"
        BY DEF Kind
      <4>3. QED
        BY <1>4, <3>1, <4>1, <4>2, AskKeeps
    <3>3. CASE ~HasId
      <4>1. calls' = rest /\ UNCHANGED <<path, entity, saved, rows>> /\ (crossed' <=> crossed)
        BY <1>8, <2>1, <3>3 DEF Commanded
      <4>2. entity'.id = New
        BY <3>1, <3>3, <4>1 DEF HasId
      <4> HIDE DEF rest
      <4>3. /\ saved' \in Entity \cup {Nobody} /\ crossed' \in BOOLEAN /\ (crossed => crossed')
            /\ GoodPath(path') /\ rows' = rows
        BY <4>1, EntityFacts
      <4>4. /\ entity' \in Entity /\ entity'.id = entity.id
            /\ path' # <<>> /\ Last(path').id = entity.id
        BY <3>1, <4>1, Shown
      <4>5. PageTypes' /\ PathInv' /\ CallsInv'
        BY <1>4, <3>1, <4>1, <4>3, <4>4, CallsEnd
      <4>6. SavedInv'
        BY <4>2 DEF SavedInv
      <4>7. QED
        BY <4>5, <4>6 DEF EntityInv
    <3>4. QED
      BY <3>2, <3>3
  <2>2. CASE ~calls[c].live
    <3>1. GoIfAllowed(p, rest, c) /\ Kept(rest)
      BY <1>4, <1>8, <2>2 DEF Commanded
    <3> HIDE DEF rest, p
    <3>2. QED
      BY <1>0, <1>3, <3>1, GoIfAllowedKeeps
  <2>3. QED
    BY <2>1, <2>2
<1>9. QED
  BY <1>5, <1>6, <1>7, <1>8

-----------------------------------------------------------------------------
(* The server executes a request: what becomes of the object, and of the   *)
(* request.                                                                *)
Answers(o, old, new) ==
    \/ /\ rows[o] = Unborn /\ (old.kind = "copy" \/ old.of.id = New)
       /\ \/ new.of.id = o /\ rows'[o] = [value |-> new.of.value, name |-> new.of.name]
          \/ new.of.id = New /\ old.of.id = New
    \/ /\ old.of.id = o /\ new.of.id = o /\ old.kind # "copy" /\ Exists(o)
       /\ rows'[o] # Unborn
       /\ rows'[o] \in Row => rows'[o] = [value |-> new.of.value, name |-> new.of.name]
       /\ old.kind = "delete" => rows'[o] \notin Row

LEMMA RowIsWhole ==
  ASSUME NEW row \in Row
  PROVE  row = [value |-> row.value, name |-> row.name]
BY DEF Row

LEMMA ServeEffect ==
  ASSUME EntityInv, NEW c \in Call, NEW o \in Object, NEW v \in Value, Serve(c, o, v)
  PROVE  /\ calls[c] \in AnyCall /\ calls[c].stage = "sent"
         /\ calls' \in [Call -> AnyCall \cup {Idle}]
         /\ \A d \in Call : d # c => calls'[d] = calls[d]
         /\ calls'[c] \in AnyCall /\ calls'[c].stage = "answered"
         /\ calls'[c].kind = calls[c].kind /\ calls'[c].live = calls[c].live
         /\ rows' \in [Object -> Row \cup {Unborn, Gone}]
         /\ \A x \in Object : x # o => rows'[x] = rows[x]
         /\ Answers(o, calls[c], calls'[c])
         /\ UNCHANGED <<path, entity, saved, crossed>>
<1> DEFINE call == calls[c]
           row == IF call.kind = "copy" /\ Exists(call.of.id) THEN rows[call.of.id]
                  ELSE Effect(o, call.kind, call.of, v)
           whole == [id |-> o, value |-> row.value, name |-> row.name]
           of == IF row \in Row THEN whole ELSE call.of
           new == [call EXCEPT !.stage = "answered", !.of = of]
<1>1. /\ call.stage = "sent" /\ Subject(c, o) /\ (call.kind = "copy" => Exists(call.of.id))
      /\ rows' = [rows EXCEPT ![o] = row]
      /\ UNCHANGED <<path, entity, saved, crossed>>
  BY DEF Serve
<1>2. /\ rows \in [Object -> Row \cup {Unborn, Gone}]
      /\ calls \in [Call -> AnyCall \cup {Idle}]
  BY EntityFacts
<1>3. call \in AnyCall
  BY <1>1, <1>2 DEF Idle
<1>c. call.kind \in Kind /\ call.of \in Entity
  BY <1>3 DEF AnyCall
<1>4. calls' = [calls EXCEPT ![c].stage = "answered",
                             ![c].of = IF row \in Row THEN whole ELSE @]
  BY DEF Serve
<1>5. calls' = [calls EXCEPT ![c] = new]
  <2> HIDE DEF row
  <2>1. QED
    BY <1>2, <1>3, <1>4 DEF AnyCall
<1>6. row \in Row \cup {Unborn, Gone}
  <2>1. CASE call.kind = "copy"
    BY <1>1, <2>1 DEF Exists
  <2>2. CASE call.kind = "load"
    BY <1>2, <2>2 DEF Effect
  <2>3. CASE call.kind = "save"
    BY <1>c, <2>3 DEF Effect, Entity, Row
  <2>4. CASE call.kind = "delete"
    BY <2>4 DEF Effect, Gone
  <2>5. CASE call.kind = "command"
    <3>1. call.of.id # New
      BY <1>3, <2>5, EntityFacts, CallsDiffer
    <3>2. Exists(o)
      BY <1>1, <2>5, <3>1 DEF Subject
    <3>3. row = [rows[o] EXCEPT !.value = v]
      BY <2>5 DEF Effect
    <3>4. QED
      BY <3>2, <3>3 DEF Exists, Row
  <2>6. QED
    BY <1>c, <2>1, <2>2, <2>3, <2>4, <2>5 DEF Kind
<1>d. call.kind = "delete" => row = Gone
  BY DEF Effect, Gone
<1>7. row \in Row => whole \in Entity /\ whole.id = o /\ row = [value |-> whole.value, name |-> whole.name]
  <2> HIDE DEF row
  <2>1. QED
    BY RowIsWhole DEF Entity, Row
<1>8. of \in Entity /\ (row \in Row => of = whole) /\ (row \notin Row => of = call.of)
  BY <1>7, <1>c
<1> HIDE DEF whole, of
<1>9. /\ new \in AnyCall /\ new.stage = "answered" /\ new.kind = call.kind
      /\ new.live = call.live /\ new.of = of
  BY <1>3, <1>8 DEF AnyCall
<1> HIDE DEF new
<1>10. /\ calls' \in [Call -> AnyCall \cup {Idle}] /\ calls'[c] = new
       /\ \A d \in Call : d # c => calls'[d] = calls[d]
  BY <1>2, <1>5, <1>9
<1>11. /\ rows' \in [Object -> Row \cup {Unborn, Gone}] /\ rows'[o] = row
       /\ \A x \in Object : x # o => rows'[x] = rows[x]
  <2> HIDE DEF row
  <2>1. QED
    BY <1>1, <1>2, <1>6
<1>12. Answers(o, call, new)
  <2>1. CASE call.kind = "copy" \/ call.of.id = New
    <3>1. rows[o] = Unborn
      BY <1>1, <1>2, <2>1, RowsDiffer DEF Subject
    <3>2. row \in Row => new.of.id = o /\ rows'[o] = [value |-> new.of.value, name |-> new.of.name]
      BY <1>7, <1>8, <1>9, <1>11
    <3>3. row \notin Row => new.of.id = New /\ call.of.id = New
      <4>1. row \notin Row => call.kind # "copy"
        BY <1>1 DEF Exists
      <4>2. QED
        BY <1>8, <1>9, <2>1, <4>1
    <3>4. QED
      BY <2>1, <3>1, <3>2, <3>3 DEF Answers
  <2>2. CASE call.kind # "copy" /\ call.of.id # New
    <3>1. o = call.of.id /\ Exists(o) /\ rows[o] \in Row
      BY <1>1, <2>2 DEF Subject, Exists
    <3>2. row # Unborn
      <4>1. call.kind \in {"load", "save", "delete", "command"}
        BY <1>c, <2>2 DEF Kind
      <4>2. CASE call.kind = "load"
        BY <3>1, <4>2, RowsDiffer DEF Effect
      <4>3. CASE call.kind = "save"
        <5>1. row \in Row
          BY <1>c, <4>3 DEF Effect, Entity, Row
        <5>2. QED
          BY <5>1, RowsDiffer
      <4>4. CASE call.kind = "delete"
        BY <1>d, <4>4, RowsDiffer
      <4>5. CASE call.kind = "command"
        <5>1. row = [rows[o] EXCEPT !.value = v]
          BY <4>5 DEF Effect
        <5>2. row \in Row
          BY <3>1, <5>1 DEF Row
        <5>3. QED
          BY <5>2, RowsDiffer
      <4>6. QED
        BY <4>1, <4>2, <4>3, <4>4, <4>5
    <3>3. new.of.id = o
      BY <1>7, <1>8, <1>9, <3>1
    <3>4. row \in Row => rows'[o] = [value |-> new.of.value, name |-> new.of.name]
      BY <1>7, <1>8, <1>9, <1>11
    <3>5. call.kind = "delete" => row \notin Row
      BY <1>d, RowsDiffer
    <3>6. QED
      BY <1>11, <2>2, <3>1, <3>2, <3>3, <3>4, <3>5 DEF Answers
  <2>3. QED
    BY <2>1, <2>2
<1>13. QED
  BY <1>1, <1>3, <1>9, <1>10, <1>11, <1>12

LEMMA ServeKeeps ==
  ASSUME EntityInv, NEW c \in Call, NEW o \in Object, NEW v \in Value, Serve(c, o, v)
  PROVE  EntityInv'
<1>1. /\ calls[c] \in AnyCall /\ calls[c].stage = "sent"
      /\ calls' \in [Call -> AnyCall \cup {Idle}]
      /\ \A d \in Call : d # c => calls'[d] = calls[d]
      /\ calls'[c] \in AnyCall /\ calls'[c].stage = "answered"
      /\ calls'[c].kind = calls[c].kind /\ calls'[c].live = calls[c].live
      /\ rows' \in [Object -> Row \cup {Unborn, Gone}]
      /\ \A x \in Object : x # o => rows'[x] = rows[x]
      /\ Answers(o, calls[c], calls'[c])
      /\ UNCHANGED <<path, entity, saved, crossed>>
  BY ServeEffect
<1>2. calls[c] # Idle /\ calls'[c] # Idle /\ o # New
  BY <1>1, CallsDiffer, EntityConstants
<1>3. \A id : Met(rows, id) /\ id \in Object \cup {New} => Met(rows', id)
  BY <1>1, RowsDiffer DEF Met, Answers
<1>4. Met(rows', calls'[c].of.id)
  BY <1>1, <1>2, RowIsNotUnborn DEF Met, Answers
<1>5. PageTypes'
  BY <1>1, EntityFacts DEF PageTypes, GoodPath
<1>6. PathInv'
  <2>1. \A i \in 1 .. Len(path') : Met(rows', path'[i].id)
    BY <1>1, <1>3, EntityFacts, IdOnPath DEF GoodPath
  <2>2. ASSUME NEW d \in Call, calls'[d] # Idle
        PROVE  Met(rows', calls'[d].of.id) /\ (calls'[d].kind = "command" => calls'[d].of.id # New)
    <3>1. CASE d = c
      <4>1. calls[c].kind = "command" => calls[c].of.id # New
        BY <1>2, EntityFacts
      <4>2. QED
        BY <1>1, <1>2, <1>4, <3>1, <4>1 DEF Answers
    <3>2. CASE d # c
      <4>1. calls'[d] = calls[d] /\ calls[d] # Idle /\ calls[d] \in AnyCall
        BY <1>1, <2>2, <3>2, EntityFacts
      <4>2. calls[d].of.id \in Object \cup {New}
        BY <4>1 DEF AnyCall, Entity
      <4>3. QED
        BY <1>3, <4>1, <4>2, EntityFacts
    <3>3. QED
      BY <3>1, <3>2
  <2>3. entity = Nobody => \A d \in Call : calls'[d] # Idle => ~calls'[d].live
    BY <1>1, <1>2, EntityFacts
  <2>4. QED
    BY <1>1, <2>1, <2>2, <2>3, EntityFacts DEF PathInv
<1>7. ASSUME NEW d \in Call, d # c, calls'[d] # Idle
      PROVE  /\ calls'[d] = calls[d] /\ calls[d] # Idle
             /\ ~crossed => calls[d].of.id # calls[c].of.id
             /\ rows[o] = Unborn => calls[d].of.id # o
             /\ ~crossed => calls[d].of.id # calls'[c].of.id
  <2>1. calls'[d] = calls[d] /\ calls[d] # Idle
    BY <1>1, <1>7
  <2>2. ~crossed => calls[d].of.id # calls[c].of.id
    BY <1>2, <1>7, <2>1, Uncrossed
  <2>3. rows[o] = Unborn => calls[d].of.id # o
    BY <1>2, <2>1, EntityFacts DEF Met
  <2>4. ~crossed => calls[d].of.id # calls'[c].of.id
    BY <1>1, <2>2, <2>3 DEF Answers
  <2>5. QED
    BY <2>1, <2>2, <2>3, <2>4
<1>8. entity # Nobody /\ rows[o] = Unborn => entity.id # o
  BY <1>2, Shown DEF Met
<1>9. CallsInv'
  <2> SUFFICES ASSUME ~crossed PROVE CallsInv'
    BY <1>1 DEF CallsInv
  <2>1. ASSUME NEW x \in Call, NEW d \in Call, calls'[x] # Idle, calls'[d] # Idle,
               calls'[x].of.id = calls'[d].of.id
        PROVE  x = d
    <3>1. CASE x # c /\ d # c
      BY <1>7, <2>1, <3>1, Uncrossed
    <3>2. CASE x = c /\ d # c
      BY <1>7, <2>1, <3>2
    <3>3. CASE x # c /\ d = c
      BY <1>7, <2>1, <3>3
    <3>4. QED
      BY <3>1, <3>2, <3>3
  <2>2. ASSUME NEW d \in Call, calls'[d] # Idle, entity # Nobody, calls'[d].of.id = entity.id
        PROVE  calls'[d].live
    <3>1. CASE d = c
      <4>1. calls[c].of.id = entity.id
        BY <1>1, <1>8, <2>2, <3>1 DEF Answers
      <4>2. QED
        BY <1>1, <1>2, <2>2, <3>1, <4>1, Uncrossed
    <3>2. CASE d # c
      BY <1>7, <2>2, <3>2, Uncrossed
    <3>3. QED
      BY <3>1, <3>2
  <2>3. ASSUME NEW d \in Call, calls'[d] # Idle, calls'[d].stage = "answered",
               calls'[d].kind \in {"load", "save"}, calls'[d].of.id # New,
               rows'[calls'[d].of.id] \in Row
        PROVE  rows'[calls'[d].of.id] = [value |-> calls'[d].of.value, name |-> calls'[d].of.name]
    <3>1. CASE d = c
      BY <1>1, <2>3, <3>1 DEF Answers
    <3>2. CASE d # c
      <4>1. /\ calls'[d] = calls[d] /\ calls[d] # Idle /\ calls[d].of.id # o
            /\ calls[d].of.id \in Object
        <5>1. calls'[d] = calls[d] /\ calls[d] # Idle /\ calls[d] \in AnyCall
          BY <1>7, <2>3, <3>2, EntityFacts
        <5>2. calls[d].of.id # o
          BY <1>1, <1>7, <2>3, <3>2 DEF Answers
        <5>3. calls[d].of.id \in Object
          BY <2>3, <5>1 DEF AnyCall, Entity
        <5>4. QED
          BY <5>1, <5>2, <5>3
      <4>2. rows'[calls[d].of.id] = rows[calls[d].of.id]
        BY <1>1, <4>1
      <4>3. QED
        BY <2>3, <4>1, <4>2, Uncrossed DEF Exists
    <3>3. QED
      BY <3>1, <3>2
  <2>4. QED
    BY <1>1, <2>1, <2>2, <2>3 DEF CallsInv, Exists
<1>10. SavedInv'
  <2> SUFFICES ASSUME ~crossed, entity # Nobody, entity.id # New PROVE SavedInv'
    BY <1>1 DEF SavedInv
  <2>0. entity.id \in Object
    BY Shown DEF Entity
  <2>e. /\ entity' = entity /\ saved' = saved /\ crossed' = crossed
    BY <1>1
  <2>1. CASE entity.id # o
    <3>1. calls[c].of.id = entity.id => calls[c].kind = "copy" /\ calls'[c].kind = "copy"
      BY <1>1, <2>1 DEF Answers
    <3>2. rows'[entity.id] = rows[entity.id]
      BY <1>1, <2>0, <2>1
    <3>3. Loading(entity.id) => Loading(entity.id)'
      BY <1>1, <2>e, <3>1 DEF Loading, Coming
    <3>4. Changing(entity.id) => Changing(entity.id)'
      BY <1>1, <2>e, <3>1 DEF Changing, Coming
    <3>5. QED
      BY <2>e, <3>2, <3>3, <3>4 DEF EntityInv, SavedInv, Exists
  <2>2. CASE entity.id = o
    <3>1. /\ calls[c].of.id = o /\ calls'[c].of.id = o /\ calls[c].kind # "copy"
          /\ Exists(o) /\ (calls[c].kind = "delete" => rows'[o] \notin Row)
      BY <1>1, <1>8, <2>2 DEF Answers
    <3>2. calls[c].live
      BY <1>2, <2>2, <3>1, Uncrossed
    <3>3. CASE calls[c].kind = "load"
      <4>1. Loading(entity.id)'
        BY <1>1, <1>2, <2>2, <2>e, <3>1, <3>2, <3>3 DEF Loading, Coming
      <4>2. QED
        BY <4>1 DEF SavedInv
    <3>4. CASE calls[c].kind = "delete"
      BY <2>2, <2>e, <3>1, <3>4 DEF SavedInv, Exists
    <3>5. CASE calls[c].kind \in {"save", "command"}
      <4>1. Changing(entity.id)'
        BY <1>1, <1>2, <2>2, <2>e, <3>1, <3>2, <3>5 DEF Changing, Coming
      <4>2. ~Loading(entity.id)
        BY <1>2, <2>2, <3>1, <3>5, Uncrossed DEF Loading, Coming
      <4>3. saved = Nobody \/ saved.id = entity.id
        BY <2>2, <3>1, <4>2 DEF EntityInv, SavedInv
      <4>4. QED
        BY <2>e, <4>1, <4>3 DEF SavedInv
    <3>6. calls[c].kind \in {"load", "save", "copy", "delete", "command"}
      BY <1>1 DEF AnyCall, Kind
    <3>7. QED
      BY <3>1, <3>3, <3>4, <3>5, <3>6
  <2>3. QED
    BY <2>1, <2>2
<1>11. QED
  BY <1>5, <1>6, <1>9, <1>10 DEF EntityInv

LEMMA EntityInvNext == EntityInv /\ [EntityNext]_entityVars => EntityInv'
<1> SUFFICES ASSUME EntityInv, [EntityNext]_entityVars PROVE EntityInv'
  OBVIOUS
<1>1. ASSUME NEW e \in Element, NEW c \in Call, Select(e, c) PROVE EntityInv'
  BY <1>1, SelectKeeps
<1>2. ASSUME NEW n \in 0 .. MaxPath, NEW c \in Call, Back(n, c) PROVE EntityInv'
  BY <1>2, BackKeeps
<1>3. ASSUME NEW v \in Value, NEW n \in Name, Edit(v, n) PROVE EntityInv'
  BY <1>3, EditKeeps
<1>4. ASSUME NEW c \in Call, Save(c) \/ Refresh(c) \/ Copy(c) \/ Command(c) \/ Delete(c)
      PROVE  EntityInv'
  <2>1. CASE Save(c)
    BY <2>1, BeginKeeps DEF Save, Kind
  <2>2. CASE Refresh(c)
    BY <2>2, BeginKeeps DEF Refresh, Kind
  <2>3. CASE Copy(c)
    BY <2>3, BeginKeeps DEF Copy, Kind
  <2>4. CASE Command(c)
    BY <2>4, BeginKeeps DEF Command, HasId, Kind
  <2>5. CASE Delete(c)
    BY <2>5, BeginKeeps DEF Delete, Kind
  <2>6. QED
    BY <1>4, <2>1, <2>2, <2>3, <2>4, <2>5
<1>5. ASSUME NEW c \in Call, NEW o \in Object, NEW v \in Value, Serve(c, o, v) PROVE EntityInv'
  BY <1>5, ServeKeeps
<1>6. ASSUME NEW c \in Call, Fail(c) PROVE EntityInv'
  BY <1>6, FailKeeps
<1>7. ASSUME NEW c \in Call, Loaded(c) \/ Copied(c) \/ Deleted(c) \/ Commanded(c)
      PROVE  EntityInv'
  BY <1>7, AnswersKeep
<1>8. CASE UNCHANGED entityVars
  <2>1. calls' = calls /\ UNCHANGED <<path, entity, saved, rows, crossed>>
    BY <1>8 DEF entityVars
  <2>2. QED
    BY <2>1, AllKept, NothingApplied
<1>9. QED
  BY <1>1, <1>2, <1>3, <1>4, <1>5, <1>6, <1>7, <1>8 DEF EntityNext

(* The page of an object keeps EntityInv, whatever requests cross.         *)
THEOREM EntityInvariant == EntitySpec => []EntityInv
<1>1. EntityInit => EntityInv
  BY EntityInvInit
<1>2. EntityInv /\ [EntityNext]_entityVars => EntityInv'
  BY EntityInvNext
<1>3. QED
  BY <1>1, <1>2, PTL DEF EntitySpec

(* Path, shown object, rows and requests of the page keep their types.     *)
THEOREM EntityTypeCorrect == EntitySpec => []EntityTypeOK
<1>1. EntityInv => EntityTypeOK
  <2> SUFFICES ASSUME EntityInv PROVE EntityTypeOK
    OBVIOUS
  <2>1. ASSUME NEW c \in Call, calls[c] # Idle
        PROVE  /\ calls[c].stage \in {"sent", "answered", "failed"}
               /\ calls[c].kind \in Kind /\ calls[c].live \in BOOLEAN
               /\ calls[c].of \in Entity
    <3>1. calls[c] \in AnyCall
      BY <2>1, EntityFacts
    <3>2. QED
      BY <3>1 DEF AnyCall
  <2>2. rows \in [Object -> Row \cup {[value |-> "unborn"], [value |-> "deleted"]}]
    BY EntityFacts DEF Unborn, Gone
  <2>3. path \in Seq(Element) /\ Len(path) <= MaxPath /\ {entity, saved} \subseteq Entity \cup {Nobody}
    BY EntityFacts DEF GoodPath
  <2>4. crossed \in BOOLEAN
    BY EntityFacts
  <2> QED
    BY ONLY <2>1, <2>2, <2>3, <2>4 DEF EntityTypeOK
<1>2. QED
  BY <1>1, EntityInvariant, PTL

(* When nothing is under way and no two requests for one object crossed, a *)
(* page that isEntityEquel can tell from the row of the server asks before *)
(* it is left: of the answers of ViewContainer, none leaves entity_old     *)
(* behind the row.                                                         *)
THEOREM UnsavedIsAskedCorrect == EntitySpec => []UnsavedIsAsked
<1>1. EntityInv => UnsavedIsAsked
  <2> DEFINE row == rows[entity.id]
             held == [id |-> entity.id, value |-> row.value, name |-> row.name]
  <2> SUFFICES ASSUME EntityInv, ~Busy, ~crossed, entity # Nobody,
                      entity.id \in {o \in Object : Exists(o)}, ~Asks
               PROVE  IsEntityEquel(held, entity)
    BY DEF UnsavedIsAsked
  <2>1. entity.id # New /\ Exists(entity.id) /\ entity \in Entity
    BY EntityConstants, EntityFacts
  <2>2. ~Loading(entity.id) /\ ~Changing(entity.id)
    BY DEF Loading, Changing, Coming, Busy
  <2>3. IsEntityEquel(saved, entity) /\ saved # Nobody
    BY DEF Asks, IsEntityEquel
  <2>4. row = [value |-> saved.value, name |-> saved.name]
    BY <2>1, <2>2, <2>3 DEF EntityInv, SavedInv
  <2>5. held = [id |-> entity.id, value |-> saved.value, name |-> saved.name]
    BY <2>4
  <2>6. CASE saved = entity
    <3>1. held = entity
      BY <2>1, <2>5, <2>6 DEF Entity
    <3>2. QED
      BY <3>1 DEF IsEntityEquel
  <2>7. CASE saved # entity
    <3>1. saved.name = entity.name /\ <<saved.value, entity.value>> \in Appended
      BY <2>3, <2>7 DEF IsEntityEquel
    <3>2. /\ held.id = entity.id /\ held.name = entity.name /\ held.value = saved.value
          /\ held \in [id : {entity.id}, value : {saved.value}, name : {saved.name}]
      BY <2>5, <3>1
    <3> HIDE DEF held
    <3>3. held # Nobody
      <4>1. saved \in Entity
        BY <2>3, EntityFacts
      <4>2. held \in Entity
        BY <2>1, <3>2, <4>1 DEF Entity
      <4>3. QED
        BY <4>2, EntityConstants
    <3>4. QED
      BY <3>1, <3>2, <3>3 DEF IsEntityEquel
  <2>8. QED
    BY <2>6, <2>7
<1>2. QED
  BY <1>1, EntityInvariant, PTL

-----------------------------------------------------------------------------
(* Every variable of the four parts keeps its type.                        *)
THEOREM ServerTypeCorrect ==
  SessionSpec /\ StompSpec /\ EntitySpec /\ WorkspaceSpec => []ServerTypeOK
<1>1. SessionTypeOK /\ StompTypeOK /\ EntityTypeOK /\ WorkspaceTypeOK => ServerTypeOK
  BY DEF ServerTypeOK
<1>2. QED
  BY <1>1, SessionTypeCorrect, StompTypeCorrect, EntityTypeCorrect, WorkspaceTypeCorrect, PTL
=============================================================================
