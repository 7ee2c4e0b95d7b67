------------------------------ MODULE UiStomp ------------------------------
(***************************************************************************)
(* The web socket that brings the server's log to the page: the STOMP      *)
(* clients of Resource.js.  Each stompConnect makes a client and forgets   *)
(* the one before without closing it, so that several live at once.        *)
(***************************************************************************)
EXTENDS Integers, Sequences, FiniteSets

CONSTANTS
    Client,      \* identities of STOMP clients; one that is closed is used again
    NoClient,    \* null
    MaxTimers,   \* bound on the reconnections that are waiting
    Message,     \* what the server logs
    LogLimit     \* logControl.limit

ASSUME StompAssumption ==
    /\ NoClient \notin Client
    /\ MaxTimers \in Nat /\ LogLimit \in Nat \ {0}

VARIABLES
    clients,       \* state of each STOMP client
    current,       \* resource.stompClient
    subscription,  \* the client of resource.stompSubscription
    listeners,     \* live subscriptions of each client
    reconnect,     \* resource.stompReconnect
    timers,        \* reconnections that are waiting
    connected,     \* App.state.stompConnected
    logs,          \* resource.logControl.logs
    page,          \* the rows of Logs, "closed" when the panel is not open
    redraw         \* the timer of Logs.logCallback

stompVars == <<clients, current, subscription, listeners, reconnect, timers, connected,
               logs, page, redraw>>
sockets == <<clients, current, subscription, listeners, reconnect, timers, connected>>

Logged == UNION {[1 .. n -> Message] : n \in 0 .. LogLimit}
Closed == <<"closed">>

StompTypeOK ==
    /\ clients \in [Client -> {"connecting", "open", "closed"}]
    /\ {current, subscription} \subseteq Client \cup {NoClient}
    /\ listeners \in [Client -> Nat]
    /\ reconnect \in BOOLEAN /\ connected \in BOOLEAN /\ redraw \in BOOLEAN
    /\ timers \in 0 .. MaxTimers
    /\ logs \in Logged /\ page \in Logged \cup {Closed}

StompInit ==
    /\ clients = [c \in Client |-> "closed"]
    /\ current = NoClient /\ subscription = NoClient
    /\ listeners = [c \in Client |-> 0]
    /\ reconnect = TRUE /\ connected = FALSE /\ timers = 0
    /\ logs = <<>> /\ page = Closed /\ redraw = FALSE

\* stompConnect: the recorded subscription is given up, a new client takes the old one's
\* place; the old one is not closed.
StompConnect(c) ==
    /\ clients[c] = "closed" /\ c # current
    /\ clients' = [clients EXCEPT ![c] = "connecting"]
    /\ current' = c
    /\ listeners' = IF subscription # NoClient /\ listeners[subscription] > 0
                    THEN [listeners EXCEPT ![subscription] = @ - 1] ELSE listeners
    /\ subscription' = NoClient
    /\ reconnect' = TRUE
    /\ UNCHANGED connected

\* authenticate succeeded: at the start of the page, or after a logout or a 401.
Connect(c) ==
    /\ StompConnect(c)
    /\ UNCHANGED <<timers, logs, page, redraw>>

(* For the mutation checks: a page that is connected does not subscribe    *)
(* again.                                                                  *)
StompConnectedOnce(c) ==
    /\ clients[c] = "connecting"
    /\ clients' = [clients EXCEPT ![c] = "open"]
    /\ connected' = TRUE
    /\ IF clients'[current] = "open" /\ ~connected
       THEN /\ listeners' = [listeners EXCEPT ![current] = @ + 1]
            /\ subscription' = current
       ELSE UNCHANGED <<listeners, subscription>>
    /\ UNCHANGED <<current, reconnect, timers, logs, page, redraw>>

\* A client is connected: the subscription is made on the current client, whichever this
\* is, and fails without effect when that one is still connecting or closed.
StompConnected(c) ==
    /\ clients[c] = "connecting"
    /\ clients' = [clients EXCEPT ![c] = "open"]
    /\ connected' = TRUE
    /\ IF clients'[current] = "open"
       THEN /\ listeners' = [listeners EXCEPT ![current] = @ + 1]
            /\ subscription' = current
       ELSE UNCHANGED <<listeners, subscription>>
    /\ UNCHANGED <<current, reconnect, timers, logs, page, redraw>>

\* A client fails to connect or loses its server.
StompError(c) ==
    /\ clients[c] # "closed"
    /\ timers < MaxTimers
    /\ clients' = [clients EXCEPT ![c] = "closed"]
    /\ listeners' = [listeners EXCEPT ![c] = 0]
    /\ connected' = FALSE
    /\ timers' = IF reconnect THEN timers + 1 ELSE timers
    /\ UNCHANGED <<current, subscription, reconnect, logs, page, redraw>>

\* Five seconds later; the timer does not look at stompReconnect.
Reconnect(c) ==
    /\ timers > 0
    /\ timers' = timers - 1
    /\ StompConnect(c)
    /\ UNCHANGED <<logs, page, redraw>>

\* logout: only the current client is disconnected, and without its error callback.  One
\* that is still connecting throws, and goes on to connect.
StompDisconnect ==
    /\ current # NoClient
    /\ reconnect' = FALSE
    /\ IF clients[current] = "connecting"
       THEN UNCHANGED <<connected, clients, listeners>>
       ELSE /\ connected' = FALSE
            /\ clients' = [clients EXCEPT ![current] = "closed"]
            /\ listeners' = [listeners EXCEPT ![current] = 0]
    /\ UNCHANGED <<current, subscription, timers, logs, page, redraw>>

\* A message comes to a client, once for each of its subscriptions: the log keeps the last
\* LogLimit messages, and an open panel is told to draw them a moment later.
Log(c, m) ==
    /\ listeners[c] > 0
    /\ LET long == logs \o [i \in 1 .. listeners[c] |-> m]
       IN  logs' = IF Len(long) > LogLimit
                   THEN SubSeq(long, Len(long) - LogLimit + 1, Len(long)) ELSE long
    /\ redraw' = (page # Closed)
    /\ UNCHANGED <<sockets, page>>

\* The panel Logs is opened, its timer fires, the user clears it or closes it.
OpenLogs ==
    /\ page = Closed
    /\ page' = logs
    /\ redraw' = FALSE
    /\ UNCHANGED <<sockets, logs>>

Redraw ==
    /\ redraw
    /\ redraw' = FALSE
    /\ page' = logs
    /\ UNCHANGED <<sockets, logs>>

ClearLogs ==
    /\ page # Closed
    /\ logs' = <<>> /\ page' = <<>>
    /\ UNCHANGED <<sockets, redraw>>

CloseLogs ==
    /\ page # Closed
    /\ page' = Closed /\ redraw' = FALSE
    /\ UNCHANGED <<sockets, logs>>

StompNext ==
    \/ \E c \in Client : Connect(c) \/ StompConnected(c) \/ StompError(c) \/ Reconnect(c)
    \/ StompDisconnect
    \/ \E c \in Client, m \in Message : Log(c, m)
    \/ OpenLogs \/ Redraw \/ ClearLogs \/ CloseLogs

StompSpec == StompInit /\ [][StompNext]_stompVars
-----------------------------------------------------------------------------
(* Properties.                                                             *)

\* The log reaches the page.  While the page wants a connection, some client lives or a
\* timer waits, and it says it is connected only if some client is; when the current client
\* is open it has a subscription, whatever clients were forgotten, failed or connected late
\* before (stompConnect); and an open panel shows the log, or will draw it: no message or
\* clearing is missed, in whatever order they come (Logs.logCallback restarts a timer that
\* is under way).
LogIsReceived ==
    /\ current # NoClient /\ reconnect =>
          timers > 0 \/ \E c \in Client : clients[c] # "closed"
    /\ connected => \E c \in Client : clients[c] = "open"
    /\ current # NoClient /\ clients[current] = "open" => listeners[current] > 0
    /\ page \notin {Closed, logs} => redraw
=============================================================================
