------------------------------ MODULE MessageRouter ------------------------------
(***************************************************************************)
(* The message router (acl/Transport/MessageRouter.cpp) with the           *)
(* transports it creates, hands its requests to and replaces.  A step is   *)
(* what a thread does under m_connectionMutex.                             *)
(*                                                                         *)
(* AVSConnectionManager calls enable, disable and reconnect (disable and   *)
(* enable) one at a time under its m_isEnabledMutex: they are the steps of *)
(* one client, "manager", which also calls doShutdown in the end.  Nothing *)
(* keeps the callers of setAVSGateway apart from it or from each other.    *)
(* The executor's tasks are not modelled: they pass the status on, and     *)
(* shut down transports whose loops have ended, which changes nothing.     *)
(***************************************************************************)
EXTENDS HTTP2Transport

CONSTANTS
    GatewayClients, \* the callers of setAVSGateway, each with one new gateway
    MaxEnables      \* bound: calls of enable

ASSUME RouterAssumption == "manager" \notin GatewayClients /\ MaxEnables \in Nat

NoTransport == 0
Clients == GatewayClients \cup {"manager"}

VARIABLES
    m_isEnabled, m_connectionStatus, m_transports, m_activeTransport,
    moved,          \* client -> what its disconnectAllTransportsLocked has to shut down
    clientPc,
    created, enables,
    dropped,        \* history: requests that doShutdown cleared away
    overlapped      \* history: a transport was created during another client's setAVSGateway

statusVars == <<m_isEnabled, m_connectionStatus, m_transports, m_activeTransport>>
clientVars == <<moved, clientPc, enables, dropped, overlapped>>
routerVars == <<statusVars, created, clientVars>>
vars == <<transportVars, routerVars>>

queueVars == <<m_queue, m_isWaitingForAcknowledgement, offered, answers>>

Init ==
    /\ TransportInit
    /\ m_isEnabled = FALSE
    /\ m_connectionStatus = "DISCONNECTED"
    /\ m_transports = <<>>
    /\ m_activeTransport = NoTransport
    /\ moved = [c \in Clients |-> <<>>]
    /\ clientPc = [c \in Clients |-> "idle"]
    /\ created = 0 /\ enables = 0
    /\ dropped = {}
    /\ overlapped = FALSE

-----------------------------------------------------------------------------
(* Helpers *)

\* createActiveTransportLocked, from the given members and status: the factory or
\* connect may fail.
createActiveTransportLocked(mm, transports, status) ==
    \/ /\ created < N
       /\ created' = created + 1
       /\ m' = [mm EXCEPT ![created'] =
                  [setStateLocked(@, "AUTHORIZING", "RECOVERABLE") EXCEPT !.loop = "start"]]
       /\ m_transports' = Append(transports, created')
       /\ m_activeTransport' = created'
       /\ m_connectionStatus' = status
    \/ /\ m' = mm
       /\ m_transports' = transports
       /\ m_activeTransport' = NoTransport
       /\ m_connectionStatus' = "DISCONNECTED"
       /\ UNCHANGED created

\* disconnectAllTransportsLocked, up to the unlock.
disconnectAllTransportsLocked(c) ==
    /\ moved' = [moved EXCEPT ![c] = m_transports]
    /\ m_transports' = <<>>
    /\ m_activeTransport' = NoTransport
    /\ m_connectionStatus' = "DISCONNECTED"

\* The first t of s is erased.
Without(s, t) ==
    IF t \in Elements(s)
    THEN RemoveAt(s, CHOOSE i \in DOMAIN s : s[i] = t /\ \A j \in 1..(i - 1) : s[j] # t)
    ELSE s

\* Another client than c is between the unlock and the lock of its setAVSGateway.
Overlaps(c) == \E d \in GatewayClients \ {c} : clientPc[d] = "switching"

-----------------------------------------------------------------------------
(* The clients *)

enable ==
    /\ clientPc["manager"] = "idle" /\ enables < MaxEnables
    /\ enables' = enables + 1
    /\ IF m_isEnabled \/ m_activeTransport # NoTransport
       THEN UNCHANGED <<m, statusVars, created, overlapped>>
       ELSE /\ m_isEnabled' = TRUE /\ createActiveTransportLocked(m, m_transports, "PENDING")
            /\ overlapped' = (overlapped \/ Overlaps("manager"))
    /\ UNCHANGED <<queueVars, moved, clientPc, dropped>>

\* disable, or doShutdown, which begins with it.
disable ==
    /\ clientPc["manager"] = "idle"
    /\ \E pc \in {"disabling", "shuttingDown"} : clientPc' = [clientPc EXCEPT !["manager"] = pc]
    /\ m_isEnabled' = FALSE
    /\ disconnectAllTransportsLocked("manager")
    /\ UNCHANGED <<transportVars, created, enables, dropped, overlapped>>

\* setAVSGateway with another gateway than the last one.
setAVSGateway(c) ==
    /\ c \in GatewayClients /\ clientPc[c] = "idle"
    /\ IF m_isEnabled
       THEN /\ clientPc' = [clientPc EXCEPT ![c] = "switching"]
            /\ disconnectAllTransportsLocked(c)
       ELSE /\ clientPc' = [clientPc EXCEPT ![c] = "done"]
            /\ UNCHANGED <<moved, m_transports, m_activeTransport, m_connectionStatus>>
    /\ UNCHANGED <<transportVars, m_isEnabled, created, enables, dropped, overlapped>>

\* transport->shutdown() for the first of the moved transports: SHUTDOWN is set,
\* then the thread is joined.
ShutdownTransport(c) ==
    /\ moved[c] # <<>>
    /\ m[Head(moved[c])].state # "SHUTDOWN"
    /\ m' = [m EXCEPT ![Head(moved[c])] = setStateLocked(@, "SHUTDOWN", "RECOVERABLE")]
    /\ UNCHANGED <<queueVars, routerVars>>

\* Mutant: the thread of the transport is not joined.
JoinsNobody(x) == TRUE

Joinable(x) == x.loop = "ended"

JoinTransport(c) ==
    /\ moved[c] # <<>>
    /\ m[Head(moved[c])].state = "SHUTDOWN" /\ Joinable(m[Head(moved[c])])
    /\ moved' = [moved EXCEPT ![c] = Tail(@)]
    /\ UNCHANGED <<transportVars, statusVars, clientPc, created, enables, dropped, overlapped>>

\* disable has the lock again and returns.
disableReturns ==
    /\ clientPc["manager"] = "disabling" /\ moved["manager"] = <<>>
    /\ clientPc' = [clientPc EXCEPT !["manager"] = "idle"]
    /\ UNCHANGED <<transportVars, statusVars, created, moved, enables, dropped, overlapped>>

\* setAVSGateway has the lock again and creates a transport, whatever has been
\* created in the meantime.
setAVSGatewayReturns(c) ==
    /\ clientPc[c] = "switching" /\ moved[c] = <<>>
    /\ clientPc' = [clientPc EXCEPT ![c] = "done"]
    /\ IF m_isEnabled
       THEN /\ createActiveTransportLocked(m, m_transports, m_connectionStatus)
            /\ overlapped' = (overlapped \/ Overlaps(c))
       ELSE UNCHANGED <<m, statusVars, created, overlapped>>
    /\ UNCHANGED <<queueVars, m_isEnabled, moved, enables, dropped>>

\* The request that doShutdown answers: the first one.
AnsweredAtShutdown == {m_queue[i] : i \in DOMAIN m_queue \cap {1}}

\* doShutdown after disable: one request is answered, then the others are cleared.  It
\* holds m_connectionMutex over both; no other step under that lock touches the queue of
\* a router that is disabled.
doShutdown ==
    /\ clientPc["manager"] = "shuttingDown" /\ moved["manager"] = <<>>
    /\ clientPc' = [clientPc EXCEPT !["manager"] = "clearing"]
    /\ Answer(AnsweredAtShutdown)
    /\ m_queue' = IF m_queue = <<>> THEN <<>> ELSE Tail(m_queue)
    /\ UNCHANGED <<m, m_isWaitingForAcknowledgement, offered, statusVars, created,
                   moved, enables, dropped, overlapped>>

doShutdownClears ==
    /\ clientPc["manager"] = "clearing"
    /\ clientPc' = [clientPc EXCEPT !["manager"] = "down"]
    /\ dropped' = dropped \cup Elements(m_queue)
    /\ m_queue' = <<>>
    /\ UNCHANGED <<m, m_isWaitingForAcknowledgement, offered, answers, statusVars,
                   created, moved, enables, overlapped>>

routerSendMessage(r) ==
    /\ r \in Requests \ offered
    /\ offered' = offered \cup {r}
    /\ IF m_activeTransport # NoTransport
       THEN m_queue' = Append(m_queue, r) /\ UNCHANGED answers
       ELSE Answer({r}) /\ UNCHANGED m_queue
    /\ UNCHANGED <<m, m_isWaitingForAcknowledgement, routerVars>>

onWakeConnectionRetry ==
    /\ m_isEnabled /\ m_activeTransport # NoTransport
    /\ m[m_activeTransport].state = "WAITING_TO_RETRY_CONNECTING"
    /\ m' = [m EXCEPT ![m_activeTransport] = setStateLocked(@, "CONNECTING", "RECOVERABLE")]
    /\ UNCHANGED <<queueVars, routerVars>>

-----------------------------------------------------------------------------
(* TransportObserverInterface: called by the main loops *)

\* Mutant: any transport that connects counts.
ConnectionCountsAlways(t) == m_isEnabled

\* The connection of t is that of the router.
ConnectionCounts(t) == m_isEnabled /\ t = m_activeTransport

onConnected(t) ==
    /\ handleConnected(t)
    /\ m' = NextLoop(t)
    /\ m_connectionStatus' = IF ConnectionCounts(t) THEN "CONNECTED" ELSE m_connectionStatus
    /\ UNCHANGED <<queueVars, m_isEnabled, m_transports, m_activeTransport, created,
                   clientVars>>

onServerSideDisconnect(t) ==
    /\ handleServerSideDisconnect(t)
    /\ IF m_isEnabled /\ t = m_activeTransport
       THEN createActiveTransportLocked(NextLoop(t), m_transports, "PENDING")
       ELSE m' = NextLoop(t) /\ UNCHANGED <<m_transports, m_activeTransport, m_connectionStatus, created>>
    /\ UNCHANGED <<queueVars, m_isEnabled, clientVars>>

\* The active transport t is gone: it is replaced unless the router is disabled,
\* the error is final, or the status has been DISCONNECTED all along.
ActiveDisconnected(t, transports) ==
    IF m_connectionStatus # "DISCONNECTED" /\ m_isEnabled /\ m[t].reason # "UNRECOVERABLE_ERROR"
    THEN createActiveTransportLocked(NextLoop(t), transports, "PENDING")
    ELSE /\ m' = NextLoop(t)
         /\ m_transports' = transports
         /\ m_activeTransport' = NoTransport
         /\ m_connectionStatus' = IF transports = <<>> THEN "DISCONNECTED" ELSE m_connectionStatus
         /\ UNCHANGED created

onDisconnected(t) ==
    /\ handleShutdownNotifies(t)
    /\ IF t = m_activeTransport THEN ActiveDisconnected(t, Without(m_transports, t))
       ELSE /\ m' = NextLoop(t)
            /\ m_transports' = Without(m_transports, t)
            /\ UNCHANGED <<m_activeTransport, m_connectionStatus, created>>
    /\ UNCHANGED <<queueVars, m_isEnabled, clientVars>>

-----------------------------------------------------------------------------
(* Next *)

ObserverCalls(t) == onConnected(t) \/ onServerSideDisconnect(t) \/ onDisconnected(t)

ClientSteps(c) ==
    \/ c = "manager" /\ (disableReturns \/ doShutdown \/ doShutdownClears)
    \/ ShutdownTransport(c) \/ JoinTransport(c) \/ setAVSGatewayReturns(c)

TransportSteps(t) ==
    /\ \/ MainLoop(t) \/ MonitorSees(t) \/ CanSendShared(t) \/ SendPing(t)
       \/ PostConnectEnds(t) \/ Connection(t) \/ Authorization(t)
       \/ \E r \in PostRequests : sendMessage(t, r)
    /\ UNCHANGED routerVars

Next ==
    \/ enable \/ disable
    \/ \E c \in Clients : ClientSteps(c)
    \/ \E c \in GatewayClients : setAVSGateway(c)
    \/ \E r \in Requests : routerSendMessage(r)
    \/ onWakeConnectionRetry
    \/ \E t \in Transports : ObserverCalls(t) \/ TransportSteps(t)

Spec == Init /\ [][Next]_vars

\* Threads run, time passes, exchanges end, and operations return (those that were
\* aborted, and those whose messages are answered).
Fairness ==
    /\ \A c \in Clients : WF_vars(ClientSteps(c))
    /\ \A t \in Transports :
        /\ WF_vars(ObserverCalls(t))
        /\ WF_vars(MainLoop(t) /\ UNCHANGED routerVars)
        /\ SF_vars(MonitorSees(t) /\ UNCHANGED routerVars)
        /\ WF_vars(CanSendShared(t) /\ UNCHANGED routerVars)
        /\ WF_vars(PostConnectEnds(t) /\ UNCHANGED routerVars)
        /\ \A r \in AllRequests : WF_vars(onResponseFinished(t, r) /\ UNCHANGED routerVars)

FairSpec == Spec /\ Fairness

-----------------------------------------------------------------------------
(* Properties *)

\* The active transport is one of m_transports (the error
\* activeTransportNotInTransports does not happen), and one whose main loop has not
\* ended is known to the router or to a client that is shutting it down: no connection
\* is forgotten while its thread runs, whatever the order of disconnects,
\* replacements and gateway changes.
EveryTransportOwned ==
    /\ m_activeTransport # NoTransport => m_activeTransport \in Elements(m_transports)
    /\ \A t \in Transports : m[t].loop \notin {"off", "ended"} =>
        t \in Elements(m_transports) \cup UNION {Elements(moved[c]) : c \in Clients}

\* While the router says CONNECTED its active transport has reported so: neither a
\* transport that was replaced nor a late report of it makes the router connected.
\* A setAVSGateway that comes back to a connected router can (overlapped).
ConnectedIsReported ==
    ~overlapped /\ m_connectionStatus = "CONNECTED" /\ m_activeTransport # NoTransport =>
        m[m_activeTransport].loop \in
            {"connected", "SERVER_SIDE_DISCONNECT", "DISCONNECTING", "SHUTDOWN", "closing"}

\* One main loop at a time takes requests from the shared queue; two that are created
\* while an old one is being shut down break this (overlapped).
OneServer ==
    ~overlapped => \A t, u \in Transports :
        m[t].loop \in Monitoring \cup {"connected"} /\ m[u].loop \in Monitoring \cup {"connected"}
            => t = u

\* A main loop that has seen a request it may take from the shared queue gets one, and
\* does not crash on the null request that it does not test for.  Two things break this:
\* two loops at the queue (overlapped), and doShutdown, which empties the queue while
\* a transport of a setAVSGateway in progress is still at it.
SeenIsTaken ==
    ~overlapped /\ clientPc["manager"] \notin {"clearing", "down"} =>
        \A t \in Transports : m[t].loop # "crashed"

Places(r) ==
    Cardinality({i \in DOMAIN m_queue : m_queue[i] = r})
      + Cardinality({t \in Transports : r \in Elements(m[t].queue)})
      + Cardinality({t \in Transports : m[t].hand = r})
      + Cardinality({t \in Transports : r \in m[t].handlers})
      + Cardinality(dropped \cap {r}) + answers[r]

\* A request is in one place: queued, being sent, under way, answered once, or
\* cleared away by doShutdown.  It survives every change of transport, and no two
\* of timeout, shutdown, failure and response answer it.
OnePlace == \A r \in AllRequests : Places(r) = IF r \in offered THEN 1 ELSE 0

CrashedLoop == \E t \in Transports : m[t].loop = "crashed"

\* disable, doShutdown and setAVSGateway, which join the main loops, return, unless the
\* program crashes.
CallsReturn == []<>(CrashedLoop \/ \A c \in Clients : clientPc[c] \in {"idle", "down", "done"})

\* Every request that was accepted is answered, even if no connection ever comes about,
\* unless doShutdown clears it away, the router is left without a transport or the
\* program crashes: again and again none waits for its answer.
RequestAnswered ==
    []<>(\/ \A r \in Requests \cap offered : answers[r] > 0 \/ r \in dropped
         \/ m_activeTransport = NoTransport \/ CrashedLoop)
=============================================================================
