--------------------------- MODULE MessageRouterProofs ---------------------------
(***************************************************************************)
(* Proofs about MessageRouter and the transports it composes, for every    *)
(* number of transports, requests and clients: which transports the router *)
(* knows of, when it is connected, who serves the shared queue, and that a *)
(* request is in one place until it is answered, once.                     *)
(***************************************************************************)
EXTENDS MessageRouter, FiniteSetTheorems, SequenceTheorems, WellFoundedInduction, TLAPS

USE TransportAssumption, RouterAssumption

-----------------------------------------------------------------------------
(* The inductive invariant *)

Reasons == {"NONE", "RECOVERABLE", "UNRECOVERABLE_ERROR"}

\* The members of a transport.
Members ==
    [state : State, reason : Reasons, postConnected : BOOLEAN, pingHandler : BOOLEAN,
     queue : Seq(AllRequests), loop : LoopPc, seen : BOOLEAN, hand : AllRequests \cup {NoRequest},
     post : {"none", "operating", "done"}, stopping : BOOLEAN,
     downchannel : {"none", "open", "up"}, handlers : SUBSET AllRequests,
     unacknowledged : SUBSET AllRequests]

Types ==
    /\ m \in [Transports -> Members]
    /\ m_isEnabled \in BOOLEAN
    /\ m_connectionStatus \in {"DISCONNECTED", "PENDING", "CONNECTED"}
    /\ m_transports \in Seq(Transports)
    /\ m_activeTransport \in Transports \cup {NoTransport}
    /\ moved \in [Clients -> Seq(Transports)]
    /\ clientPc \in [Clients -> {"idle", "disabling", "shuttingDown", "clearing", "down", "switching", "done"}]
    /\ created \in Nat
    /\ overlapped \in BOOLEAN
    /\ m_queue \in Seq(AllRequests)

\* States from which a transport never connects again.
Late == {"CONNECTED"} \cup Ending

\* Where the main loop is says how far m_state has come, that it has a request in hand
\* only while it sends, that handleShutdown has emptied the transport's own queue, and
\* that it has seen a request only where it looks at the shared queue.
LoopFits(x) ==
    /\ x.loop \in {"POST_CONNECTING", "posting"} => x.state \in Late \cup {"POST_CONNECTING"}
    /\ x.loop \in {"CONNECTED", "connected"} => x.state \in Late
    /\ x.loop \in {"SHUTDOWN", "closing"} => x.state \in Ending
    /\ x.hand # NoRequest => x.loop \in {"posting", "connected"}
    /\ x.loop = "closing" => x.queue = <<>>
    /\ x.seen => x.loop \in Monitoring \cup {"connected"} /\ x.hand = NoRequest

LoopsFit ==
    \A t \in Transports : LoopFits(m[t]) /\ (t > created => m[t].loop = "off")

\* A client has transports to shut down only while it does so; the manager is not
\* disabling anything while the router is enabled.
ClientsFit ==
    /\ \A c \in Clients : clientPc[c] \notin {"disabling", "shuttingDown", "switching"}
                            => moved[c] = <<>>
    /\ clientPc["manager"] # "switching"
    /\ \A c \in GatewayClients : clientPc[c] \in {"idle", "switching", "done"}
    /\ m_isEnabled => clientPc["manager"] = "idle"

\* The main loop has not begun, has ended, or is on its way to the end.
Quitting == {"off", "DISCONNECTING", "SHUTDOWN", "closing", "ended"}
Running(t) == m[t].loop \notin Quitting

\* Where the loop of a transport that has reported its connection can be.
Reported == {"connected", "crashed", "SERVER_SIDE_DISCONNECT", "DISCONNECTING", "SHUTDOWN",
             "closing"}

\* A loop at pc, where it looks at the shared queue, could take a request from it.
Available(pc) ==
    IF pc = "connected" THEN isMessageRequestAvailable(m_queue, m_isWaitingForAcknowledgement)
    ELSE m_queue # <<>>

BeingMoved(t) == \E c \in Clients : t \in Elements(moved[c])

\* Only one transport is running, the active one or, when there is none, one that a
\* client is shutting down; and a router whose gateway is being changed is disconnected.
OneRunning ==
    /\ \A t, u \in Transports : Running(t) /\ Running(u) => t = u
    /\ \A t \in Transports : Running(t) =>
         t = m_activeTransport \/ (m_activeTransport = NoTransport /\ BeingMoved(t))
    /\ (\E c \in GatewayClients : clientPc[c] = "switching") =>
         m_activeTransport = NoTransport /\ m_connectionStatus = "DISCONNECTED"
    /\ m_connectionStatus = "CONNECTED" /\ m_activeTransport # NoTransport =>
         m[m_activeTransport].loop \in Reported

RouterInv ==
    /\ Types /\ LoopsFit /\ ClientsFit /\ EveryTransportOwned
    /\ ~overlapped => OneRunning

-----------------------------------------------------------------------------
(* The transports *)

\* z is x with m_state and m_disconnectReason moved forward, if at all: a transport that
\* is connected, or has begun to end, never goes back.
Advances(x, z) ==
    /\ z \in Members /\ z.loop = x.loop /\ z.queue = x.queue /\ z.hand = x.hand
    /\ z.handlers = x.handlers /\ z.seen = x.seen
    /\ x.state \in Late => z.state \in Late
    /\ x.state \in Late \cup {"POST_CONNECTING"} => z.state \in Late \cup {"POST_CONNECTING"}
    /\ x.state \in Ending => z.state \in Ending

\* setStateLocked advances a transport, and can always set SHUTDOWN.
LEMMA SetState ==
    ASSUME NEW x \in Members, NEW s \in State, NEW reason \in Reasons
    PROVE  LET y == setStateLocked(x, s, reason) IN
           /\ Advances(x, y)
           /\ s = "SHUTDOWN" => y.state = "SHUTDOWN"
           /\ s = "CONNECTED" /\ x.state \in Late \cup {"POST_CONNECTING"} => y.state \in Late
<1> DEFINE y == setStateLocked(x, s, reason)
<1>1. y = x \/ y = [x EXCEPT !.state = s, !.reason = IF s \in Ending /\ x.reason = "NONE"
                                                       THEN reason ELSE @]
  BY DEF setStateLocked
<1>2. CASE y = x /\ (x.state = s \/ x.state \notin AllowedFrom(s))
  <2>1. s = "SHUTDOWN" => x.state = "SHUTDOWN"
    <3>1. AllowedFrom("SHUTDOWN") = State
      BY DEF AllowedFrom
    <3> QED BY <1>2, <3>1 DEF Members
  <2>2. s = "CONNECTED" => x.state # "POST_CONNECTING"
    <3>1. AllowedFrom("CONNECTED") = {"POST_CONNECTING"}
      BY DEF AllowedFrom
    <3> QED BY <1>2, <3>1
  <2> QED BY <1>2, <2>1, <2>2 DEF Late, Advances
<1>3. CASE /\ x.state \in AllowedFrom(s) /\ x.state # s
           /\ y = [x EXCEPT !.state = s, !.reason = IF s \in Ending /\ x.reason = "NONE"
                                                     THEN reason ELSE @]
  <2>1. /\ y \in Members /\ y.loop = x.loop /\ y.queue = x.queue /\ y.hand = x.hand
        /\ y.handlers = x.handlers /\ y.state = s /\ y.seen = x.seen
    BY <1>3 DEF Members, Reasons
  <2>2. x.state \in Late => s \in Late
    BY <1>3 DEF AllowedFrom, Late, Ending, State
  <2>3. x.state \in Ending => s \in Ending
    BY <1>3 DEF AllowedFrom, Ending, State
  <2>4. x.state = "POST_CONNECTING" => s \in Late \cup {"POST_CONNECTING"}
    BY <1>3 DEF AllowedFrom, Late, Ending, State
  <2>5. "CONNECTED" \in Late
    BY DEF Late
  <2> HIDE DEF y
  <2>6. QED BY <2>1, <2>2, <2>3, <2>4, <2>5 DEF y, Advances
<1> QED BY <1>1, <1>2, <1>3 DEF setStateLocked

\* What a step of its own threads may do to a transport.
Steps(x, y) ==
    /\ y \in Members /\ LoopFits(y)
    /\ x.loop \in {"off", "ended"} => y.loop = x.loop
    /\ y.loop \in {"off", "ended"} => y.loop = x.loop
    /\ x.loop \in Quitting => y.loop \in Quitting
    /\ x.loop \in Reported => y.loop \in Reported
    /\ y.seen => y.loop = x.loop /\ (x.seen \/ Available(x.loop))
    /\ y.loop = "crashed" => x.loop = "crashed" \/ (x.seen /\ ~Available(x.loop))

\* A step that leaves the loop where it is.
LEMMA StepInPlace ==
    ASSUME NEW x \in Members, LoopFits(x), NEW z, Advances(x, z),
           NEW y \in Members, y.loop = x.loop, y.state = z.state,
           y.hand # NoRequest => y.hand = x.hand \/ x.loop \in {"posting", "connected"},
           x.loop = "closing" => y.queue = x.queue, y.seen => x.seen /\ y.hand = x.hand
    PROVE  Steps(x, y)
BY DEF Steps, LoopFits, Advances

\* A step of the loop to the handler of the present state.
LEMMA StepToState ==
    ASSUME NEW x \in Members, LoopFits(x), NEW y \in Members, y.loop = y.state,
           ~y.seen, y.hand = NoRequest, x.loop \notin {"off", "ended"},
           x.loop \in Quitting => y.state = "SHUTDOWN",
           x.loop \in Reported => y.state \in Ending
    PROVE  Steps(x, y)
<1>1. Ending \subseteq Reported
  BY DEF Ending, Reported
<1>2. y.loop \in State
  BY DEF Members
<1>3. y.loop \notin {"off", "ended", "posting", "connected", "closing", "crashed"}
  BY <1>2 DEF State
<1>4. LoopFits(y)
  BY <1>3 DEF LoopFits, Late, Ending
<1> QED BY <1>1, <1>3, <1>4 DEF Steps, Quitting

\* The result of Only.
LEMMA OnlyOne ==
    ASSUME NEW t, NEW x, Only(t, x)
    PROVE  m' = [m EXCEPT ![t] = x]
BY DEF Only
\* A step of transport t, to members that its threads can bring about.
Moves(t) == \E y : m' = [m EXCEPT ![t] = y] /\ Steps(m[t], y)

\* The state that setStateLocked leaves behind is the present one or one that comes later.
LEMMA StayOrAdvance ==
    ASSUME NEW x \in Members
    PROVE  /\ Advances(x, x)
           /\ \A s \in State, reason \in Reasons : Advances(x, setStateLocked(x, s, reason))
BY SetState DEF Advances

\* The main loop, until it sends.
LEMMA LoopMoves ==
    ASSUME NEW t \in Transports, Types, LoopsFit,
           \/ LoopStart(t) \/ LoopEnter(t) \/ handleAuthorizing(t) \/ handleConnecting(t)
           \/ MonitorReturns(t) \/ handleWaitingToRetryConnecting(t) \/ handlePostConnecting(t)
    PROVE  Moves(t)
<1> DEFINE x == m[t]
<1>1. x \in Members /\ LoopFits(x)
  BY DEF Types, LoopsFit
<1> HIDE DEF x
<1>2. "RECOVERABLE" \in Reasons /\ {"SHUTDOWN", "CONNECTED", "CONNECTING", "WAITING_TO_RETRY_CONNECTING"} \subseteq State
  BY DEF Reasons, State
<1>3. CASE LoopStart(t)
  <2>1. CASE Only(t, [x EXCEPT !.loop = "entering", !.post = "operating"])
    <3> DEFINE y == [x EXCEPT !.loop = "entering", !.post = "operating"]
    <3>1. x.loop = "start"
      BY <1>3 DEF LoopStart, x
    <3>2. y \in Members /\ y.loop = "entering" /\ y.hand = x.hand /\ y.seen = x.seen
      BY <1>1 DEF Members, LoopPc
    <3>3. Steps(x, y)
      BY <1>1, <3>1, <3>2 DEF Steps, LoopFits, Quitting, Reported, Monitoring
    <3> QED BY <2>1, <3>3 DEF Moves, Only, x
  <2>2. CASE Only(t, [setStateLocked(x, "SHUTDOWN", "RECOVERABLE") EXCEPT !.loop = "entering"])
    <3> DEFINE z == setStateLocked(x, "SHUTDOWN", "RECOVERABLE")
    <3> DEFINE y == [z EXCEPT !.loop = "entering"]
    <3>1. x.loop = "start"
      BY <1>3 DEF LoopStart, x
    <3>2. Advances(x, z)
      BY <1>1, <1>2, SetState
    <3> HIDE DEF z
    <3>3. y \in Members /\ y.loop = "entering" /\ y.hand = x.hand /\ y.seen = x.seen
      BY <1>1, <3>2 DEF Members, LoopPc, Advances
    <3>4. Steps(x, y)
      BY <1>1, <3>1, <3>3 DEF Steps, LoopFits, Quitting, Reported, Monitoring
    <3> QED BY <2>2, <3>4 DEF Moves, Only, x, z
  <2> QED BY <1>3, <2>1, <2>2 DEF LoopStart, x
<1>4. ASSUME x.loop \in {"entering", "authorizing", "connecting", "WAITING_TO_RETRY_CONNECTING"},
             NEW y \in Members, y.loop = y.state, y.hand = x.hand, ~y.seen
      PROVE  Steps(x, y)
  BY <1>1, <1>4, StepToState DEF LoopFits, Quitting, Reported
<1>5. [x EXCEPT !.loop = x.state] \in Members
  BY <1>1 DEF Members, LoopPc
<1>6. CASE LoopEnter(t)
  <2> DEFINE y == [x EXCEPT !.loop = x.state]
  <2>1. x.loop = "entering" /\ ~x.seen
    BY <1>1, <1>6 DEF LoopEnter, x, LoopFits, Monitoring
  <2>2. Steps(x, y)
    BY <1>1, <1>4, <1>5, <2>1 DEF Members
  <2> QED BY <1>6, <2>2 DEF LoopEnter, Moves, Only, x
<1>7. CASE handleAuthorizing(t)
  <2> DEFINE y == [x EXCEPT !.loop = "authorizing"]
  <2>1. x.loop = "AUTHORIZING"
    BY <1>7 DEF handleAuthorizing, x
  <2>2. y \in Members /\ y.loop = "authorizing" /\ y.hand = x.hand /\ y.seen = x.seen
    BY <1>1 DEF Members, LoopPc
  <2>3. Steps(x, y)
    BY <1>1, <2>1, <2>2 DEF Steps, LoopFits, Quitting, Reported, Monitoring
  <2> QED BY <1>7, <2>3 DEF handleAuthorizing, Moves, Only, x
<1>8. ASSUME NEW s \in State, x.loop = "CONNECTING" \/ x.loop = "WAITING_TO_RETRY_CONNECTING",
             ~x.seen
      PROVE  Steps(x, ReturnState(x, s, "RECOVERABLE"))
  <2> DEFINE z == setStateLocked(x, s, "RECOVERABLE")
  <2> DEFINE y == [z EXCEPT !.loop = z.state]
  <2>1. Advances(x, z)
    BY <1>1, <1>2, SetState
  <2>2. ReturnState(x, s, "RECOVERABLE") = y
    BY DEF ReturnState
  <2> HIDE DEF z
  <2>3. y \in Members /\ y.loop = y.state /\ y.hand = x.hand /\ y.seen = x.seen
    BY <1>1, <2>1 DEF Members, LoopPc, Advances
  <2>4. x.loop \notin Quitting \cup Reported /\ x.hand = NoRequest /\ x.loop \notin {"off", "ended"}
    BY <1>1, <1>8 DEF LoopFits, Quitting, Reported
  <2>5. Steps(x, y)
    BY <1>1, <1>8, <2>3, <2>4, StepToState
  <2> QED BY <2>2, <2>5
<1>9. CASE handleConnecting(t)
  <2>1. x.loop = "CONNECTING" /\ ~x.seen
    BY <1>1, <1>9 DEF handleConnecting, x, LoopFits, Monitoring
  <2>2. CASE Only(t, [x EXCEPT !.loop = "connecting", !.downchannel = "open"])
    <3> DEFINE y == [x EXCEPT !.loop = "connecting", !.downchannel = "open"]
    <3>1. y \in Members /\ y.loop = "connecting" /\ y.hand = x.hand /\ y.seen = x.seen
      BY <1>1 DEF Members, LoopPc
    <3>2. Steps(x, y)
      BY <1>1, <2>1, <3>1 DEF Steps, LoopFits, Quitting, Reported
    <3> QED BY <2>2, <3>2 DEF Moves, Only, x
  <2>3. CASE Only(t, ReturnState(x, "WAITING_TO_RETRY_CONNECTING", "RECOVERABLE"))
    BY <1>2, <1>8, <2>1, <2>3 DEF Moves, Only, x
  <2> QED BY <1>9, <2>2, <2>3 DEF handleConnecting, x
<1>10. CASE MonitorReturns(t)
  <2> DEFINE y == [x EXCEPT !.loop = x.state]
  <2>1. x.loop \in {"authorizing", "connecting"} /\ ~x.seen
    BY <1>10 DEF MonitorReturns, Woken, x
  <2>2. Steps(x, y)
    BY <1>1, <1>4, <1>5, <2>1 DEF Members
  <2> QED BY <1>10, <2>2 DEF MonitorReturns, Moves, Only, x
<1>11. CASE handleWaitingToRetryConnecting(t)
  <2>1. x.loop = "WAITING_TO_RETRY_CONNECTING" /\ ~x.seen
    BY <1>11 DEF handleWaitingToRetryConnecting, x
  <2>2. CASE Only(t, ReturnState(x, "CONNECTING", "RECOVERABLE"))
    BY <1>2, <1>8, <2>1, <2>2 DEF Moves, Only, x
  <2>3. CASE Only(t, [x EXCEPT !.loop = x.state])
    <3> DEFINE y == [x EXCEPT !.loop = x.state]
    <3>1. Steps(x, y)
      BY <1>1, <1>4, <1>5, <2>1 DEF Members
    <3> QED BY <2>3, <3>1 DEF Moves, Only, x
  <2> QED BY <1>11, <2>2, <2>3 DEF handleWaitingToRetryConnecting, x
<1>12. CASE handlePostConnecting(t)
  <2>1. x.loop = "POST_CONNECTING" /\ ~x.seen
    BY <1>1, <1>12 DEF handlePostConnecting, x, LoopFits, Monitoring
  <2>2. CASE Only(t, [setStateLocked(x, "CONNECTED", "RECOVERABLE") EXCEPT !.loop = "CONNECTED"])
    <3> DEFINE z == setStateLocked(x, "CONNECTED", "RECOVERABLE")
    <3> DEFINE y == [z EXCEPT !.loop = "CONNECTED"]
    <3>1. Advances(x, z) /\ z.state \in Late
      BY <1>1, <1>2, <2>1, SetState DEF LoopFits
    <3> HIDE DEF z
    <3>2. y \in Members /\ y.loop = "CONNECTED" /\ y.hand = x.hand /\ y.state \in Late /\ ~y.seen
      BY <1>1, <2>1, <3>1 DEF Members, LoopPc, State, Advances
    <3>3. Steps(x, y)
      BY <1>1, <2>1, <3>2 DEF Steps, LoopFits, Quitting, Reported
    <3> QED BY <2>2, <3>3 DEF Moves, Only, x, z
  <2>3. CASE Only(t, [x EXCEPT !.loop = "posting"])
    <3> DEFINE y == [x EXCEPT !.loop = "posting"]
    <3>1. y \in Members /\ y.loop = "posting" /\ y.state = x.state /\ ~y.seen
      BY <1>1, <2>1 DEF Members, LoopPc
    <3>2. Steps(x, y)
      BY <1>1, <2>1, <3>1 DEF Steps, LoopFits, Quitting, Reported
    <3> QED BY <2>3, <3>2 DEF Moves, Only, x
  <2> QED BY <1>12, <2>2, <2>3 DEF handlePostConnecting, x
<1> QED BY <1>3, <1>6, <1>7, <1>9, <1>10, <1>11, <1>12

\* A set of positions that is not empty has a first one.
LEMMA FirstExists ==
    ASSUME NEW S \in SUBSET Nat, S # {}
    PROVE  \E i \in S : \A j \in S : i =< j
<1>1. PICK i \in S : \A j \in S : ~(<<j, i>> \in OpToRel(<, Nat))
  BY NatLessThanWellFounded, WFMin
<1>2. \A j \in S : ~(j < i)
  BY <1>1 DEF OpToRel
<1> QED BY <1>2

\* When dequeueSendableRequest finds nothing, isMessageRequestAvailable would be false.
LEMMA NoneSendable ==
    ASSUME NEW S, NEW q \in Seq(S), NEW waiting, FirstSendable(q, waiting) = {}
    PROVE  ~isMessageRequestAvailable(q, waiting)
<1> SUFFICES ASSUME isMessageRequestAvailable(q, waiting) PROVE FALSE
  OBVIOUS
<1> DEFINE A == {i \in DOMAIN q : ~waiting \/ q[i] \notin Serialized}
<1>1. A \in SUBSET Nat /\ A # {} /\ DOMAIN q = 1..Len(q) /\ Len(q) \in Nat
  BY DEF isMessageRequestAvailable
<1>2. PICK i \in A : \A j \in A : i =< j
  BY <1>1, FirstExists
<1>3. ASSUME NEW j \in 1..(i - 1) PROVE waiting /\ q[j] \in Serialized
  <2>1. j \in DOMAIN q /\ ~(i =< j)
    BY <1>1, <1>2
  <2> QED BY <1>2, <2>1
<1>4. i \in FirstSendable(q, waiting)
  BY <1>2, <1>3 DEF FirstSendable
<1> QED BY <1>4

\* The main loop while it sends and while it ends.
LEMMA SendAndEndMoves ==
    ASSUME NEW t \in Transports, Types, LoopsFit,
           \/ StopPostConnect(t) \/ handleDisconnecting(t) \/ handleShutdown(t)
           \/ SendingReturns(t) \/ DequeueOwn(t) \/ SendRequest(t) \/ SendRequestFails(t)
           \/ DequeueShared(t) \/ MonitorTimesOut(t)
    PROVE  Moves(t)
<1> DEFINE x == m[t]
<1>1. x \in Members /\ LoopFits(x) /\ Advances(x, x)
  BY StayOrAdvance DEF Types, LoopsFit
<1>2. m \in [Transports -> Members] /\ m_queue \in Seq(AllRequests)
  BY DEF Types
<1> HIDE DEF x
<1>3. CASE StopPostConnect(t)
  <2> DEFINE y == [x EXCEPT !.stopping = TRUE]
  <2>1. /\ y \in Members /\ y.loop = x.loop /\ y.state = x.state /\ y.hand = x.hand
        /\ y.queue = x.queue /\ y.seen = x.seen
    BY <1>1 DEF Members
  <2>2. Steps(x, y)
    BY <1>1, <2>1, StepInPlace
  <2> QED BY <1>3, <2>2 DEF StopPostConnect, Moves, Only, x
<1>4. CASE handleDisconnecting(t)
  <2> DEFINE z == setStateLocked(x, "SHUTDOWN", "RECOVERABLE")
  <2> DEFINE y == [z EXCEPT !.loop = z.state]
  <2>1. Advances(x, z) /\ z.state = "SHUTDOWN"
    BY <1>1, SetState DEF Reasons, State
  <2>2. x.loop = "DISCONNECTING" /\ m' = [m EXCEPT ![t] = y]
    BY <1>4 DEF handleDisconnecting, Only, ReturnState, x
  <2> HIDE DEF z
  <2>3. /\ y \in Members /\ y.loop = y.state /\ y.hand = x.hand /\ y.state = "SHUTDOWN"
        /\ y.seen = x.seen
    BY <1>1, <2>1 DEF Members, LoopPc, Advances
  <2>4. Steps(x, y)
    BY <1>1, <2>2, <2>3, StepToState DEF LoopFits, Ending, Monitoring
  <2> QED BY <2>2, <2>4 DEF Moves, x
<1>5. CASE handleShutdown(t)
  <2> DEFINE y == [x EXCEPT !.loop = "closing", !.queue = <<>>, !.downchannel = "none",
                            !.pingHandler = FALSE]
  <2>1. x.loop = "SHUTDOWN" /\ m' = [m EXCEPT ![t] = y]
    BY <1>2, <1>5 DEF handleShutdown, x
  <2>2. /\ y \in Members /\ y.loop = "closing" /\ y.queue = <<>> /\ y.state = x.state
        /\ y.hand = x.hand /\ y.seen = x.seen
    <3>1. <<>> \in Seq(AllRequests)
      OBVIOUS
    <3> QED BY <1>1, <3>1 DEF Members, LoopPc
  <2>3. Steps(x, y)
    BY <1>1, <2>1, <2>2 DEF Steps, LoopFits, Quitting, Reported, Monitoring
  <2> QED BY <2>1, <2>3 DEF Moves, x
<1>6. CASE SendingReturns(t)
  <2> DEFINE y == [x EXCEPT !.loop = x.state]
  <2>1. /\ x.loop \in {"posting", "connected"} /\ x.hand = NoRequest /\ ~x.seen
        /\ x.loop = "connected" => x.state # "CONNECTED"
        /\ m' = [m EXCEPT ![t] = y]
    BY <1>6 DEF SendingReturns, Sending, WhileState, Only, x
  <2>2. y \in Members /\ y.loop = y.state /\ y.hand = NoRequest /\ y.state = x.state /\ ~y.seen
    BY <1>1, <2>1 DEF Members, LoopPc
  <2>3. x.loop \in Reported => y.state \in Ending
    BY <1>1, <2>1, <2>2 DEF LoopFits, Late, Reported
  <2>4. x.loop \notin Quitting
    BY <2>1 DEF Quitting
  <2>5. x.loop \notin {"off", "ended"}
    BY <2>1
  <2>6. Steps(x, y)
    BY <1>1, <2>2, <2>3, <2>4, <2>5, StepToState
  <2> QED BY <2>1, <2>6 DEF Moves, x
<1>7. CASE DequeueOwn(t)
  <2> DEFINE y == [x EXCEPT !.hand = Head(x.queue), !.queue = Tail(@)]
  <2>1. x.loop = "posting" /\ ~x.seen /\ x.queue # <<>> /\ m' = [m EXCEPT ![t] = y]
    BY <1>7 DEF DequeueOwn, Sending, Only, x
  <2>2. x.queue \in Seq(AllRequests)
    BY <1>1 DEF Members
  <2>3. Head(x.queue) \in AllRequests /\ Tail(x.queue) \in Seq(AllRequests)
    BY <2>1, <2>2
  <2>4. y \in Members /\ y.loop = x.loop /\ y.state = x.state /\ ~y.seen
    BY <1>1, <2>1, <2>3 DEF Members
  <2>5. Steps(x, y)
    BY <1>1, <2>1, <2>4, StepInPlace
  <2> QED BY <2>1, <2>5 DEF Moves, x
<1>8. CASE SendRequest(t)
  <2> DEFINE y == [x EXCEPT !.hand = NoRequest, !.handlers = @ \cup {x.hand},
                            !.unacknowledged = @ \cup {x.hand}]
  <2>1. x.hand # NoRequest /\ m' = [m EXCEPT ![t] = y]
    BY <1>2, <1>8 DEF SendRequest, x
  <2>2. /\ y \in Members /\ y.loop = x.loop /\ y.state = x.state /\ y.hand = NoRequest
        /\ y.queue = x.queue /\ y.seen = x.seen
    BY <1>1, <2>1 DEF Members
  <2>3. ~x.seen
    BY <1>1, <2>1 DEF LoopFits
  <2>4. Steps(x, y)
    BY <1>1, <2>2, <2>3, StepInPlace
  <2> QED BY <2>1, <2>4 DEF Moves, x
<1>9. CASE SendRequestFails(t)
  <2> DEFINE y == [x EXCEPT !.hand = NoRequest]
  <2>1. x.hand # NoRequest /\ m' = [m EXCEPT ![t] = y]
    BY <1>2, <1>9 DEF SendRequestFails, x
  <2>2. /\ y \in Members /\ y.loop = x.loop /\ y.state = x.state /\ y.hand = NoRequest
        /\ y.queue = x.queue /\ y.seen = x.seen
    BY <1>1 DEF Members
  <2>3. ~x.seen
    BY <1>1, <2>1 DEF LoopFits
  <2>4. Steps(x, y)
    BY <1>1, <2>2, <2>3, StepInPlace
  <2> QED BY <2>1, <2>4 DEF Moves, x
<1>10. ASSUME x.seen, ~Available(x.loop), m' = [m EXCEPT ![t] = Crashed(x)] PROVE Moves(t)
  <2> DEFINE y == [x EXCEPT !.seen = FALSE, !.loop = "crashed"]
  <2>1. y \in Members /\ y.loop = "crashed" /\ y.hand = x.hand /\ ~y.seen
    BY <1>1 DEF Members, LoopPc
  <2>2. x.loop \in Monitoring \cup {"connected"} /\ x.hand = NoRequest
    BY <1>1, <1>10 DEF LoopFits
  <2>3. LoopFits(y)
    BY <2>1, <2>2 DEF LoopFits
  <2>4. Steps(x, y)
    BY <1>10, <2>1, <2>2, <2>3 DEF Steps, Quitting, Reported, Monitoring
  <2> QED BY <1>10, <2>4 DEF Moves, Crashed, x
<1>11. CASE DequeueShared(t)
  <2>1. x.loop = "connected" /\ x.seen
    BY <1>11 DEF DequeueShared, x
  <2>2. CASE FirstSendable(m_queue, m_isWaitingForAcknowledgement) = {} /\ Only(t, Crashed(x))
    <3>1. ~Available(x.loop)
      BY <1>2, <2>1, <2>2, NoneSendable DEF Available
    <3> QED BY <1>10, <2>1, <2>2, <3>1, OnlyOne
  <2>3. ASSUME NEW i \in DOMAIN m_queue, m' = [m EXCEPT ![t] = [Taken(@) EXCEPT !.hand = m_queue[i]]]
        PROVE  Moves(t)
    <3> DEFINE y == [x EXCEPT !.seen = FALSE, !.hand = m_queue[i]]
    <3>1. m_queue[i] \in AllRequests
      BY <1>2
    <3>2. y \in Members /\ y.loop = x.loop /\ y.state = x.state /\ y.queue = x.queue /\ ~y.seen
      BY <1>1, <3>1 DEF Members
    <3>3. m' = [m EXCEPT ![t] = y]
      BY <1>1, <1>2, <2>3 DEF x, Taken, Members
    <3>4. Steps(x, y)
      BY <1>1, <2>1, <3>2, StepInPlace
    <3> QED BY <3>3, <3>4 DEF Moves, x
  <2> QED BY <1>11, <2>2, <2>3 DEF DequeueShared, FirstSendable, x
<1>12. CASE MonitorTimesOut(t)
  <2>1. x.loop \in Monitoring /\ x.seen
    BY <1>12 DEF MonitorTimesOut, x
  <2>2. CASE m_queue = <<>>
    <3>1. ~Available(x.loop)
      BY <2>1, <2>2 DEF Available, Monitoring
    <3>2. Only(t, Crashed(x))
      BY <1>12, <2>2 DEF MonitorTimesOut, x
    <3> QED BY <1>10, <2>1, <3>1, <3>2, OnlyOne
  <2>3. CASE m_queue # <<>>
    <3> DEFINE y == [x EXCEPT !.seen = FALSE]
    <3>1. m' = [m EXCEPT ![t] = y]
      BY <1>2, <1>12, <2>3 DEF MonitorTimesOut, Taken, x
    <3>2. /\ y \in Members /\ y.loop = x.loop /\ y.state = x.state /\ y.queue = x.queue
          /\ y.hand = x.hand /\ ~y.seen
      BY <1>1 DEF Members
    <3>3. Steps(x, y)
      BY <1>1, <3>2, StepInPlace
    <3> QED BY <3>1, <3>3 DEF Moves, x
  <2> QED BY <2>2, <2>3
<1> QED BY <1>3, <1>4, <1>5, <1>6, <1>7, <1>8, <1>9, <1>11, <1>12

\* The other threads: they leave the loop where it is.
LEMMA OtherMoves ==
    ASSUME NEW t \in Transports, Types, LoopsFit,
           \/ MonitorSees(t) \/ CanSendShared(t) \/ SendPing(t) \/ PostConnectEnds(t)
           \/ Connection(t) \/ Authorization(t) \/ \E r \in PostRequests : sendMessage(t, r)
    PROVE  Moves(t)
<1> DEFINE x == m[t]
<1>1. /\ x \in Members /\ LoopFits(x) /\ Advances(x, x)
      /\ \A s \in State : /\ Advances(x, setStateLocked(x, s, "RECOVERABLE"))
                          /\ Advances(x, setStateLocked(x, s, "UNRECOVERABLE_ERROR"))
  BY StayOrAdvance DEF Types, LoopsFit, Reasons
<1>2. m \in [Transports -> Members]
  BY DEF Types
<1> HIDE DEF x
<1>3. ASSUME NEW z, Advances(x, z), NEW y \in Members, m' = [m EXCEPT ![t] = y],
             y.loop = x.loop, y.state = z.state, y.hand = x.hand, y.queue = x.queue, y.seen = x.seen
      PROVE  Moves(t)
  <2>1. Steps(x, y)
    BY <1>1, <1>3, StepInPlace
  <2> QED BY <1>3, <2>1 DEF Moves, x
<1>5. ASSUME NEW z, Advances(x, z), m' = [m EXCEPT ![t] = z] PROVE Moves(t)
  BY <1>3, <1>5 DEF Advances
<1>6. ASSUME NEW z, Advances(x, z), NEW b \in BOOLEAN, m' = [m EXCEPT ![t] = [z EXCEPT !.pingHandler = b]]
      PROVE  Moves(t)
  <2> DEFINE y == [z EXCEPT !.pingHandler = b]
  <2>1. /\ y \in Members /\ y.loop = x.loop /\ y.state = z.state /\ y.hand = x.hand
        /\ y.queue = x.queue /\ y.seen = x.seen
    BY <1>6 DEF Advances, Members
  <2> QED BY <1>3, <1>6, <2>1
<1>7. ASSUME NEW z, Advances(x, z), NEW d \in {"none", "open", "up"},
             m' = [m EXCEPT ![t] = [z EXCEPT !.downchannel = d]]
      PROVE  Moves(t)
  <2> DEFINE y == [z EXCEPT !.downchannel = d]
  <2>1. /\ y \in Members /\ y.loop = x.loop /\ y.state = z.state /\ y.hand = x.hand
        /\ y.queue = x.queue /\ y.seen = x.seen
    BY <1>7 DEF Advances, Members
  <2> QED BY <1>3, <1>7, <2>1
<1>8. CASE UNCHANGED m
  <2>1. m' = [m EXCEPT ![t] = x]
    BY <1>2, <1>8 DEF x
  <2> QED BY <1>1, <1>5, <2>1
<1>9. CASE MonitorSees(t) \/ CanSendShared(t)
  <2> DEFINE y == [x EXCEPT !.seen = TRUE]
  <2>1. x.loop \in Monitoring \cup {"connected"} /\ Available(x.loop) /\ x.hand = NoRequest
    BY <1>1, <1>9 DEF MonitorSees, CanSendShared, Sending, Available, Monitoring, LoopFits, x
  <2>2. m' = [m EXCEPT ![t] = y]
    BY <1>9 DEF MonitorSees, CanSendShared, Only, x
  <2>3. /\ y \in Members /\ y.loop = x.loop /\ y.state = x.state /\ y.queue = x.queue
        /\ y.hand = x.hand
    BY <1>1 DEF Members
  <2>4. Steps(x, y)
    BY <1>1, <2>1, <2>3 DEF Steps, LoopFits
  <2> QED BY <2>2, <2>4 DEF Moves, x
<1>10. {"SHUTDOWN", "SERVER_SIDE_DISCONNECT", "POST_CONNECTING", "WAITING_TO_RETRY_CONNECTING",
        "CONNECTING", "AUTHORIZING", "CONNECTED"} \subseteq State
  BY DEF State
<1>11. CASE SendPing(t)
  <2>1. \/ m' = [m EXCEPT ![t] = [x EXCEPT !.pingHandler = TRUE]]
        \/ m' = [m EXCEPT ![t] = [setStateLocked(x, "SERVER_SIDE_DISCONNECT", "RECOVERABLE")
                                    EXCEPT !.pingHandler = TRUE]]
        \/ m' = [m EXCEPT ![t] = setStateLocked(x, "SHUTDOWN", "RECOVERABLE")]
    BY <1>11 DEF SendPing, Only, x
  <2> QED BY <1>1, <1>5, <1>6, <1>10, <2>1
<1>12. CASE Authorization(t)
  <2>1. \/ m' = [m EXCEPT ![t] = setStateLocked(x, "CONNECTING", "RECOVERABLE")]
        \/ m' = [m EXCEPT ![t] = setStateLocked(x, "AUTHORIZING", "RECOVERABLE")]
        \/ m' = [m EXCEPT ![t] = setStateLocked(x, "SHUTDOWN", "UNRECOVERABLE_ERROR")]
    BY <1>2, <1>12 DEF Authorization, onAuthRefreshed, onAuthExpired, onAuthUnrecoverable, Only, x
  <2> QED BY <1>1, <1>5, <1>10, <2>1
<1>13. CASE PostConnectEnds(t)
  <2> DEFINE w == [x EXCEPT !.post = "done"]
  <2>1. w \in Members /\ w.loop = x.loop /\ w.queue = x.queue /\ w.hand = x.hand /\ w.state = x.state
        /\ w.handlers = x.handlers /\ w.seen = x.seen
    BY <1>1 DEF Members
  <2>2. m' = [m EXCEPT ![t] =
           CASE x.state = "POST_CONNECTING" ->
                      [setStateLocked(w, "CONNECTED", "RECOVERABLE") EXCEPT !.postConnected = TRUE]
             [] x.state \in Ending \cup {"CONNECTED"} -> w
             [] OTHER -> [w EXCEPT !.postConnected = TRUE]]
        \/ m' = [m EXCEPT ![t] = w]
        \/ m' = [m EXCEPT ![t] = setStateLocked(w, "SHUTDOWN", "UNRECOVERABLE_ERROR")]
    <3>1. CASE onPostConnected(t)
      BY <2>1, <3>1 DEF onPostConnected, Only, x
    <3>2. CASE onUnRecoverablePostConnectFailure(t)
      BY <2>1, <3>2 DEF onUnRecoverablePostConnectFailure, Only, x
    <3> QED BY <1>13, <3>1, <3>2 DEF PostConnectEnds
  <2> HIDE DEF w
  <2>3. ASSUME NEW z, Advances(w, z) PROVE Advances(x, z)
    BY <2>1, <2>3 DEF Advances
  <2>4. /\ Advances(x, w) /\ Advances(x, setStateLocked(w, "CONNECTED", "RECOVERABLE"))
        /\ Advances(x, setStateLocked(w, "SHUTDOWN", "UNRECOVERABLE_ERROR"))
    BY <1>10, <2>1, <2>3, StayOrAdvance DEF Reasons
  <2>5. ASSUME NEW z, Advances(x, z), m' = [m EXCEPT ![t] = [z EXCEPT !.postConnected = TRUE]]
        PROVE  Moves(t)
    <3> DEFINE y == [z EXCEPT !.postConnected = TRUE]
    <3>1. /\ y \in Members /\ y.loop = x.loop /\ y.state = z.state /\ y.hand = x.hand
          /\ y.queue = x.queue /\ y.seen = x.seen
      BY <2>5 DEF Advances, Members
    <3> QED BY <1>3, <2>5, <3>1
  <2>6. \/ m' = [m EXCEPT ![t] = [setStateLocked(w, "CONNECTED", "RECOVERABLE") EXCEPT !.postConnected = TRUE]]
        \/ m' = [m EXCEPT ![t] = [w EXCEPT !.postConnected = TRUE]]
        \/ m' = [m EXCEPT ![t] = w]
        \/ m' = [m EXCEPT ![t] = setStateLocked(w, "SHUTDOWN", "UNRECOVERABLE_ERROR")]
    BY <2>2
  <2> QED BY <1>5, <2>4, <2>5, <2>6
<1>14. ASSUME NEW r \in PostRequests, sendMessage(t, r) PROVE Moves(t)
  <2>1. CASE x.state \in Ending \cup {"CONNECTED"}
    BY <1>8, <1>14, <2>1 DEF sendMessage, x
  <2>2. CASE x.state \notin Ending \cup {"CONNECTED"}
    <3> DEFINE y == [x EXCEPT !.queue = Append(@, r)]
    <3>1. m' = [m EXCEPT ![t] = y]
      BY <1>14, <2>2 DEF sendMessage, x
    <3>2. x.queue \in Seq(AllRequests) /\ r \in AllRequests
      BY <1>1 DEF Members, AllRequests
    <3>3. Append(x.queue, r) \in Seq(AllRequests)
      BY <3>2
    <3>4. y \in Members /\ y.loop = x.loop /\ y.state = x.state /\ y.hand = x.hand /\ y.seen = x.seen
      BY <1>1, <3>3 DEF Members
    <3>5. x.loop # "closing"
      BY <1>1, <2>2 DEF LoopFits
    <3>6. Steps(x, y)
      BY <1>1, <3>4, <3>5, StepInPlace
    <3> QED BY <3>1, <3>6 DEF Moves, x
  <2> QED BY <2>1, <2>2
<1>15. CASE Connection(t)
  <2>1. CASE onDownchannelConnected(t)
    <3>1. m' = [m EXCEPT ![t] = [setStateLocked(x, "POST_CONNECTING", "RECOVERABLE") EXCEPT !.downchannel = "up"]]
      BY <2>1 DEF onDownchannelConnected, Only, x
    <3> QED BY <1>1, <1>7, <1>10, <3>1
  <2>2. CASE onDownchannelFinished(t)
    <3>1. \E z : Advances(x, z) /\ m' = [m EXCEPT ![t] = [z EXCEPT !.downchannel = "none"]]
      <4> DEFINE z == CASE x.state = "CONNECTING" ->
                       setStateLocked(x, "WAITING_TO_RETRY_CONNECTING", "RECOVERABLE")
                  [] x.state \in {"POST_CONNECTING", "CONNECTED"} ->
                       setStateLocked(x, "SERVER_SIDE_DISCONNECT", "RECOVERABLE")
                  [] OTHER -> x
      <4>1. m' = [m EXCEPT ![t] = [z EXCEPT !.downchannel = "none"]]
        BY <2>2 DEF onDownchannelFinished, Only, x
      <4>2. Advances(x, z)
        BY <1>1, <1>10
      <4> QED BY <4>1, <4>2
    <3> QED BY <1>7, <3>1
  <2>3. ASSUME NEW r \in AllRequests, onMessageRequestAcknowledged(t, r) PROVE Moves(t)
    <3> DEFINE y == [x EXCEPT !.unacknowledged = @ \ {r}]
    <3>1. m' = [m EXCEPT ![t] = y]
      BY <2>3 DEF onMessageRequestAcknowledged, x
    <3>2. /\ y \in Members /\ y.loop = x.loop /\ y.state = x.state /\ y.hand = x.hand
          /\ y.queue = x.queue /\ y.seen = x.seen
      BY <1>1 DEF Members
    <3> QED BY <1>1, <1>3, <3>1, <3>2
  <2>4. ASSUME NEW r \in AllRequests, onResponseFinished(t, r) PROVE Moves(t)
    <3> DEFINE y == [x EXCEPT !.unacknowledged = @ \ {r}, !.handlers = @ \ {r}]
    <3>1. m' = [m EXCEPT ![t] = y]
      BY <1>2, <2>4 DEF onResponseFinished, Finished, x
    <3>2. /\ y \in Members /\ y.loop = x.loop /\ y.state = x.state /\ y.hand = x.hand
          /\ y.queue = x.queue /\ y.seen = x.seen
      BY <1>1 DEF Members
    <3> QED BY <1>1, <1>3, <3>1, <3>2
  <2>5. ASSUME NEW success \in BOOLEAN, onPingRequestAcknowledged(t, success) PROVE Moves(t)
    <3>1. CASE m' = [m EXCEPT ![t] = [x EXCEPT !.pingHandler = FALSE]]
      BY <1>1, <1>6, <3>1
    <3>2. CASE m' = [m EXCEPT ![t] = [setStateLocked(x, "SERVER_SIDE_DISCONNECT", "RECOVERABLE")
                                          EXCEPT !.pingHandler = FALSE]]
      BY <1>1, <1>6, <1>10, <3>2
    <3> QED BY <2>5, <3>1, <3>2 DEF onPingRequestAcknowledged, Only, x
  <2>6. CASE onPingTimeout(t)
    <3>1. m' = [m EXCEPT ![t] = [setStateLocked(x, "SHUTDOWN", "RECOVERABLE") EXCEPT !.pingHandler = FALSE]]
      BY <2>6 DEF onPingTimeout, Only, x
    <3> QED BY <1>1, <1>6, <1>10, <3>1
  <2> QED BY <1>15, <2>1, <2>2, <2>3, <2>4, <2>5, <2>6 DEF Connection
<1> QED BY <1>9, <1>11, <1>12, <1>13, <1>14, <1>15

\* A step of a transport alone moves the transport and leaves the router as it is.
LEMMA TransportMoves ==
    ASSUME NEW t \in Transports, Types, LoopsFit, TransportSteps(t)
    PROVE  Moves(t) /\ UNCHANGED routerVars
BY LoopMoves, SendAndEndMoves, OtherMoves DEF TransportSteps, MainLoop

-----------------------------------------------------------------------------
(* Sequences *)

\* RemoveAt closes the gap.
LEMMA RemoveAtIndex ==
    ASSUME NEW S, NEW q \in Seq(S), NEW i \in 1..Len(q)
    PROVE  /\ RemoveAt(q, i) \in Seq(S)
           /\ Len(RemoveAt(q, i)) = Len(q) - 1
           /\ \A j \in 1..(Len(q) - 1) : RemoveAt(q, i)[j] = IF j < i THEN q[j] ELSE q[j + 1]
<1> DEFINE a == SubSeq(q, 1, i - 1)
<1> DEFINE b == SubSeq(q, i + 1, Len(q))
<1>1. a \in Seq(S) /\ Len(a) = i - 1 /\ \A j \in 1..(i - 1) : a[j] = q[j]
  OBVIOUS
<1>2. b \in Seq(S) /\ Len(b) = Len(q) - i /\ \A j \in 1..(Len(q) - i) : b[j] = q[i + j]
  OBVIOUS
<1>3. RemoveAt(q, i) = a \o b
  BY DEF RemoveAt
<1> HIDE DEF a, b
<1>4. a \o b \in Seq(S) /\ Len(a \o b) = Len(q) - 1
  <2>1. a \o b \in Seq(S) /\ Len(a \o b) = Len(a) + Len(b)
    BY <1>1, <1>2, ConcatProperties
  <2>2. Len(a) + Len(b) = Len(q) - 1
    <3>1. Len(q) \in Nat /\ i \in Nat
      OBVIOUS
    <3> QED BY <1>1, <1>2, <3>1
  <2> QED BY <2>1, <2>2
<1>5. ASSUME NEW j \in 1..(Len(q) - 1)
      PROVE  (a \o b)[j] = IF j < i THEN q[j] ELSE q[j + 1]
  BY <1>1, <1>2
<1> QED BY <1>3, <1>4, <1>5

\* All members but the removed one are kept, and no others come in.
LEMMA RemoveAtElements ==
    ASSUME NEW S, NEW q \in Seq(S), NEW i \in 1..Len(q)
    PROVE  /\ Elements(RemoveAt(q, i)) \subseteq Elements(q)
           /\ Elements(q) \ {q[i]} \subseteq Elements(RemoveAt(q, i))
<1> DEFINE p == RemoveAt(q, i)
<1>1. /\ p \in Seq(S) /\ Len(p) = Len(q) - 1
      /\ \A j \in 1..(Len(q) - 1) : p[j] = IF j < i THEN q[j] ELSE q[j + 1]
  BY RemoveAtIndex
<1> HIDE DEF p
<1>2. DOMAIN p = 1..(Len(q) - 1) /\ DOMAIN q = 1..Len(q) /\ Len(q) \in Nat
  BY <1>1
<1>3. ASSUME NEW j \in DOMAIN p PROVE p[j] \in Elements(q)
  BY <1>1, <1>2 DEF Elements
<1>4. ASSUME NEW j \in DOMAIN q, q[j] # q[i] PROVE q[j] \in Elements(p)
  <2>1. CASE j < i
    BY <1>1, <1>2, <2>1 DEF Elements
  <2>2. CASE j > i
    <3>1. j - 1 \in DOMAIN p /\ p[j - 1] = q[j]
      BY <1>1, <1>2, <2>2
    <3> QED BY <3>1 DEF Elements
  <2> QED BY <1>2, <1>4, <2>1, <2>2
<1>5. Elements(p) \subseteq Elements(q)
  BY <1>3 DEF Elements
<1>6. Elements(q) \ {q[i]} \subseteq Elements(p)
  BY <1>4 DEF Elements
<1> QED BY <1>5, <1>6 DEF p

\* Of a sequence of transports at most the given one is erased.
LEMMA WithoutElements ==
    ASSUME NEW s \in Seq(Transports), NEW t
    PROVE  /\ Without(s, t) \in Seq(Transports)
           /\ Elements(Without(s, t)) \subseteq Elements(s)
           /\ Elements(s) \ {t} \subseteq Elements(Without(s, t))
<1>1. CASE t \notin Elements(s)
  BY <1>1 DEF Without
<1>2. CASE t \in Elements(s)
  <2> DEFINE P(i) == s[i] = t /\ \A j \in 1..(i - 1) : s[j] # t
  <2> DEFINE S == {i \in DOMAIN s : s[i] = t}
  <2>1. S \in SUBSET Nat /\ S # {} /\ DOMAIN s = 1..Len(s) /\ Len(s) \in Nat
    BY <1>2 DEF Elements
  <2>2. PICK i \in S : \A j \in S : i =< j
    BY <2>1, FirstExists
  <2>3. i \in DOMAIN s /\ P(i)
    BY <2>1, <2>2
  <2> DEFINE first == CHOOSE k \in DOMAIN s : P(k)
  <2>4. first \in DOMAIN s /\ P(first)
    BY <2>3
  <2>5. Without(s, t) = RemoveAt(s, first)
    BY <1>2 DEF Without
  <2>6. first \in 1..Len(s) /\ s[first] = t
    BY <2>1, <2>4
  <2> HIDE DEF first
  <2> QED BY <2>5, <2>6, RemoveAtIndex, RemoveAtElements
<1> QED BY <1>1, <1>2

\* A sequence after Append, and its first member and the others.
LEMMA AppendElements ==
    ASSUME NEW S, NEW q \in Seq(S), NEW r \in S
    PROVE  Append(q, r) \in Seq(S) /\ Elements(Append(q, r)) = Elements(q) \cup {r}
<1> DEFINE p == Append(q, r)
<1>1. /\ p \in Seq(S) /\ DOMAIN p = 1..(Len(q) + 1) /\ p[Len(q) + 1] = r
      /\ \A j \in 1..Len(q) : p[j] = q[j]
  OBVIOUS
<1>2. DOMAIN q = 1..Len(q) /\ Len(q) \in Nat
  OBVIOUS
<1> HIDE DEF p
<1>3. Elements(p) \subseteq Elements(q) \cup {r}
  <2>1. ASSUME NEW j \in DOMAIN p PROVE p[j] \in Elements(q) \cup {r}
    <3>1. CASE j = Len(q) + 1
      BY <1>1, <3>1
    <3>2. CASE j \in 1..Len(q)
      BY <1>1, <1>2, <3>2 DEF Elements
    <3> QED BY <1>1, <1>2, <3>1, <3>2
  <2> QED BY <2>1 DEF Elements
<1>4. Elements(q) \cup {r} \subseteq Elements(p)
  <2>1. r \in Elements(p)
    BY <1>1, <1>2 DEF Elements
  <2>2. ASSUME NEW j \in DOMAIN q PROVE q[j] \in Elements(p)
    BY <1>1, <1>2 DEF Elements
  <2> QED BY <2>1, <2>2 DEF Elements
<1> QED BY <1>1, <1>3, <1>4 DEF p

\* The members of a sequence are its first one and those of its tail.
LEMMA TailElements ==
    ASSUME NEW S, NEW q \in Seq(S), q # <<>>
    PROVE  /\ Head(q) \in S /\ Tail(q) \in Seq(S)
           /\ Elements(q) = {Head(q)} \cup Elements(Tail(q))
<1> DEFINE p == Tail(q)
<1>1. /\ p \in Seq(S) /\ Head(q) = q[1] /\ Len(q) \in Nat /\ Len(q) > 0 /\ DOMAIN q = 1..Len(q)
      /\ DOMAIN p = 1..(Len(q) - 1) /\ \A j \in 1..(Len(q) - 1) : p[j] = q[j + 1]
  OBVIOUS
<1> HIDE DEF p
<1>2. {Head(q)} \cup Elements(p) \subseteq Elements(q)
  BY <1>1 DEF Elements
<1>3. ASSUME NEW j \in DOMAIN q PROVE q[j] \in {Head(q)} \cup Elements(p)
  <2>1. CASE j = 1
    BY <1>1, <2>1
  <2>2. CASE j > 1
    <3>1. j - 1 \in DOMAIN p /\ p[j - 1] = q[j]
      BY <1>1, <2>2
    <3> QED BY <3>1 DEF Elements
  <2> QED BY <1>1, <2>1, <2>2
<1>4. Elements(q) \subseteq {Head(q)} \cup Elements(p)
  BY <1>3 DEF Elements
<1>5. Head(q) \in S
  BY <1>1
<1> QED BY <1>1, <1>2, <1>4, <1>5 DEF p

-----------------------------------------------------------------------------
(* The router *)

\* What EveryTransportOwned says of the clients.
LEMMA OwnedByClient ==
    \A t : t \in UNION {Elements(moved[c]) : c \in Clients} <=> BeingMoved(t)
BY DEF BeingMoved

LoopsFitIn(mm, n) ==
    \A t \in Transports : LoopFits(mm[t]) /\ (t > n => mm[t].loop = "off")

\* createActiveTransportLocked starts a transport that was not there before and makes it
\* the active one, or leaves the router without one.
LEMMA Creates ==
    ASSUME NEW mm \in [Transports -> Members], LoopsFitIn(mm, created), created \in Nat,
           NEW transports \in Seq(Transports), NEW status,
           createActiveTransportLocked(mm, transports, status)
    PROVE  /\ m' \in [Transports -> Members] /\ LoopsFitIn(m', created')
           /\ created' \in Nat /\ m_transports' \in Seq(Transports)
           /\ Elements(transports) \subseteq Elements(m_transports')
           /\ \/ /\ created' \in Transports /\ m'[created'].loop = "start" /\ ~m'[created'].seen
                 /\ created' \in Elements(m_transports')
                 /\ \A t \in Transports \ {created'} : m'[t] = mm[t]
                 /\ m_activeTransport' = created' /\ m_connectionStatus' = status
              \/ /\ m' = mm /\ m_activeTransport' = NoTransport
                 /\ m_connectionStatus' = "DISCONNECTED"
<1>1. CASE /\ created < N
           /\ created' = created + 1
           /\ m' = [mm EXCEPT ![created'] =
                  [setStateLocked(@, "AUTHORIZING", "RECOVERABLE") EXCEPT !.loop = "start"]]
           /\ m_transports' = Append(transports, created')
           /\ m_activeTransport' = created' /\ m_connectionStatus' = status
  <2>1. created' \in Transports /\ created' \in Nat
    BY <1>1 DEF Transports
  <2> DEFINE x == mm[created']
  <2> DEFINE z == setStateLocked(x, "AUTHORIZING", "RECOVERABLE")
  <2> DEFINE y == [z EXCEPT !.loop = "start"]
  <2>2. x \in Members /\ x.loop = "off" /\ LoopFits(x)
    BY <1>1, <2>1 DEF LoopsFitIn, Transports
  <2>3. Advances(x, z)
    BY <2>2, SetState DEF State, Reasons
  <2> HIDE DEF z
  <2>4. y \in Members /\ y.loop = "start" /\ y.hand = NoRequest /\ ~y.seen
    BY <2>2, <2>3 DEF Advances, Members, LoopPc, LoopFits, Monitoring
  <2>5. LoopFits(y)
    BY <2>4 DEF LoopFits
  <2>6. m' = [mm EXCEPT ![created'] = y]
    BY <1>1, <2>1 DEF z
  <2> HIDE DEF y, x
  <2>7. m' \in [Transports -> Members] /\ m'[created'] = y /\ \A t \in Transports \ {created'} : m'[t] = mm[t]
    BY <2>1, <2>4, <2>6
  <2>8. LoopsFitIn(m', created')
    <3> SUFFICES ASSUME NEW t \in Transports
                 PROVE  LoopFits(m'[t]) /\ (t > created' => m'[t].loop = "off")
      BY DEF LoopsFitIn
    <3>1. CASE t = created'
      BY <2>1, <2>5, <2>7, <3>1
    <3>2. CASE t # created'
      <4>1. m'[t] = mm[t] /\ LoopFits(mm[t]) /\ (t > created => mm[t].loop = "off")
        BY <2>7, <3>2 DEF LoopsFitIn
      <4>2. t > created' => t > created
        BY <1>1 DEF Transports
      <4> QED BY <4>1, <4>2
    <3> QED BY <3>1, <3>2
  <2>9. m_transports' \in Seq(Transports) /\ Elements(m_transports') = Elements(transports) \cup {created'}
    BY <1>1, <2>1, AppendElements
  <2> QED BY <1>1, <2>1, <2>4, <2>7, <2>8, <2>9
<1>2. CASE /\ m' = mm /\ m_transports' = transports /\ m_activeTransport' = NoTransport
           /\ m_connectionStatus' = "DISCONNECTED" /\ UNCHANGED created
  BY <1>2
<1> QED BY <1>1, <1>2 DEF createActiveTransportLocked

\* NextLoop is a step of t to its next place, and for a loop that has not ended to a
\* place from which it goes on to the end.
LEMMA NextLoops ==
    ASSUME NEW t \in Transports, Types, LoopsFit,
           m[t].loop \in {"CONNECTED", "SERVER_SIDE_DISCONNECT", "closing"}
    PROVE  /\ NextLoop(t) \in [Transports -> Members] /\ LoopsFitIn(NextLoop(t), created)
           /\ \A u \in Transports \ {t} : NextLoop(t)[u] = m[u]
           /\ ~NextLoop(t)[t].seen
           /\ NextLoop(t)[t].loop = CASE m[t].loop = "CONNECTED" -> "connected"
                                      [] m[t].loop = "SERVER_SIDE_DISCONNECT" -> "DISCONNECTING"
                                      [] m[t].loop = "closing" -> "ended"
<1> DEFINE x == [m[t] EXCEPT !.post = "none", !.stopping = FALSE]
<1> DEFINE y == CASE x.loop = "CONNECTED"              -> [x EXCEPT !.loop = "connected"]
                  [] x.loop = "SERVER_SIDE_DISCONNECT" -> [x EXCEPT !.loop = "DISCONNECTING"]
                  [] x.loop = "closing" ->
                       [NewTransport EXCEPT !.state = "SHUTDOWN", !.loop = "ended",
                            !.handlers = x.handlers, !.unacknowledged = x.unacknowledged]
<1>1. NextLoop(t) = [m EXCEPT ![t] = y]
  BY DEF NextLoop
<1>2. m[t] \in Members /\ LoopFits(m[t]) /\ m \in [Transports -> Members] /\ ~(t > created)
  BY DEF Types, LoopsFit
<1>3. /\ x \in Members /\ x.loop = m[t].loop /\ x.state = m[t].state /\ x.hand = m[t].hand
      /\ ~x.seen
  BY <1>2 DEF Members, LoopFits, Monitoring
<1> HIDE DEF x
<1>4. /\ y \in Members /\ LoopFits(y) /\ ~y.seen
      /\ y.loop = CASE m[t].loop = "CONNECTED" -> "connected"
                    [] m[t].loop = "SERVER_SIDE_DISCONNECT" -> "DISCONNECTING"
                    [] m[t].loop = "closing" -> "ended"
  <2>1. CASE m[t].loop = "CONNECTED"
    <3>1. y = [x EXCEPT !.loop = "connected"]
      BY <1>3, <2>1
    <3>2. y \in Members /\ y.loop = "connected" /\ y.state = x.state /\ y.hand = x.hand /\ ~y.seen
      BY <1>3, <3>1 DEF Members, LoopPc
    <3> QED BY <1>2, <1>3, <2>1, <3>2 DEF LoopFits
  <2>2. CASE m[t].loop = "SERVER_SIDE_DISCONNECT"
    <3>1. y = [x EXCEPT !.loop = "DISCONNECTING"]
      BY <1>3, <2>2
    <3>2. /\ y \in Members /\ y.loop = "DISCONNECTING" /\ y.state = x.state /\ y.hand = x.hand
          /\ ~y.seen
      BY <1>3, <3>1 DEF Members, LoopPc, State
    <3> QED BY <1>2, <1>3, <2>2, <3>2 DEF LoopFits
  <2>3. CASE m[t].loop = "closing"
    <3>1. y = [NewTransport EXCEPT !.state = "SHUTDOWN", !.loop = "ended",
                            !.handlers = x.handlers, !.unacknowledged = x.unacknowledged]
      BY <1>3, <2>3
    <3>2. x.handlers \in SUBSET AllRequests /\ x.unacknowledged \in SUBSET AllRequests
      BY <1>3 DEF Members
    <3>3. NewTransport \in Members
      <4>1. <<>> \in Seq(AllRequests)
        OBVIOUS
      <4> QED BY <4>1 DEF NewTransport, Members, LoopPc, State, Reasons
    <3>4. y \in Members
      <4> DEFINE n == NewTransport
      <4>1. "SHUTDOWN" \in State /\ "ended" \in LoopPc
        BY DEF State, LoopPc
      <4> HIDE DEF n
      <4>2. n \in Members /\ y = [n EXCEPT !.state = "SHUTDOWN", !.loop = "ended",
                            !.handlers = x.handlers, !.unacknowledged = x.unacknowledged]
        BY <3>1, <3>3 DEF n
      <4> HIDE DEF y
      <4>3. x.handlers \subseteq AllRequests /\ x.unacknowledged \subseteq AllRequests
        BY <3>2
      <4> QED BY <4>1, <4>2, <4>3 DEF Members
    <3>5. y.loop = "ended" /\ y.hand = NoRequest /\ ~y.seen
      <4> DEFINE n == NewTransport
      <4>1. n \in Members /\ n.hand = NoRequest /\ ~n.seen
        BY <3>3 DEF NewTransport
      <4> HIDE DEF n
      <4>2. y = [n EXCEPT !.state = "SHUTDOWN", !.loop = "ended",
                          !.handlers = x.handlers, !.unacknowledged = x.unacknowledged]
        BY <3>1 DEF n
      <4> HIDE DEF y
      <4> QED BY <4>1, <4>2 DEF Members
    <3> QED BY <2>3, <3>4, <3>5 DEF LoopFits
  <2> QED BY <2>1, <2>2, <2>3
<1> HIDE DEF y
<1>5. [m EXCEPT ![t] = y] \in [Transports -> Members]
  BY <1>2, <1>4
<1>6. LoopsFitIn([m EXCEPT ![t] = y], created)
  BY <1>2, <1>4 DEF LoopsFitIn, LoopsFit
<1> QED BY <1>1, <1>2, <1>4, <1>5, <1>6

\* What a transport does by itself, or what is done to it alone, keeps the invariant.
LEMMA MovesKeep ==
    ASSUME RouterInv, NEW t \in Transports, Moves(t), UNCHANGED routerVars,
           m_queue' \in Seq(AllRequests)
    PROVE  RouterInv'
<1>1. PICK y : m' = [m EXCEPT ![t] = y] /\ Steps(m[t], y)
  BY DEF Moves
<1>2. m \in [Transports -> Members]
  BY DEF RouterInv, Types
<1>3. /\ m' \in [Transports -> Members] /\ m'[t] = y
      /\ \A u \in Transports \ {t} : m'[u] = m[u]
  BY <1>1, <1>2 DEF Steps
<1>4. \A u \in Transports : /\ Running(u)' => Running(u)
                            /\ m[u].loop \in {"off", "ended"} => m'[u].loop = m[u].loop
                            /\ m[u].loop \in Reported => m'[u].loop \in Reported
  BY <1>1, <1>3 DEF Steps, Running
<1>5. Types'
  BY <1>3 DEF RouterInv, Types, routerVars, statusVars, clientVars
<1>6. LoopsFit'
  BY <1>1, <1>3 DEF RouterInv, LoopsFit, Steps, routerVars
<1>7. ClientsFit'
  BY DEF RouterInv, ClientsFit, routerVars, statusVars, clientVars
<1>8. EveryTransportOwned'
  BY <1>4 DEF RouterInv, EveryTransportOwned, routerVars, statusVars, clientVars
<1>9. OneRunning => OneRunning'
  <2> SUFFICES ASSUME OneRunning PROVE OneRunning'
    OBVIOUS
  <2>1. UNCHANGED <<moved, clientPc, m_activeTransport, m_connectionStatus>>
    BY DEF routerVars, statusVars, clientVars
  <2>2. \A u : BeingMoved(u)' <=> BeingMoved(u)
    BY <2>1 DEF BeingMoved
  <2>3. m_activeTransport # NoTransport => m_activeTransport \in Transports
    BY DEF RouterInv, Types
  <2> QED BY <1>4, <2>1, <2>2, <2>3 DEF OneRunning
<1>10. UNCHANGED overlapped
  BY DEF routerVars, clientVars
<1> QED BY <1>5, <1>6, <1>7, <1>8, <1>9, <1>10 DEF RouterInv

\* What the transports' threads do to the shared queue.
LEMMA SharedQueueType ==
    ASSUME Types, NEW t \in Transports, TransportSteps(t)
    PROVE  m_queue' \in Seq(AllRequests)
<1>1. m_queue \in Seq(AllRequests)
  BY DEF Types
<1>2. CASE MonitorTimesOut(t)
  BY <1>1, <1>2, TailElements DEF MonitorTimesOut, Only
<1>3. CASE DequeueShared(t)
  <2>1. CASE Only(t, Crashed(m[t]))
    BY <1>1, <2>1 DEF Only
  <2>2. ASSUME NEW i \in DOMAIN m_queue, m_queue' = RemoveAt(m_queue, i)
        PROVE  m_queue' \in Seq(AllRequests)
    <3>1. i \in 1..Len(m_queue)
      BY <1>1
    <3> QED BY <1>1, <2>2, <3>1, RemoveAtIndex
  <2> QED BY <1>3, <2>1, <2>2 DEF DequeueShared, FirstSendable
<1>4. CASE \/ MainLoop(t) /\ ~MonitorTimesOut(t) /\ ~DequeueShared(t)
           \/ MonitorSees(t) \/ CanSendShared(t) \/ SendPing(t) \/ PostConnectEnds(t)
  BY <1>1, <1>4 DEF MainLoop, MonitorSees, CanSendShared, LoopStart, LoopEnter, handleAuthorizing, handleConnecting,
       MonitorReturns, handleWaitingToRetryConnecting, handlePostConnecting, StopPostConnect,
       handleDisconnecting, handleShutdown, SendingReturns, DequeueOwn, SendRequest,
       SendRequestFails, SendPing, PostConnectEnds, onPostConnected,
       onUnRecoverablePostConnectFailure, Only
<1>5. CASE Connection(t) \/ Authorization(t) \/ \E r \in PostRequests : sendMessage(t, r)
  BY <1>1, <1>5 DEF Connection, onDownchannelConnected, onDownchannelFinished,
       onMessageRequestAcknowledged, onResponseFinished, onPingRequestAcknowledged,
       onPingTimeout, Authorization, onAuthRefreshed, onAuthExpired, onAuthUnrecoverable,
       sendMessage, Only
<1> QED BY <1>2, <1>3, <1>4, <1>5 DEF TransportSteps

\* A client sets SHUTDOWN, or the router sets CONNECTING, on a transport.
LEMMA SetStateKeeps ==
    ASSUME RouterInv, NEW t \in Transports, NEW s \in State, UNCHANGED <<queueVars, routerVars>>,
           m' = [m EXCEPT ![t] = setStateLocked(@, s, "RECOVERABLE")]
    PROVE  RouterInv'
<1> DEFINE z == setStateLocked(m[t], s, "RECOVERABLE")
<1>1. m \in [Transports -> Members] /\ LoopFits(m[t])
  BY DEF RouterInv, Types, LoopsFit
<1>2. Advances(m[t], z)
  BY <1>1, SetState DEF Reasons
<1>3. m' = [m EXCEPT ![t] = z]
  OBVIOUS
<1> HIDE DEF z
<1>4. /\ z \in Members /\ z.loop = m[t].loop /\ z.hand = m[t].hand /\ z.queue = m[t].queue
      /\ z.seen = m[t].seen
  BY <1>2 DEF Advances
<1>5. Steps(m[t], z)
  BY <1>1, <1>2, <1>4, StepInPlace
<1>6. Moves(t)
  BY <1>3, <1>5 DEF Moves
<1>7. m_queue' \in Seq(AllRequests) /\ UNCHANGED routerVars
  BY DEF RouterInv, Types, queueVars
<1> QED BY <1>6, <1>7, MovesKeep

\* While the router is about to create a transport outside everybody's setAVSGateway,
\* no transport is running.
LEMMA NobodyRuns ==
    ASSUME RouterInv, OneRunning, m_activeTransport = NoTransport,
           clientPc["manager"] = "idle", NEW c \in Clients, moved[c] = <<>>, ~Overlaps(c)
    PROVE  \A t \in Transports : ~Running(t)
<1>1. ASSUME NEW d \in Clients PROVE moved[d] = <<>>
  BY DEF RouterInv, ClientsFit, Overlaps, Clients
<1>2. \A t : ~BeingMoved(t)
  BY <1>1 DEF BeingMoved, Elements
<1> QED BY <1>2 DEF OneRunning, NoTransport, Transports

\* A creation in a router whose other transports do not run.
LEMMA CreationKeeps ==
    ASSUME RouterInv, NEW mm \in [Transports -> Members], LoopsFitIn(mm, created),
           NEW transports \in Seq(Transports), NEW status \in {"DISCONNECTED", "PENDING", "CONNECTED"},
           createActiveTransportLocked(mm, transports, status),
           \A t \in Transports : mm[t].loop \notin {"off", "ended"} =>
               t \in Elements(transports) \/ BeingMoved(t),
           m_isEnabled' \in BOOLEAN, m_isEnabled' => clientPc'["manager"] = "idle",
           UNCHANGED <<moved, m_queue>>,
           clientPc' \in [Clients -> {"idle", "disabling", "shuttingDown", "clearing", "down", "switching", "done"}],
           ClientsFit', overlapped' \in BOOLEAN,
           ~overlapped' => /\ \A t \in Transports : mm[t].loop \in Quitting
                           /\ \A c \in GatewayClients : clientPc'[c] # "switching"
                           /\ status # "CONNECTED"
    PROVE  RouterInv'
<1>1. created \in Nat
  BY DEF RouterInv, Types
<1>2. /\ m' \in [Transports -> Members] /\ LoopsFitIn(m', created')
      /\ created' \in Nat /\ m_transports' \in Seq(Transports)
      /\ Elements(transports) \subseteq Elements(m_transports')
  BY <1>1, Creates
<1>3. \/ /\ created' \in Transports /\ m'[created'].loop = "start"
         /\ created' \in Elements(m_transports')
         /\ \A t \in Transports \ {created'} : m'[t] = mm[t]
         /\ m_activeTransport' = created' /\ m_connectionStatus' = status
      \/ /\ m' = mm /\ m_activeTransport' = NoTransport
         /\ m_connectionStatus' = "DISCONNECTED"
  BY <1>1, Creates
<1>4. Types'
  BY <1>2, <1>3 DEF RouterInv, Types
<1>5. LoopsFit'
  BY <1>2 DEF LoopsFit, LoopsFitIn
<1>6. \A t : BeingMoved(t) => BeingMoved(t)'
  BY DEF BeingMoved
<1>7. EveryTransportOwned'
  <2>1. \A t \in Transports : m'[t].loop \notin {"off", "ended"} =>
          t \in Elements(m_transports') \/ BeingMoved(t)'
    BY <1>2, <1>3, <1>6
  <2>2. m_activeTransport' # NoTransport => m_activeTransport' \in Elements(m_transports')
    BY <1>3
  <2> QED BY <2>1, <2>2 DEF EveryTransportOwned, BeingMoved
<1>8. ASSUME ~overlapped' PROVE OneRunning'
  <2>1. \A t \in Transports : mm[t].loop \in Quitting
    BY <1>8
  <2>2. \A t \in Transports : Running(t)' => t = m_activeTransport'
    BY <1>3, <2>1 DEF Running
  <2>3. m_connectionStatus' # "CONNECTED"
    BY <1>3, <1>8
  <2>4. \A c \in GatewayClients : clientPc'[c] # "switching"
    BY <1>8
  <2> QED BY <2>2, <2>3, <2>4 DEF OneRunning
<1> QED BY <1>4, <1>5, <1>7, <1>8 DEF RouterInv

\* enable creates a transport unless there is one.
LEMMA EnableKeeps == RouterInv /\ enable => RouterInv'
<1> SUFFICES ASSUME RouterInv, enable PROVE RouterInv'
  OBVIOUS
<1>1. clientPc["manager"] = "idle" /\ UNCHANGED <<queueVars, moved, clientPc, dropped>>
  BY DEF enable
<1>2. CASE m_isEnabled \/ m_activeTransport # NoTransport
  <2>1. UNCHANGED <<m, statusVars, created, overlapped, moved, clientPc, m_queue>>
    BY <1>1, <1>2 DEF enable, queueVars
  <2>2. Types'
    BY <2>1 DEF RouterInv, Types, statusVars
  <2>3. LoopsFit' /\ ClientsFit'
    BY <2>1 DEF RouterInv, LoopsFit, ClientsFit, statusVars
  <2>4. EveryTransportOwned'
    BY <2>1 DEF RouterInv, EveryTransportOwned, statusVars
  <2>5. OneRunning => OneRunning'
    BY <2>1 DEF OneRunning, Running, BeingMoved, statusVars
  <2> QED BY <2>1, <2>2, <2>3, <2>4, <2>5 DEF RouterInv
<1>3. CASE ~(m_isEnabled \/ m_activeTransport # NoTransport)
  <2>1. /\ m_isEnabled' = TRUE /\ createActiveTransportLocked(m, m_transports, "PENDING")
        /\ overlapped' = (overlapped \/ Overlaps("manager"))
    BY <1>3 DEF enable
  <2>2. /\ m \in [Transports -> Members] /\ LoopsFitIn(m, created)
        /\ m_transports \in Seq(Transports) /\ overlapped \in BOOLEAN
        /\ clientPc \in [Clients -> {"idle", "disabling", "shuttingDown", "clearing", "down", "switching", "done"}]
    BY DEF RouterInv, Types, LoopsFit, LoopsFitIn
  <2>3. \A t \in Transports : m[t].loop \notin {"off", "ended"} =>
          t \in Elements(m_transports) \/ BeingMoved(t)
    BY OwnedByClient DEF RouterInv, EveryTransportOwned
  <2>4. ClientsFit'
    BY <1>1 DEF RouterInv, ClientsFit
  <2>5. "manager" \in Clients /\ moved["manager"] = <<>>
    BY <1>1 DEF RouterInv, ClientsFit, Clients
  <2>6. ~overlapped' => /\ \A t \in Transports : m[t].loop \in Quitting
                        /\ \A c \in GatewayClients : clientPc'[c] # "switching"
    <3> SUFFICES ASSUME ~overlapped' PROVE /\ \A t \in Transports : m[t].loop \in Quitting
                                           /\ \A c \in GatewayClients : clientPc'[c] # "switching"
      OBVIOUS
    <3>1. OneRunning /\ ~Overlaps("manager")
      BY <2>1 DEF RouterInv
    <3>2. \A t \in Transports : ~Running(t)
      BY <1>1, <1>3, <2>5, <3>1, NobodyRuns
    <3> QED BY <1>1, <3>1, <3>2 DEF Running, Overlaps
  <2>7. overlapped' \in BOOLEAN
    BY <2>1, <2>2 DEF Overlaps
  <2>8. UNCHANGED <<moved, m_queue, clientPc>>
    BY <1>1 DEF queueVars
  <2> QED BY <1>1, <2>1, <2>2, <2>3, <2>4, <2>6, <2>7, <2>8, CreationKeeps
<1> QED BY <1>2, <1>3

\* A client that has nothing to shut down takes the transports over.
LEMMA DisconnectAllKeeps ==
    ASSUME RouterInv, NEW c \in Clients, moved[c] = <<>>, disconnectAllTransportsLocked(c),
           UNCHANGED <<m, created, overlapped, m_queue>>, m_isEnabled' \in BOOLEAN,
           clientPc' \in [Clients -> {"idle", "disabling", "shuttingDown", "clearing", "down", "switching", "done"}],
           ClientsFit'
    PROVE  RouterInv'
<1>1. /\ moved \in [Clients -> Seq(Transports)] /\ m_transports \in Seq(Transports)
      /\ moved' = [moved EXCEPT ![c] = m_transports] /\ m_transports' = <<>>
      /\ m_activeTransport' = NoTransport /\ m_connectionStatus' = "DISCONNECTED"
  BY DEF RouterInv, Types, disconnectAllTransportsLocked
<1>2. /\ moved' \in [Clients -> Seq(Transports)] /\ moved'[c] = m_transports
      /\ \A d \in Clients \ {c} : moved'[d] = moved[d]
  BY <1>1
<1>3. <<>> \in Seq(Transports)
  OBVIOUS
<1>4. Types'
  BY <1>1, <1>2, <1>3 DEF RouterInv, Types
<1>5. LoopsFit'
  BY DEF RouterInv, LoopsFit
<1>6. \A t : t \in Elements(m_transports) \/ BeingMoved(t) => BeingMoved(t)'
  <2>1. ASSUME NEW t, t \in Elements(m_transports) PROVE BeingMoved(t)'
    BY <1>2, <2>1 DEF BeingMoved
  <2>2. ASSUME NEW t, NEW d \in Clients, t \in Elements(moved[d]) PROVE BeingMoved(t)'
    BY <1>2, <2>2 DEF BeingMoved, Elements
  <2> QED BY <2>1, <2>2 DEF BeingMoved
<1>7. EveryTransportOwned'
  <2>1. \A t \in Transports : m[t].loop \notin {"off", "ended"} => BeingMoved(t)'
    BY <1>6, OwnedByClient DEF RouterInv, EveryTransportOwned
  <2> QED BY <1>1, <2>1 DEF EveryTransportOwned, BeingMoved
<1>8. ASSUME OneRunning PROVE OneRunning'
  <2>1. \A t \in Transports : Running(t)' <=> Running(t)
    BY DEF Running
  <2>2. \A t \in Transports : Running(t) => t \in Elements(m_transports) \/ BeingMoved(t)
    BY <1>8 DEF OneRunning, RouterInv, EveryTransportOwned, NoTransport, Transports
  <2> QED BY <1>1, <1>6, <1>8, <2>1, <2>2 DEF OneRunning
<1> QED BY <1>4, <1>5, <1>7, <1>8 DEF RouterInv

\* disable and doShutdown take the transports over.
LEMMA DisableKeeps == RouterInv /\ disable => RouterInv'
<1> SUFFICES ASSUME RouterInv, disable PROVE RouterInv'
  OBVIOUS
<1>1. PICK pc \in {"disabling", "shuttingDown"} : clientPc' = [clientPc EXCEPT !["manager"] = pc]
  BY DEF disable
<1>2. /\ "manager" \in Clients /\ clientPc["manager"] = "idle"
      /\ clientPc \in [Clients -> {"idle", "disabling", "shuttingDown", "clearing", "down", "switching", "done"}]
  BY DEF disable, RouterInv, Types, Clients
<1>3. moved["manager"] = <<>>
  BY <1>2 DEF RouterInv, ClientsFit
<1>4. /\ clientPc'["manager"] = pc /\ \A c \in Clients \ {"manager"} : clientPc'[c] = clientPc[c]
      /\ clientPc' \in [Clients -> {"idle", "disabling", "shuttingDown", "clearing", "down", "switching", "done"}]
  BY <1>1, <1>2
<1>5. /\ disconnectAllTransportsLocked("manager") /\ m_isEnabled' = FALSE
      /\ UNCHANGED <<m, created, overlapped, m_queue>>
  BY DEF disable, transportVars
<1>6. \A c \in Clients \ {"manager"} : moved'[c] = moved[c]
  BY <1>5 DEF disconnectAllTransportsLocked, RouterInv, Types
<1>7. ClientsFit'
  BY <1>2, <1>4, <1>5, <1>6 DEF RouterInv, ClientsFit, Clients
<1> QED BY <1>2, <1>3, <1>4, <1>5, <1>7, DisconnectAllKeeps

\* setAVSGateway takes over the transports of an enabled router.
LEMMA SetGatewayKeeps ==
    ASSUME RouterInv, NEW c \in GatewayClients, setAVSGateway(c)
    PROVE  RouterInv'
<1>1. /\ c \in Clients /\ c # "manager" /\ clientPc[c] = "idle"
      /\ clientPc \in [Clients -> {"idle", "disabling", "shuttingDown", "clearing", "down", "switching", "done"}]
      /\ UNCHANGED <<m, m_queue, m_isEnabled, created, overlapped>> /\ m_isEnabled \in BOOLEAN
  BY DEF setAVSGateway, RouterInv, Types, Clients, transportVars
<1>2. moved[c] = <<>>
  BY <1>1 DEF RouterInv, ClientsFit
<1>3. CASE m_isEnabled
  <2>1. clientPc' = [clientPc EXCEPT ![c] = "switching"] /\ disconnectAllTransportsLocked(c)
    BY <1>3 DEF setAVSGateway
  <2>2. /\ clientPc'[c] = "switching" /\ \A d \in Clients \ {c} : clientPc'[d] = clientPc[d]
        /\ clientPc' \in [Clients -> {"idle", "disabling", "shuttingDown", "clearing", "down", "switching", "done"}]
    BY <1>1, <2>1
  <2>3. \A d \in Clients \ {c} : moved'[d] = moved[d]
    BY <2>1 DEF disconnectAllTransportsLocked, RouterInv, Types
  <2>4. "manager" \in Clients \ {c}
    BY <1>1 DEF Clients
  <2>5. ClientsFit'
    BY <1>1, <2>2, <2>3, <2>4 DEF RouterInv, ClientsFit, Clients
  <2> QED BY <1>1, <1>2, <2>1, <2>2, <2>5, DisconnectAllKeeps
<1>4. CASE ~m_isEnabled
  <2>1. /\ clientPc' = [clientPc EXCEPT ![c] = "done"]
        /\ UNCHANGED <<moved, m_transports, m_activeTransport, m_connectionStatus>>
    BY <1>4 DEF setAVSGateway
  <2>2. /\ clientPc'[c] = "done" /\ \A d \in Clients \ {c} : clientPc'[d] = clientPc[d]
        /\ clientPc' \in [Clients -> {"idle", "disabling", "shuttingDown", "clearing", "down", "switching", "done"}]
    BY <1>1, <2>1
  <2>3. Types'
    BY <1>1, <2>1, <2>2 DEF RouterInv, Types
  <2>4. "manager" \in Clients \ {c}
    BY <1>1 DEF Clients
  <2>5. LoopsFit' /\ ClientsFit'
    BY <1>1, <1>2, <2>1, <2>2, <2>4 DEF RouterInv, LoopsFit, ClientsFit, Clients
  <2>6. EveryTransportOwned'
    BY <1>1, <2>1 DEF RouterInv, EveryTransportOwned
  <2>7. OneRunning => OneRunning'
    BY <1>1, <2>1, <2>2 DEF OneRunning, Running, BeingMoved, Clients
  <2> QED BY <1>1, <2>3, <2>5, <2>6, <2>7 DEF RouterInv
<1> QED BY <1>3, <1>4

\* setAVSGateway comes back and creates a transport if the router is still enabled.
LEMMA GatewayReturnsKeeps ==
    ASSUME RouterInv, NEW c \in Clients, setAVSGatewayReturns(c)
    PROVE  RouterInv'
<1>1. /\ clientPc[c] = "switching" /\ moved[c] = <<>> /\ UNCHANGED <<m_queue, m_isEnabled, moved>>
      /\ clientPc' = [clientPc EXCEPT ![c] = "done"]
      /\ clientPc \in [Clients -> {"idle", "disabling", "shuttingDown", "clearing", "down", "switching", "done"}]
  BY DEF setAVSGatewayReturns, queueVars, RouterInv, Types
<1>2. c \in GatewayClients /\ c # "manager" /\ "manager" \in Clients
  BY <1>1 DEF RouterInv, ClientsFit, Clients
<1>3. /\ clientPc'[c] = "done" /\ \A d \in Clients \ {c} : clientPc'[d] = clientPc[d]
      /\ clientPc' \in [Clients -> {"idle", "disabling", "shuttingDown", "clearing", "down", "switching", "done"}]
  BY <1>1
<1>4. ClientsFit'
  BY <1>1, <1>2, <1>3 DEF RouterInv, ClientsFit, Clients
<1>5. CASE m_isEnabled
  <2>1. /\ createActiveTransportLocked(m, m_transports, m_connectionStatus)
        /\ overlapped' = (overlapped \/ Overlaps(c))
    BY <1>5 DEF setAVSGatewayReturns
  <2>2. /\ m \in [Transports -> Members] /\ LoopsFitIn(m, created)
        /\ m_transports \in Seq(Transports) /\ overlapped \in BOOLEAN /\ m_isEnabled \in BOOLEAN
        /\ m_connectionStatus \in {"DISCONNECTED", "PENDING", "CONNECTED"}
    BY DEF RouterInv, Types, LoopsFit, LoopsFitIn
  <2>3. \A t \in Transports : m[t].loop \notin {"off", "ended"} =>
          t \in Elements(m_transports) \/ BeingMoved(t)
    BY OwnedByClient DEF RouterInv, EveryTransportOwned
  <2>4. clientPc["manager"] = "idle" /\ clientPc'["manager"] = "idle"
    BY <1>2, <1>3, <1>5 DEF RouterInv, ClientsFit
  <2>5. ~overlapped' => /\ \A t \in Transports : m[t].loop \in Quitting
                        /\ \A d \in GatewayClients : clientPc'[d] # "switching"
                        /\ m_connectionStatus # "CONNECTED"
    <3> SUFFICES ASSUME ~overlapped' PROVE /\ \A t \in Transports : m[t].loop \in Quitting
                                           /\ \A d \in GatewayClients : clientPc'[d] # "switching"
                                           /\ m_connectionStatus # "CONNECTED"
      OBVIOUS
    <3>1. OneRunning /\ ~Overlaps(c)
      BY <2>1 DEF RouterInv
    <3>2. m_activeTransport = NoTransport /\ m_connectionStatus = "DISCONNECTED"
      BY <1>1, <1>2, <3>1 DEF OneRunning
    <3>3. \A t \in Transports : ~Running(t)
      BY <1>1, <2>4, <3>1, <3>2, NobodyRuns
    <3>4. \A d \in GatewayClients : clientPc'[d] # "switching"
      BY <1>3, <3>1 DEF Overlaps, Clients
    <3> QED BY <3>2, <3>3, <3>4 DEF Running
  <2>6. overlapped' \in BOOLEAN
    BY <2>1, <2>2 DEF Overlaps
  <2> QED BY <1>1, <1>3, <1>4, <2>1, <2>2, <2>3, <2>4, <2>5, <2>6, CreationKeeps
<1>6. CASE ~m_isEnabled
  <2>1. UNCHANGED <<m, statusVars, created, overlapped>>
    BY <1>6 DEF setAVSGatewayReturns
  <2>2. Types'
    BY <1>1, <1>3, <2>1 DEF RouterInv, Types, statusVars
  <2>3. LoopsFit' /\ EveryTransportOwned'
    BY <1>1, <2>1 DEF RouterInv, LoopsFit, EveryTransportOwned, statusVars
  <2>4. OneRunning => OneRunning'
    BY <1>1, <1>3, <2>1 DEF OneRunning, Running, BeingMoved, statusVars, Clients
  <2> QED BY <1>4, <2>1, <2>2, <2>3, <2>4 DEF RouterInv
<1> QED BY <1>5, <1>6

\* A client that has joined a transport forgets it: its loop has ended.
LEMMA JoinKeeps ==
    ASSUME RouterInv, NEW c \in Clients, JoinTransport(c)
    PROVE  RouterInv'
<1> DEFINE h == Head(moved[c])
<1>1. /\ moved[c] # <<>> /\ m[h].loop = "ended" /\ moved' = [moved EXCEPT ![c] = Tail(@)]
      /\ UNCHANGED <<transportVars, statusVars, clientPc, created, overlapped>>
  BY DEF JoinTransport, Joinable
<1>2. moved \in [Clients -> Seq(Transports)] /\ moved[c] \in Seq(Transports)
  BY DEF RouterInv, Types
<1>3. h \in Transports /\ Tail(moved[c]) \in Seq(Transports)
      /\ Elements(moved[c]) = {h} \cup Elements(Tail(moved[c]))
  BY <1>1, <1>2, TailElements
<1> HIDE DEF h
<1>4. /\ moved' \in [Clients -> Seq(Transports)] /\ moved'[c] = Tail(moved[c])
      /\ \A d \in Clients \ {c} : moved'[d] = moved[d]
  BY <1>1, <1>2, <1>3
<1>5. UNCHANGED <<m, m_queue, m_isEnabled, m_connectionStatus, m_transports, m_activeTransport,
                  clientPc, created, overlapped>>
  BY <1>1 DEF transportVars, statusVars
<1>6. \A t : BeingMoved(t) /\ t # h => BeingMoved(t)'
  BY <1>3, <1>4 DEF BeingMoved
<1>7. Types'
  BY <1>4, <1>5 DEF RouterInv, Types
<1>8. LoopsFit'
  BY <1>5 DEF RouterInv, LoopsFit
<1>9. ClientsFit'
  BY <1>1, <1>4, <1>5 DEF RouterInv, ClientsFit
<1>10. EveryTransportOwned'
  <2>1. \A t \in Transports : m[t].loop \notin {"off", "ended"} =>
          t \in Elements(m_transports) \/ BeingMoved(t)'
    BY <1>1, <1>6, OwnedByClient DEF RouterInv, EveryTransportOwned
  <2> QED BY <1>5, <2>1 DEF RouterInv, EveryTransportOwned, BeingMoved
<1>11. OneRunning => OneRunning'
  <2>1. \A t \in Transports : Running(t)' <=> Running(t)
    BY <1>5 DEF Running
  <2>2. ~Running(h)
    BY <1>1 DEF Running, Quitting
  <2> QED BY <1>5, <1>6, <2>1, <2>2 DEF OneRunning
<1> QED BY <1>5, <1>7, <1>8, <1>9, <1>10, <1>11 DEF RouterInv

\* A client's call returns when it has nothing left to shut down; requests come in.
LEMMA ReturnKeeps ==
    ASSUME RouterInv,
           \/ disableReturns \/ doShutdown \/ doShutdownClears
           \/ \E r \in Requests : routerSendMessage(r)
    PROVE  RouterInv'
<1>1. /\ clientPc \in [Clients -> {"idle", "disabling", "shuttingDown", "clearing", "down", "switching", "done"}]
      /\ "manager" \in Clients /\ m_queue \in Seq(AllRequests)
  BY DEF RouterInv, Types, Clients
<1>2. UNCHANGED <<m, m_isEnabled, m_connectionStatus, m_transports, m_activeTransport, moved,
                  created, overlapped>>
  BY DEF disableReturns, doShutdown, doShutdownClears, routerSendMessage, transportVars, statusVars,
         routerVars, clientVars
<1>3. m_queue' \in Seq(AllRequests)
  <2>1. CASE disableReturns
    BY <1>1, <2>1 DEF disableReturns, transportVars
  <2>2. CASE doShutdown \/ doShutdownClears
    <3>1. <<>> \in Seq(AllRequests)
      OBVIOUS
    <3>2. m_queue' = <<>> \/ (m_queue # <<>> /\ m_queue' = Tail(m_queue))
      BY <2>2 DEF doShutdown, doShutdownClears
    <3>3. m_queue # <<>> => Tail(m_queue) \in Seq(AllRequests)
      BY <1>1, TailElements
    <3> QED BY <3>1, <3>2, <3>3
  <2>3. ASSUME NEW r \in Requests, routerSendMessage(r) PROVE m_queue' \in Seq(AllRequests)
    <3>1. r \in AllRequests
      BY DEF AllRequests
    <3>2. m_queue' = m_queue \/ m_queue' = Append(m_queue, r)
      BY <2>3 DEF routerSendMessage
    <3> QED BY <1>1, <3>1, <3>2
  <2> QED BY <2>1, <2>2, <2>3
<1>4. \/ UNCHANGED clientPc
      \/ /\ clientPc' = [clientPc EXCEPT !["manager"] = "idle"] /\ moved["manager"] = <<>>
         /\ clientPc["manager"] = "disabling"
      \/ /\ clientPc' = [clientPc EXCEPT !["manager"] = "clearing"] /\ moved["manager"] = <<>>
         /\ clientPc["manager"] = "shuttingDown"
      \/ /\ clientPc' = [clientPc EXCEPT !["manager"] = "down"] /\ moved["manager"] = <<>>
         /\ clientPc["manager"] = "clearing"
  <2>1. clientPc["manager"] = "clearing" => moved["manager"] = <<>>
    BY <1>1 DEF RouterInv, ClientsFit
  <2> QED BY <2>1 DEF disableReturns, doShutdown, doShutdownClears, routerSendMessage, routerVars,
                      clientVars
<1>5. /\ clientPc' \in [Clients -> {"idle", "disabling", "shuttingDown", "clearing", "down", "switching", "done"}]
      /\ \A c \in Clients \ {"manager"} : clientPc'[c] = clientPc[c]
  BY <1>1, <1>4
<1>6. Types'
  BY <1>2, <1>3, <1>5 DEF RouterInv, Types
<1>7. LoopsFit' /\ EveryTransportOwned'
  BY <1>2 DEF RouterInv, LoopsFit, EveryTransportOwned
<1>8. ClientsFit'
  <2>1. \A c \in GatewayClients : c \in Clients \ {"manager"}
    BY DEF Clients
  <2>2. CASE UNCHANGED clientPc
    BY <1>2, <2>2 DEF RouterInv, ClientsFit
  <2>3. CASE ~UNCHANGED clientPc
    <3>1. /\ clientPc'["manager"] \in {"idle", "clearing", "down"} /\ moved["manager"] = <<>>
          /\ clientPc["manager"] # "idle"
      BY <1>1, <1>4, <2>3
    <3> QED BY <1>2, <1>5, <2>1, <3>1 DEF RouterInv, ClientsFit
  <2> QED BY <2>2, <2>3
<1>9. OneRunning => OneRunning'
  <2>1. \A c \in GatewayClients : clientPc'[c] = clientPc[c]
    BY <1>5 DEF Clients
  <2> QED BY <1>2, <2>1 DEF OneRunning, Running, BeingMoved
<1> QED BY <1>2, <1>6, <1>7, <1>8, <1>9 DEF RouterInv

\* A main loop goes on after a call of its observer that changes nothing in the router
\* but which transports it knows of, and its status.
LEMMA ObserverKeeps ==
    ASSUME RouterInv, NEW t \in Transports,
           m[t].loop \in {"CONNECTED", "SERVER_SIDE_DISCONNECT", "closing"}, m' = NextLoop(t),
           UNCHANGED <<m_queue, m_isEnabled, created, clientVars>>,
           m_transports' \in Seq(Transports),
           Elements(m_transports) \ {t} \subseteq Elements(m_transports'),
           m[t].loop # "closing" => Elements(m_transports) \subseteq Elements(m_transports'),
           \/ UNCHANGED m_activeTransport /\ (m_activeTransport = t => m[t].loop # "closing")
           \/ m_activeTransport = t /\ m_activeTransport' = NoTransport /\ m[t].loop = "closing",
           m_connectionStatus' \in {"DISCONNECTED", "PENDING", "CONNECTED"},
           \/ m_connectionStatus' \in {m_connectionStatus, "DISCONNECTED"}
           \/ m[t].loop = "CONNECTED" /\ t = m_activeTransport
    PROVE  RouterInv'
<1>1. Types /\ LoopsFit
  BY DEF RouterInv
<1>2. /\ m' \in [Transports -> Members] /\ LoopsFitIn(m', created)
      /\ \A u \in Transports \ {t} : m'[u] = m[u]
      /\ m'[t].loop = CASE m[t].loop = "CONNECTED" -> "connected"
                        [] m[t].loop = "SERVER_SIDE_DISCONNECT" -> "DISCONNECTING"
                        [] m[t].loop = "closing" -> "ended"
  BY <1>1, NextLoops
<1>3. UNCHANGED <<moved, clientPc, overlapped>>
  BY DEF clientVars
<1>4. Types'
  BY <1>1, <1>2, <1>3 DEF Types, Transports
<1>5. LoopsFit'
  BY <1>2 DEF LoopsFit, LoopsFitIn
<1>6. ClientsFit'
  BY <1>3 DEF RouterInv, ClientsFit
<1>7. \A u : BeingMoved(u)' <=> BeingMoved(u)
  BY <1>3 DEF BeingMoved
<1>8. EveryTransportOwned'
  <2>1. m_activeTransport' # NoTransport => m_activeTransport' \in Elements(m_transports')
    BY DEF RouterInv, EveryTransportOwned
  <2>2. ASSUME NEW u \in Transports, m'[u].loop \notin {"off", "ended"}
        PROVE  u \in Elements(m_transports') \/ BeingMoved(u)'
    <3>1. CASE u = t
      BY <1>2, <1>7, <2>2, <3>1, OwnedByClient DEF RouterInv, EveryTransportOwned
    <3>2. CASE u # t
      BY <1>2, <1>7, <2>2, <3>2, OwnedByClient DEF RouterInv, EveryTransportOwned
    <3> QED BY <3>1, <3>2
  <2> QED BY <2>1, <2>2 DEF EveryTransportOwned, BeingMoved
<1>9. ASSUME OneRunning PROVE OneRunning'
  <2>1. ASSUME NEW u \in Transports, Running(u)' PROVE Running(u) /\ (u = t => m[t].loop # "closing")
    BY <1>2, <2>1 DEF Running, Quitting
  <2>2. \A u, v \in Transports : Running(u)' /\ Running(v)' => u = v
    BY <1>9, <2>1 DEF OneRunning
  <2>3. ASSUME NEW u \in Transports, Running(u)'
        PROVE  u = m_activeTransport' \/ (m_activeTransport' = NoTransport /\ BeingMoved(u)')
    BY <1>7, <1>9, <2>1, <2>3 DEF OneRunning, NoTransport, Transports
  <2>4. (\E c \in GatewayClients : clientPc'[c] = "switching") =>
          m_activeTransport' = NoTransport /\ m_connectionStatus' = "DISCONNECTED"
    BY <1>3, <1>9 DEF OneRunning, NoTransport, Transports
  <2>5. m_connectionStatus' = "CONNECTED" /\ m_activeTransport' # NoTransport =>
          m'[m_activeTransport'].loop \in Reported
    <3> SUFFICES ASSUME m_connectionStatus' = "CONNECTED", m_activeTransport' # NoTransport
                 PROVE  m'[m_activeTransport'].loop \in Reported
      OBVIOUS
    <3>1. m_activeTransport' = m_activeTransport /\ m_activeTransport \in Transports
      BY <1>1 DEF Types
    <3>2. CASE m_activeTransport = t
      BY <1>2, <3>1, <3>2 DEF Reported
    <3>3. CASE m_activeTransport # t
      BY <1>2, <1>9, <3>1, <3>3 DEF OneRunning
    <3> QED BY <3>2, <3>3
  <2> QED BY <2>2, <2>3, <2>4, <2>5 DEF OneRunning
<1> QED BY <1>3, <1>4, <1>5, <1>6, <1>8, <1>9 DEF RouterInv

\* A main loop goes on after a call of its observer that replaces it.
LEMMA ReplacedKeeps ==
    ASSUME RouterInv, NEW t \in Transports, t = m_activeTransport,
           m[t].loop \in {"SERVER_SIDE_DISCONNECT", "closing"},
           NEW transports \in Seq(Transports),
           Elements(m_transports) \ {t} \subseteq Elements(transports),
           m[t].loop # "closing" => Elements(m_transports) \subseteq Elements(transports),
           createActiveTransportLocked(NextLoop(t), transports, "PENDING"),
           UNCHANGED <<m_queue, m_isEnabled, clientVars>>
    PROVE  RouterInv'
<1>1. Types /\ LoopsFit
  BY DEF RouterInv
<1> DEFINE mm == NextLoop(t)
<1>2. /\ mm \in [Transports -> Members] /\ LoopsFitIn(mm, created)
      /\ \A u \in Transports \ {t} : mm[u] = m[u]
      /\ mm[t].loop = CASE m[t].loop = "CONNECTED" -> "connected"
                        [] m[t].loop = "SERVER_SIDE_DISCONNECT" -> "DISCONNECTING"
                        [] m[t].loop = "closing" -> "ended"
  BY <1>1, NextLoops
<1> HIDE DEF mm
<1>3. createActiveTransportLocked(mm, transports, "PENDING")
  BY DEF mm
<1>4. UNCHANGED <<moved, clientPc, overlapped>>
  BY DEF clientVars
<1>5. ClientsFit' /\ m_isEnabled' \in BOOLEAN /\ overlapped' \in BOOLEAN
      /\ clientPc' \in [Clients -> {"idle", "disabling", "shuttingDown", "clearing", "down", "switching", "done"}]
      /\ (m_isEnabled' => clientPc'["manager"] = "idle")
  BY <1>1, <1>4 DEF RouterInv, ClientsFit, Types
<1>6. \A u \in Transports : mm[u].loop \notin {"off", "ended"} =>
        u \in Elements(transports) \/ BeingMoved(u)
  <2> SUFFICES ASSUME NEW u \in Transports, mm[u].loop \notin {"off", "ended"}
               PROVE  u \in Elements(transports) \/ BeingMoved(u)
    OBVIOUS
  <2>1. CASE u = t
    BY <1>2, <2>1, OwnedByClient DEF RouterInv, EveryTransportOwned
  <2>2. CASE u # t
    BY <1>2, <2>2, OwnedByClient DEF RouterInv, EveryTransportOwned
  <2> QED BY <2>1, <2>2
<1>7. ~overlapped' => /\ \A u \in Transports : mm[u].loop \in Quitting
                      /\ \A c \in GatewayClients : clientPc'[c] # "switching"
  <2> SUFFICES ASSUME ~overlapped' PROVE /\ \A u \in Transports : mm[u].loop \in Quitting
                                         /\ \A c \in GatewayClients : clientPc'[c] # "switching"
    OBVIOUS
  <2>1. OneRunning
    BY <1>4 DEF RouterInv
  <2>2. t # NoTransport
    BY DEF NoTransport, Transports
  <2>3. \A u \in Transports \ {t} : ~Running(u)
    BY <2>1, <2>2 DEF OneRunning
  <2>4. mm[t].loop \in Quitting
    BY <1>2 DEF Quitting
  <2>5. \A c \in GatewayClients : clientPc'[c] # "switching"
    BY <1>4, <2>1, <2>2 DEF OneRunning
  <2> QED BY <1>2, <2>3, <2>4, <2>5 DEF Running
<1> QED BY <1>2, <1>3, <1>4, <1>5, <1>6, <1>7, CreationKeeps

\* The three calls of the observer.
LEMMA ObserverCallsKeep ==
    ASSUME RouterInv, NEW t \in Transports, ObserverCalls(t)
    PROVE  RouterInv'
<1>1. /\ m_transports \in Seq(Transports)
      /\ m_connectionStatus \in {"DISCONNECTED", "PENDING", "CONNECTED"}
  BY DEF RouterInv, Types
<1>2. CASE onConnected(t)
  <2>1. /\ m[t].loop = "CONNECTED" /\ m' = NextLoop(t)
        /\ UNCHANGED <<m_queue, m_isEnabled, m_transports, m_activeTransport, created, clientVars>>
        /\ m_connectionStatus' = m_connectionStatus
             \/ (m_connectionStatus' = "CONNECTED" /\ t = m_activeTransport)
    BY <1>2 DEF onConnected, handleConnected, ConnectionCounts, queueVars
  <2>2. m[t].loop # "closing"
    BY <2>1
  <2> QED BY <1>1, <2>1, <2>2, ObserverKeeps
<1>3. CASE onServerSideDisconnect(t)
  <2>1. /\ m[t].loop = "SERVER_SIDE_DISCONNECT" /\ m[t].loop # "closing"
        /\ UNCHANGED <<m_queue, m_isEnabled, clientVars>>
    BY <1>3 DEF onServerSideDisconnect, handleServerSideDisconnect, queueVars
  <2>2. CASE m_isEnabled /\ t = m_activeTransport
    <3>1. createActiveTransportLocked(NextLoop(t), m_transports, "PENDING")
      BY <1>3, <2>2 DEF onServerSideDisconnect
    <3> QED BY <1>1, <2>1, <2>2, <3>1, ReplacedKeeps
  <2>3. CASE ~(m_isEnabled /\ t = m_activeTransport)
    <3>1. m' = NextLoop(t) /\ UNCHANGED <<m_transports, m_activeTransport, m_connectionStatus, created>>
      BY <1>3, <2>3 DEF onServerSideDisconnect
    <3> QED BY <1>1, <2>1, <3>1, ObserverKeeps
  <2> QED BY <2>2, <2>3
<1>4. CASE onDisconnected(t)
  <2> DEFINE w == Without(m_transports, t)
  <2>1. m[t].loop = "closing" /\ UNCHANGED <<m_queue, m_isEnabled, clientVars>>
    BY <1>4 DEF onDisconnected, handleShutdownNotifies, queueVars
  <2>2. w \in Seq(Transports) /\ Elements(m_transports) \ {t} \subseteq Elements(w)
    BY <1>1, WithoutElements
  <2>3. \/ t = m_activeTransport /\ createActiveTransportLocked(NextLoop(t), w, "PENDING")
        \/ /\ t = m_activeTransport /\ m' = NextLoop(t) /\ m_transports' = w
           /\ m_activeTransport' = NoTransport /\ UNCHANGED created
           /\ m_connectionStatus' \in {"DISCONNECTED", m_connectionStatus}
        \/ /\ t # m_activeTransport /\ m' = NextLoop(t) /\ m_transports' = w
           /\ UNCHANGED <<m_activeTransport, m_connectionStatus, created>>
    BY <1>4 DEF onDisconnected, ActiveDisconnected
  <2> HIDE DEF w
  <2>4. CASE t = m_activeTransport /\ createActiveTransportLocked(NextLoop(t), w, "PENDING")
    BY <2>1, <2>2, <2>4, ReplacedKeeps
  <2>5. CASE /\ t = m_activeTransport /\ m' = NextLoop(t) /\ m_transports' = w
             /\ m_activeTransport' = NoTransport /\ UNCHANGED created
             /\ m_connectionStatus' \in {"DISCONNECTED", m_connectionStatus}
    BY <1>1, <2>1, <2>2, <2>5, ObserverKeeps
  <2>6. CASE /\ t # m_activeTransport /\ m' = NextLoop(t) /\ m_transports' = w
             /\ UNCHANGED <<m_activeTransport, m_connectionStatus, created>>
    BY <1>1, <2>1, <2>2, <2>6, ObserverKeeps
  <2> QED BY <2>3, <2>4, <2>5, <2>6
<1> QED BY <1>2, <1>3, <1>4 DEF ObserverCalls

-----------------------------------------------------------------------------
(* The invariant of the router holds *)

\* The invariant of the router holds at the start.
LEMMA RouterInvInit == Init => RouterInv
<1> SUFFICES ASSUME Init PROVE RouterInv
  OBVIOUS
<1>1. <<>> \in Seq(AllRequests) /\ <<>> \in Seq(Transports)
  OBVIOUS
<1>2. NewTransport \in Members /\ LoopFits(NewTransport) /\ NewTransport.loop = "off"
  <2>1. NewTransport \in Members
    BY <1>1 DEF NewTransport, Members, LoopPc, State, Reasons
  <2>2. NewTransport.loop = "off" /\ NewTransport.hand = NoRequest /\ ~NewTransport.seen
    BY DEF NewTransport
  <2> QED BY <2>1, <2>2 DEF LoopFits
<1>3. m \in [Transports -> Members] /\ \A t \in Transports : m[t] = NewTransport
  BY <1>2 DEF Init, TransportInit
<1>4. Types
  BY <1>1, <1>3 DEF Init, TransportInit, Types
<1>5. LoopsFit
  BY <1>2, <1>3 DEF LoopsFit
<1>6. ClientsFit
  BY DEF Init, ClientsFit, Clients
<1>7. EveryTransportOwned
  BY <1>2, <1>3 DEF EveryTransportOwned, Init
<1>8. OneRunning
  <2>1. \A t \in Transports : ~Running(t)
    BY <1>2, <1>3 DEF Running, Quitting
  <2> QED BY <2>1 DEF OneRunning, Init, Clients
<1> QED BY <1>4, <1>5, <1>6, <1>7, <1>8 DEF RouterInv

\* Every step keeps the invariant.
LEMMA RouterInvNext == RouterInv /\ [Next]_vars => RouterInv'
<1> SUFFICES ASSUME RouterInv, [Next]_vars PROVE RouterInv'
  OBVIOUS
<1>1. CASE enable
  BY <1>1, EnableKeeps
<1>2. CASE disable
  BY <1>2, DisableKeeps
<1>3. ASSUME NEW c \in Clients, ClientSteps(c) PROVE RouterInv'
  <2>1. CASE ShutdownTransport(c)
    <3>1. /\ moved[c] # <<>> /\ UNCHANGED <<queueVars, routerVars>>
          /\ m' = [m EXCEPT ![Head(moved[c])] = setStateLocked(@, "SHUTDOWN", "RECOVERABLE")]
      BY <2>1 DEF ShutdownTransport
    <3>2. moved[c] \in Seq(Transports)
      BY DEF RouterInv, Types
    <3>3. Head(moved[c]) \in Transports
      BY <3>1, <3>2
    <3>4. "SHUTDOWN" \in State
      BY DEF State
    <3> QED BY <3>1, <3>3, <3>4, SetStateKeeps
  <2> QED BY <1>3, <2>1, ReturnKeeps, JoinKeeps, GatewayReturnsKeeps DEF ClientSteps
<1>4. ASSUME NEW c \in GatewayClients, setAVSGateway(c) PROVE RouterInv'
  BY <1>4, SetGatewayKeeps
<1>5. CASE \E r \in Requests : routerSendMessage(r)
  BY <1>5, ReturnKeeps
<1>6. CASE onWakeConnectionRetry
  <2>1. /\ m_activeTransport # NoTransport /\ UNCHANGED <<queueVars, routerVars>>
        /\ m' = [m EXCEPT ![m_activeTransport] = setStateLocked(@, "CONNECTING", "RECOVERABLE")]
    BY <1>6 DEF onWakeConnectionRetry
  <2>2. m_activeTransport \in Transports /\ "CONNECTING" \in State
    BY <2>1 DEF RouterInv, Types, State
  <2> QED BY <2>1, <2>2, SetStateKeeps
<1>7. ASSUME NEW t \in Transports, ObserverCalls(t) PROVE RouterInv'
  BY <1>7, ObserverCallsKeep
<1>8. ASSUME NEW t \in Transports, TransportSteps(t) PROVE RouterInv'
  <2>1. Types /\ LoopsFit
    BY DEF RouterInv
  <2>2. Moves(t) /\ UNCHANGED routerVars
    BY <1>8, <2>1, TransportMoves
  <2>3. m_queue' \in Seq(AllRequests)
    BY <1>8, <2>1, SharedQueueType
  <2> QED BY <2>2, <2>3, MovesKeep
<1>9. CASE UNCHANGED vars
  <2>1. UNCHANGED <<m, m_queue, statusVars, moved, clientPc, created, overlapped>>
    BY <1>9 DEF vars, transportVars, routerVars, clientVars
  <2>2. Types'
    BY <2>1 DEF RouterInv, Types, statusVars
  <2>3. LoopsFit' /\ ClientsFit' /\ EveryTransportOwned'
    BY <2>1 DEF RouterInv, LoopsFit, ClientsFit, EveryTransportOwned, statusVars
  <2>4. OneRunning => OneRunning'
    BY <2>1 DEF OneRunning, Running, BeingMoved, statusVars
  <2> QED BY <2>1, <2>2, <2>3, <2>4 DEF RouterInv
<1> QED BY <1>1, <1>2, <1>3, <1>4, <1>5, <1>6, <1>7, <1>8, <1>9 DEF Next

\* The invariant of the router holds for ever.
LEMMA RouterInvAlways == Spec => []RouterInv
BY RouterInvInit, RouterInvNext, PTL DEF Spec

-----------------------------------------------------------------------------
(* What a loop has seen in the shared queue *)

\* No loop has crashed, and what one has seen is still there.
Quiet == \A t \in Transports : m[t].loop # "crashed" /\ (m[t].seen => Available(m[t].loop))

\* What SeenIsTaken and ConnectedIsReported need besides the invariant of the router: a
\* router that is disabled has no active transport, and without an overlap only doShutdown
\* takes away what a loop has seen.
SeenInv ==
    /\ m_activeTransport # NoTransport => m_isEnabled
    /\ ~overlapped /\ clientPc["manager"] \notin {"clearing", "down"} => Quiet

\* A change of a transport after which its loop has not just crashed or seen something.
Calm(x, y) ==
    /\ y.loop = "crashed" => x.loop = "crashed"
    /\ y.seen => x.seen /\ y.loop = x.loop

\* Nothing that a loop may take is taken from the shared queue.
Kept == \A pc : Available(pc) => Available(pc)'

\* A queue that stays as it is, while nothing new waits for an acknowledgement, or grows.
LEMMA QueueKept ==
    ASSUME m_queue \in Seq(AllRequests),
           \/ UNCHANGED m_queue /\ (m_isWaitingForAcknowledgement' => m_isWaitingForAcknowledgement)
           \/ \E r \in AllRequests : /\ m_queue' = Append(m_queue, r)
                                     /\ UNCHANGED m_isWaitingForAcknowledgement
    PROVE  Kept
<1>1. CASE UNCHANGED m_queue /\ (m_isWaitingForAcknowledgement' => m_isWaitingForAcknowledgement)
  BY <1>1 DEF Kept, Available, isMessageRequestAvailable
<1>2. ASSUME NEW r \in AllRequests, m_queue' = Append(m_queue, r),
             UNCHANGED m_isWaitingForAcknowledgement
      PROVE  Kept
  <2>1. /\ m_queue' # <<>> /\ \A i \in DOMAIN m_queue : i \in DOMAIN m_queue' /\ m_queue'[i] = m_queue[i]
    BY <1>2
  <2>2. isMessageRequestAvailable(m_queue, m_isWaitingForAcknowledgement) =>
          isMessageRequestAvailable(m_queue, m_isWaitingForAcknowledgement)'
    BY <1>2, <2>1 DEF isMessageRequestAvailable
  <2> QED BY <2>1, <2>2 DEF Kept, Available
<1> QED BY <1>1, <1>2

\* A step that is calm and keeps the queue.
LEMMA CalmStep ==
    ASSUME Quiet, Kept, \A t \in Transports : Calm(m[t], m'[t])
    PROVE  Quiet'
BY DEF Quiet, Kept, Calm

\* The steps of a transport that can take away what a loop has seen.
Taking(t) == MonitorTimesOut(t) \/ DequeueShared(t) \/ SendRequest(t)

\* All others keep the queue.
LEMMA OthersKeepQueue ==
    ASSUME Types, NEW t \in Transports, TransportSteps(t), ~Taking(t)
    PROVE  Kept
<1>1. m_queue \in Seq(AllRequests)
  BY DEF Types
<1>2. CASE \/ LoopStart(t) \/ LoopEnter(t) \/ handleAuthorizing(t) \/ handleConnecting(t)
           \/ MonitorReturns(t) \/ handleWaitingToRetryConnecting(t) \/ handlePostConnecting(t)
           \/ StopPostConnect(t) \/ handleDisconnecting(t) \/ SendingReturns(t) \/ DequeueOwn(t)
           \/ MonitorSees(t) \/ CanSendShared(t) \/ SendPing(t) \/ PostConnectEnds(t)
  <2>1. UNCHANGED <<m_queue, m_isWaitingForAcknowledgement>>
    BY <1>2 DEF LoopStart, LoopEnter, handleAuthorizing, handleConnecting, MonitorReturns,
         handleWaitingToRetryConnecting, handlePostConnecting, StopPostConnect,
         handleDisconnecting, SendingReturns, DequeueOwn, MonitorSees, CanSendShared, SendPing,
         PostConnectEnds, onPostConnected, onUnRecoverablePostConnectFailure, Only
  <2> QED BY <1>1, <2>1, QueueKept
<1>3. CASE \/ handleShutdown(t) \/ SendRequestFails(t)
           \/ \E r \in AllRequests : onMessageRequestAcknowledged(t, r) \/ onResponseFinished(t, r)
  <2>1. UNCHANGED m_queue /\ (m_isWaitingForAcknowledgement' => m_isWaitingForAcknowledgement)
    BY <1>3 DEF handleShutdown, SendRequestFails, onMessageRequestAcknowledged,
         onResponseFinished, Acknowledged
  <2> QED BY <1>1, <2>1, QueueKept
<1>4. CASE \/ onDownchannelConnected(t) \/ onDownchannelFinished(t) \/ onPingTimeout(t)
           \/ (\E success \in BOOLEAN : onPingRequestAcknowledged(t, success))
           \/ Authorization(t) \/ \E r \in PostRequests : sendMessage(t, r)
  <2>1. UNCHANGED <<m_queue, m_isWaitingForAcknowledgement>>
    BY <1>4 DEF onDownchannelConnected, onDownchannelFinished, onPingRequestAcknowledged,
         onPingTimeout, Authorization, onAuthRefreshed, onAuthExpired, onAuthUnrecoverable,
         sendMessage, Only
  <2> QED BY <1>1, <2>1, QueueKept
<1> QED BY <1>2, <1>3, <1>4 DEF TransportSteps, MainLoop, Connection, Taking

\* A transport's own step, while only one transport is running: who takes from the shared
\* queue is the one who looks at it.
LEMMA TransportQuiet ==
    ASSUME RouterInv, OneRunning, Quiet, NEW t \in Transports, TransportSteps(t)
    PROVE  Quiet'
<1>1. Types /\ LoopsFit /\ m \in [Transports -> Members]
  BY DEF RouterInv, Types
<1>2. PICK y : m' = [m EXCEPT ![t] = y] /\ Steps(m[t], y)
  BY <1>1, TransportMoves DEF Moves
<1>3. m'[t] = y /\ \A u \in Transports \ {t} : m'[u] = m[u]
  BY <1>1, <1>2
<1>4. y.loop # "crashed" /\ (y.seen => y.loop = m[t].loop /\ Available(m[t].loop))
  BY <1>2 DEF Steps, Quiet
<1>5. \A u \in Transports : m[u].seen => Running(u) /\ m[u].hand = NoRequest
  BY <1>1 DEF LoopsFit, LoopFits, Running, Quitting, Monitoring
<1>6. CASE ~Taking(t)
  <2>1. Kept
    BY <1>1, <1>6, OthersKeepQueue
  <2> QED BY <1>3, <1>4, <2>1 DEF Quiet, Kept
<1>7. CASE Taking(t)
  <2>1. Running(t) /\ ~y.seen
    <3>1. CASE MonitorTimesOut(t)
      <4>1. m[t].loop \in Monitoring /\ (y = Crashed(m[t]) \/ y = Taken(m[t]))
        BY <1>1, <1>3, <3>1 DEF MonitorTimesOut, Only
      <4> QED BY <1>1, <4>1 DEF Running, Quitting, Monitoring, Crashed, Taken, Members
    <3>2. CASE DequeueShared(t)
      <4>1. /\ m[t].loop = "connected"
            /\ y = Crashed(m[t]) \/ \E i \in DOMAIN m_queue : y = [Taken(m[t]) EXCEPT !.hand = m_queue[i]]
        BY <1>1, <1>3, <3>2 DEF DequeueShared, FirstSendable, Only
      <4> QED BY <1>1, <4>1 DEF Running, Quitting, Crashed, Taken, Members
    <3>3. CASE SendRequest(t)
      <4>1. m[t].hand # NoRequest /\ y.seen = m[t].seen
        BY <1>1, <1>3, <3>3 DEF SendRequest, Members
      <4>2. m[t].loop \in {"posting", "connected"}
        BY <1>1, <4>1 DEF LoopsFit, LoopFits
      <4> QED BY <1>5, <4>1, <4>2 DEF Running, Quitting
    <3> QED BY <1>7, <3>1, <3>2, <3>3 DEF Taking
  <2>2. \A u \in Transports \ {t} : ~m[u].seen
    BY <1>5, <2>1 DEF OneRunning
  <2> QED BY <1>3, <1>4, <2>1, <2>2 DEF Quiet
<1> QED BY <1>6, <1>7

\* A transport that is created has seen nothing.
LEMMA CreatesCalm ==
    ASSUME NEW mm \in [Transports -> Members], LoopsFitIn(mm, created), created \in Nat,
           NEW transports \in Seq(Transports), NEW status,
           createActiveTransportLocked(mm, transports, status)
    PROVE  \A t \in Transports : Calm(mm[t], m'[t])
<1>1. \/ /\ created' \in Transports /\ m'[created'].loop = "start" /\ ~m'[created'].seen
         /\ \A t \in Transports \ {created'} : m'[t] = mm[t]
      \/ m' = mm
  BY Creates
<1> QED BY <1>1 DEF Calm

\* The calls of the router and of its observers are calm and leave the queue alone.
LEMMA RouterCalm ==
    ASSUME RouterInv,
           \/ enable \/ disable \/ (\E c \in GatewayClients : setAVSGateway(c))
           \/ (\E c \in Clients : ShutdownTransport(c) \/ JoinTransport(c) \/ setAVSGatewayReturns(c))
           \/ disableReturns \/ onWakeConnectionRetry
           \/ (\E t \in Transports : ObserverCalls(t)) \/ UNCHANGED vars
    PROVE  Kept /\ \A t \in Transports : Calm(m[t], m'[t])
<1>1. /\ m \in [Transports -> Members] /\ Types /\ LoopsFit /\ LoopsFitIn(m, created)
      /\ created \in Nat /\ m_transports \in Seq(Transports) /\ m_queue \in Seq(AllRequests)
  BY DEF RouterInv, Types, LoopsFit, LoopsFitIn
<1>2. Kept
  <2>1. UNCHANGED <<m_queue, m_isWaitingForAcknowledgement>>
    BY DEF enable, disable, setAVSGateway, ShutdownTransport, JoinTransport, setAVSGatewayReturns,
         disableReturns, onWakeConnectionRetry, ObserverCalls, onConnected, onServerSideDisconnect,
         onDisconnected, queueVars, transportVars, vars
  <2> QED BY <1>1, <2>1, QueueKept
<1>3. ASSUME NEW t \in Transports, NEW s \in State,
             m' = [m EXCEPT ![t] = setStateLocked(@, s, "RECOVERABLE")]
      PROVE  \A u \in Transports : Calm(m[u], m'[u])
  <2> DEFINE z == setStateLocked(m[t], s, "RECOVERABLE")
  <2>1. Calm(m[t], z)
    BY <1>1, SetState DEF Reasons, Advances, Calm
  <2>2. m' = [m EXCEPT ![t] = z]
    BY <1>3
  <2> HIDE DEF z
  <2> QED BY <1>1, <2>1, <2>2 DEF Calm
<1>4. CASE enable \/ \E c \in Clients : setAVSGatewayReturns(c)
  <2>1. \/ UNCHANGED m \/ \E status : createActiveTransportLocked(m, m_transports, status)
    BY <1>4 DEF enable, setAVSGatewayReturns
  <2>2. CASE UNCHANGED m
    BY <1>2, <2>2 DEF Calm
  <2> QED BY <1>1, <1>2, <2>1, <2>2, CreatesCalm
<1>5. CASE disable \/ disableReturns \/ (\E c \in GatewayClients : setAVSGateway(c))
           \/ (\E c \in Clients : JoinTransport(c)) \/ UNCHANGED vars
  <2>1. UNCHANGED m
    BY <1>5 DEF disable, disableReturns, setAVSGateway, JoinTransport, vars, transportVars
  <2> QED BY <1>2, <2>1 DEF Calm
<1>6. ASSUME NEW c \in Clients, ShutdownTransport(c)
      PROVE  \A t \in Transports : Calm(m[t], m'[t])
  <2>1. PICK t : t = Head(moved[c])
    OBVIOUS
  <2>2. moved[c] # <<>> /\ m' = [m EXCEPT ![t] = setStateLocked(@, "SHUTDOWN", "RECOVERABLE")]
    BY <1>6, <2>1 DEF ShutdownTransport
  <2>3. moved[c] \in Seq(Transports)
    BY DEF RouterInv, Types
  <2>4. t \in Transports /\ "SHUTDOWN" \in State
    BY <2>1, <2>2, <2>3 DEF State
  <2> QED BY <1>3, <2>2, <2>4
<1>7. CASE onWakeConnectionRetry
  <2>1. PICK t : t = m_activeTransport
    OBVIOUS
  <2>2. t # NoTransport /\ m' = [m EXCEPT ![t] = setStateLocked(@, "CONNECTING", "RECOVERABLE")]
    BY <1>7, <2>1 DEF onWakeConnectionRetry
  <2>3. t \in Transports /\ "CONNECTING" \in State
    BY <2>1, <2>2 DEF RouterInv, Types, State
  <2> QED BY <1>2, <1>3, <2>2, <2>3
<1>8. ASSUME NEW t \in Transports, ObserverCalls(t)
      PROVE  \A u \in Transports : Calm(m[u], m'[u])
  <2>1. m[t].loop \in {"CONNECTED", "SERVER_SIDE_DISCONNECT", "closing"}
    BY <1>8 DEF ObserverCalls, onConnected, onServerSideDisconnect, onDisconnected,
         handleConnected, handleServerSideDisconnect, handleShutdownNotifies
  <2>2. Without(m_transports, t) \in Seq(Transports)
    BY <1>1, WithoutElements
  <2>3. \/ m' = NextLoop(t)
        \/ \E transports \in Seq(Transports) :
              createActiveTransportLocked(NextLoop(t), transports, "PENDING")
    BY <1>1, <1>8, <2>2 DEF ObserverCalls, onConnected, onServerSideDisconnect, onDisconnected,
         ActiveDisconnected
  <2>4. /\ NextLoop(t) \in [Transports -> Members] /\ LoopsFitIn(NextLoop(t), created)
        /\ \A u \in Transports \ {t} : NextLoop(t)[u] = m[u]
        /\ NextLoop(t)[t].loop # "crashed" /\ ~NextLoop(t)[t].seen
    BY <1>1, <2>1, NextLoops
  <2>5. \A u \in Transports : Calm(m[u], NextLoop(t)[u])
    BY <2>4 DEF Calm
  <2>6. CASE m' = NextLoop(t)
    BY <2>5, <2>6
  <2>7. ASSUME NEW transports \in Seq(Transports),
               createActiveTransportLocked(NextLoop(t), transports, "PENDING")
        PROVE  \A u \in Transports : Calm(m[u], m'[u])
    <3>1. \A u \in Transports : Calm(NextLoop(t)[u], m'[u])
      BY <1>1, <2>4, <2>7, CreatesCalm
    <3> QED BY <2>5, <3>1 DEF Calm
  <2> QED BY <2>3, <2>6, <2>7
<1> QED BY <1>2, <1>4, <1>5, <1>6, <1>7, <1>8

\* A router that is disabled has no active transport, and does not get one.
LEMMA ActiveNext ==
    ASSUME RouterInv, m_activeTransport # NoTransport => m_isEnabled, [Next]_vars
    PROVE  m_activeTransport' # NoTransport => m_isEnabled'
<1>1. CASE enable \/ disable \/ \E c \in GatewayClients : setAVSGateway(c)
  BY <1>1 DEF enable, disable, setAVSGateway, disconnectAllTransportsLocked, statusVars
<1>2. ASSUME NEW c \in Clients, ClientSteps(c) PROVE m_activeTransport' # NoTransport => m_isEnabled'
  BY <1>2 DEF ClientSteps, disableReturns, doShutdown, doShutdownClears, ShutdownTransport,
       JoinTransport, setAVSGatewayReturns, statusVars, routerVars
<1>3. CASE onWakeConnectionRetry \/ (\E r \in Requests : routerSendMessage(r)) \/ UNCHANGED vars
  BY <1>3 DEF onWakeConnectionRetry, routerSendMessage, vars, routerVars, statusVars
<1>4. ASSUME NEW t \in Transports, ObserverCalls(t)
      PROVE  m_activeTransport' # NoTransport => m_isEnabled'
  BY <1>4 DEF ObserverCalls, onConnected, onServerSideDisconnect, onDisconnected,
       ActiveDisconnected
<1>5. ASSUME NEW t \in Transports, TransportSteps(t)
      PROVE  m_activeTransport' # NoTransport => m_isEnabled'
  BY <1>5 DEF TransportSteps, routerVars, statusVars
<1> QED BY <1>1, <1>2, <1>3, <1>4, <1>5 DEF Next

\* What happened stays so: an overlap, and the end of the manager.
LEMMA NoWayBack ==
    ASSUME RouterInv, [Next]_vars
    PROVE  /\ overlapped => overlapped'
           /\ clientPc["manager"] \in {"clearing", "down"} => clientPc'["manager"] \in {"clearing", "down"}
<1> DEFINE Ends == {"clearing", "down"}
<1>1. /\ clientPc \in [Clients -> {"idle", "disabling", "shuttingDown", "clearing", "down", "switching", "done"}]
      /\ "manager" \in Clients /\ "manager" \notin GatewayClients /\ clientPc["manager"] # "switching"
  BY DEF RouterInv, Types, ClientsFit, Clients
<1>2. \/ UNCHANGED overlapped
      \/ overlapped' = (overlapped \/ Overlaps("manager"))
      \/ \E c \in Clients : overlapped' = (overlapped \/ Overlaps(c))
  <2>1. CASE enable \/ disable \/ \E c \in GatewayClients : setAVSGateway(c)
    BY <2>1 DEF enable, disable, setAVSGateway
  <2>2. ASSUME NEW c \in Clients, ClientSteps(c)
        PROVE  UNCHANGED overlapped \/ overlapped' = (overlapped \/ Overlaps(c))
    BY <2>2 DEF ClientSteps, disableReturns, doShutdown, doShutdownClears, ShutdownTransport,
         JoinTransport, setAVSGatewayReturns, routerVars, clientVars
  <2>3. CASE onWakeConnectionRetry \/ (\E r \in Requests : routerSendMessage(r)) \/ UNCHANGED vars
    BY <2>3 DEF onWakeConnectionRetry, routerSendMessage, vars, routerVars, clientVars
  <2>4. CASE \E t \in Transports : ObserverCalls(t) \/ TransportSteps(t)
    BY <2>4 DEF routerVars, clientVars, ObserverCalls, onConnected, onServerSideDisconnect,
         onDisconnected, TransportSteps
  <2> QED BY <2>1, <2>2, <2>3, <2>4 DEF Next
<1>3. overlapped => overlapped'
  BY <1>2
<1>4. ASSUME clientPc["manager"] \in Ends PROVE clientPc'["manager"] \in Ends
  <2>1. ~enable /\ ~disable /\ ~disableReturns /\ ~doShutdown
    BY <1>4 DEF enable, disable, disableReturns, doShutdown
  <2>2. CASE doShutdownClears
    BY <1>1, <2>2 DEF doShutdownClears
  <2>3. ASSUME NEW c \in GatewayClients, setAVSGateway(c) PROVE clientPc'["manager"] \in Ends
    <3>1. c # "manager" /\ \E pc : clientPc' = [clientPc EXCEPT ![c] = pc]
      BY <1>1, <2>3 DEF setAVSGateway
    <3> QED BY <1>1, <1>4, <3>1
  <2>4. ASSUME NEW c \in Clients, setAVSGatewayReturns(c) PROVE clientPc'["manager"] \in Ends
    <3>1. c # "manager" /\ clientPc' = [clientPc EXCEPT ![c] = "done"]
      BY <1>1, <2>4 DEF setAVSGatewayReturns
    <3> QED BY <1>1, <1>4, <3>1
  <2>5. CASE UNCHANGED clientPc
    BY <1>4, <2>5
  <2>6. ASSUME NEW c \in Clients, ShutdownTransport(c) \/ JoinTransport(c) PROVE UNCHANGED clientPc
    BY <2>6 DEF ShutdownTransport, JoinTransport, routerVars, clientVars
  <2>7. CASE onWakeConnectionRetry \/ (\E r \in Requests : routerSendMessage(r)) \/ UNCHANGED vars
    BY <2>5, <2>7 DEF onWakeConnectionRetry, routerSendMessage, vars, routerVars, clientVars
  <2>8. CASE \E t \in Transports : ObserverCalls(t) \/ TransportSteps(t)
    BY <2>5, <2>8 DEF routerVars, clientVars, ObserverCalls, onConnected, onServerSideDisconnect,
         onDisconnected, TransportSteps
  <2> HIDE DEF Ends
  <2> QED BY <2>1, <2>2, <2>3, <2>4, <2>5, <2>6, <2>7, <2>8 DEF Next, ClientSteps
<1> QED BY <1>3, <1>4

\* Every step keeps what the loops have seen, until doShutdown empties the queue.
LEMMA SeenInvNext == RouterInv /\ SeenInv /\ [Next]_vars => SeenInv'
<1> SUFFICES ASSUME RouterInv, SeenInv, [Next]_vars PROVE SeenInv'
  OBVIOUS
<1>1. m_activeTransport' # NoTransport => m_isEnabled'
  BY ActiveNext DEF SeenInv
<1>2. ASSUME ~overlapped', clientPc'["manager"] \notin {"clearing", "down"} PROVE Quiet'
  <2>1. Quiet /\ OneRunning
    BY <1>2, NoWayBack DEF SeenInv, RouterInv
  <2>2. CASE \/ enable \/ disable \/ (\E c \in GatewayClients : setAVSGateway(c))
             \/ (\E c \in Clients : ShutdownTransport(c) \/ JoinTransport(c) \/ setAVSGatewayReturns(c))
             \/ disableReturns \/ onWakeConnectionRetry
             \/ (\E t \in Transports : ObserverCalls(t)) \/ UNCHANGED vars
    BY <2>1, <2>2, RouterCalm, CalmStep
  <2>3. ~doShutdown /\ ~doShutdownClears
    BY <1>2 DEF doShutdown, doShutdownClears, RouterInv, Types, Clients
  <2>4. ASSUME NEW r \in Requests, routerSendMessage(r) PROVE Quiet'
    <3>1. m_queue \in Seq(AllRequests) /\ r \in AllRequests
      BY DEF RouterInv, Types, AllRequests
    <3>2. UNCHANGED m /\ Kept
      BY <2>4, <3>1, QueueKept DEF routerSendMessage
    <3>3. \A t \in Transports : Calm(m[t], m'[t])
      BY <3>2 DEF Calm
    <3> QED BY <2>1, <3>2, <3>3, CalmStep
  <2>5. ASSUME NEW t \in Transports, TransportSteps(t) PROVE Quiet'
    BY <2>1, <2>5, TransportQuiet
  <2> QED BY <2>2, <2>3, <2>4, <2>5 DEF Next, ClientSteps
<1> QED BY <1>1, <1>2 DEF SeenInv

\* Nothing has been seen at the start.
LEMMA SeenInvInit == Init => SeenInv
<1> SUFFICES ASSUME Init PROVE SeenInv
  OBVIOUS
<1>1. NewTransport.loop # "crashed" /\ ~NewTransport.seen
  BY DEF NewTransport
<1> QED BY <1>1 DEF Init, TransportInit, SeenInv, Quiet

\* The two invariants hold for ever.
LEMMA SeenInvAlways == Spec => [](RouterInv /\ SeenInv)
BY RouterInvInit, RouterInvNext, SeenInvInit, SeenInvNext, PTL DEF Spec

-----------------------------------------------------------------------------
(* The theorems of the router *)

\* However many clients change the gateway, enable and disable, and however transports
\* fail: the active transport is known to the router, and no transport whose main loop
\* runs is forgotten by the router and by all clients.
THEOREM OwnedSafety == Spec => []EveryTransportOwned
<1>1. RouterInv => EveryTransportOwned
  BY DEF RouterInv
<1> QED BY <1>1, RouterInvAlways, PTL

\* Until a transport is created in the middle of another client's setAVSGateway, a
\* router that says CONNECTED has an active transport that has told it so.
THEOREM ReportedSafety == Spec => []ConnectedIsReported
<1>1. RouterInv /\ SeenInv => ConnectedIsReported
  <2> SUFFICES ASSUME RouterInv, SeenInv, ~overlapped, m_connectionStatus = "CONNECTED",
                      m_activeTransport # NoTransport
               PROVE  m[m_activeTransport].loop \in Reported \ {"crashed"}
    BY DEF ConnectedIsReported, Reported
  <2>1. m[m_activeTransport].loop \in Reported /\ m_activeTransport \in Transports
    BY DEF RouterInv, OneRunning, Types
  <2>2. clientPc["manager"] = "idle"
    BY DEF RouterInv, ClientsFit, SeenInv
  <2>3. Quiet
    BY <2>2 DEF SeenInv
  <2> QED BY <2>1, <2>3 DEF Quiet
<1> QED BY <1>1, SeenInvAlways, PTL

\* Until then, and as long as doShutdown does not empty the queue under a loop, whatever
\* the transports fail at: a loop that has seen a request in the shared queue gets one.
THEOREM SeenSafety == Spec => []SeenIsTaken
<1>1. SeenInv => SeenIsTaken
  BY DEF SeenInv, Quiet, SeenIsTaken
<1> QED BY <1>1, SeenInvAlways, PTL

\* Until then one main loop at a time serves the shared queue.
THEOREM ServerSafety == Spec => []OneServer
<1>1. RouterInv => OneServer
  <2> SUFFICES ASSUME RouterInv, ~overlapped, NEW t \in Transports, NEW u \in Transports,
                      m[t].loop \in Monitoring \cup {"connected"},
                      m[u].loop \in Monitoring \cup {"connected"}
               PROVE  t = u
    BY DEF OneServer
  <2>1. Running(t) /\ Running(u)
    BY DEF Running, Quitting, Monitoring
  <2> QED BY <2>1 DEF RouterInv, OneRunning
<1> QED BY <1>1, RouterInvAlways, PTL

-----------------------------------------------------------------------------
(* Requests *)

\* The kinds of places where a request can be: in the shared queue, in a transport's own
\* queue, in the hand of a main loop, under way, cleared away, or answered.
Kinds == {"shared", "own", "hand", "handler", "dropped", "answered"}
Holders == Transports \cup {NoTransport}

Has(x, r, k) ==
    \/ k = "own" /\ r \in Elements(x.queue)
    \/ k = "hand" /\ r = x.hand
    \/ k = "handler" /\ r \in x.handlers

At(r, k, t) ==
    \/ t \in Transports /\ Has(m[t], r, k)
    \/ t = NoTransport /\ k = "shared" /\ r \in Elements(m_queue)
    \/ t = NoTransport /\ k = "dropped" /\ r \in dropped
    \/ t = NoTransport /\ k = "answered" /\ answers[r] > 0

Distinct(q) == \A i, j \in DOMAIN q : q[i] = q[j] => i = j

\* A request that was offered is in exactly one place, any other in none.
OneSpot(r) ==
    /\ \A k, l \in Kinds, t, u \in Holders : At(r, k, t) /\ At(r, l, u) => k = l /\ t = u
    /\ r \in offered <=> \E k \in Kinds, t \in Holders : At(r, k, t)

\* What OnePlace needs: no queue holds a request twice, none is answered twice, and
\* the places exclude each other.
RequestInv ==
    /\ answers \in [AllRequests -> {0, 1}]
    /\ offered \subseteq AllRequests
    /\ Distinct(m_queue) /\ \A t \in Transports : Distinct(m[t].queue)
    /\ \A r \in AllRequests : OneSpot(r)

\* Sequences without duplicates: what is taken out is not in there any more.
LEMMA RemoveAtDistinct ==
    ASSUME NEW S, NEW q \in Seq(S), NEW i \in 1..Len(q), Distinct(q)
    PROVE  Distinct(RemoveAt(q, i)) /\ Elements(RemoveAt(q, i)) = Elements(q) \ {q[i]}
<1> DEFINE p == RemoveAt(q, i)
<1>1. /\ p \in Seq(S) /\ Len(p) = Len(q) - 1
      /\ \A j \in 1..(Len(q) - 1) : p[j] = IF j < i THEN q[j] ELSE q[j + 1]
  BY RemoveAtIndex
<1>2. Elements(p) \subseteq Elements(q) /\ Elements(q) \ {q[i]} \subseteq Elements(p)
  BY RemoveAtElements
<1> HIDE DEF p
<1>3. DOMAIN p = 1..(Len(q) - 1) /\ DOMAIN q = 1..Len(q) /\ Len(q) \in Nat
  BY <1>1
<1> DEFINE from(j) == IF j < i THEN j ELSE j + 1
<1>4. \A j \in DOMAIN p : from(j) \in DOMAIN q /\ from(j) # i /\ p[j] = q[from(j)]
  BY <1>1, <1>3
<1>5. Distinct(p)
  <2> SUFFICES ASSUME NEW j \in DOMAIN p, NEW k \in DOMAIN p, p[j] = p[k] PROVE j = k
    BY DEF Distinct
  <2>1. from(j) = from(k)
    BY <1>4 DEF Distinct
  <2> QED BY <1>3, <2>1
<1>6. q[i] \notin Elements(p)
  <2> SUFFICES ASSUME NEW j \in DOMAIN p, p[j] = q[i] PROVE FALSE
    BY DEF Elements
  <2> QED BY <1>3, <1>4 DEF Distinct
<1> QED BY <1>2, <1>5, <1>6 DEF p

\* Taking the first of a queue without repetitions removes just that request.
LEMMA TailDistinct ==
    ASSUME NEW S, NEW q \in Seq(S), q # <<>>, Distinct(q)
    PROVE  Distinct(Tail(q)) /\ Elements(Tail(q)) = Elements(q) \ {Head(q)}
<1> DEFINE p == Tail(q)
<1>1. /\ p \in Seq(S) /\ Head(q) = q[1] /\ Len(q) \in Nat /\ Len(q) > 0 /\ DOMAIN q = 1..Len(q)
      /\ DOMAIN p = 1..(Len(q) - 1) /\ \A j \in 1..(Len(q) - 1) : p[j] = q[j + 1]
  OBVIOUS
<1>2. Elements(q) = {Head(q)} \cup Elements(p)
  BY TailElements
<1> HIDE DEF p
<1>3. \A j \in DOMAIN p : j + 1 \in DOMAIN q /\ j + 1 # 1 /\ p[j] = q[j + 1] /\ j \in Nat
  BY <1>1
<1>4. Distinct(p)
  <2> SUFFICES ASSUME NEW j \in DOMAIN p, NEW k \in DOMAIN p, p[j] = p[k] PROVE j = k
    BY DEF Distinct
  <2>1. j + 1 = k + 1
    BY <1>3 DEF Distinct
  <2> QED BY <1>3, <2>1
<1>5. q[1] \notin Elements(p)
  <2> SUFFICES ASSUME NEW j \in DOMAIN p, p[j] = q[1] PROVE FALSE
    BY DEF Elements
  <2>1. 1 \in DOMAIN q
    BY <1>1
  <2> QED BY <1>3, <2>1 DEF Distinct
<1> QED BY <1>1, <1>2, <1>4, <1>5 DEF p

\* A request that is not in the queue can be added without repetition.
LEMMA AppendDistinct ==
    ASSUME NEW S, NEW q \in Seq(S), NEW r \in S, Distinct(q), r \notin Elements(q)
    PROVE  Distinct(Append(q, r))
<1> DEFINE p == Append(q, r)
<1>1. /\ DOMAIN p = 1..(Len(q) + 1) /\ p[Len(q) + 1] = r
      /\ \A j \in 1..Len(q) : p[j] = q[j]
  OBVIOUS
<1>2. DOMAIN q = 1..Len(q) /\ Len(q) \in Nat
  OBVIOUS
<1> HIDE DEF p
<1>3. \A j \in 1..Len(q) : p[j] # r
  BY <1>1, <1>2 DEF Elements
<1> SUFFICES ASSUME NEW j \in DOMAIN p, NEW k \in DOMAIN p, p[j] = p[k] PROVE j = k
  BY DEF Distinct, p
<1>4. CASE j \in 1..Len(q) /\ k \in 1..Len(q)
  BY <1>1, <1>2, <1>4 DEF Distinct
<1>5. CASE j = Len(q) + 1 \/ k = Len(q) + 1
  BY <1>1, <1>2, <1>3, <1>5
<1> QED BY <1>1, <1>2, <1>4, <1>5

\* Members with the same requests in the same places.
Same(x, y) == y.queue = x.queue /\ y.hand = x.hand /\ y.handlers = x.handlers

\* A step of t that moves no request.
Still(t) ==
    /\ \E y : m' = [m EXCEPT ![t] = y] /\ Same(m[t], y)
    /\ UNCHANGED <<m_queue, offered, answers>>

\* A change of state moves no request.
LEMMA SetStateSame ==
    ASSUME NEW x \in Members
    PROVE  \A s \in State, reason \in Reasons :
             setStateLocked(x, s, reason) \in Members /\ Same(x, setStateLocked(x, s, reason))
BY SetState DEF Advances, Same

\* The steps of a transport that have to do with requests.
Handling(t) ==
    \/ MonitorTimesOut(t) \/ handleShutdown(t) \/ DequeueOwn(t) \/ DequeueShared(t)
    \/ SendRequest(t) \/ SendRequestFails(t)
    \/ \E r \in AllRequests : onResponseFinished(t, r)
    \/ \E r \in PostRequests : sendMessage(t, r)

\* All others move none.
LEMMA OthersStill ==
    ASSUME NEW t \in Transports, Types, TransportSteps(t), ~Handling(t)
    PROVE  Still(t)
<1> DEFINE x == m[t]
<1>1. x \in Members /\ m \in [Transports -> Members]
  BY DEF Types
<1>2. /\ \A s \in State : /\ setStateLocked(x, s, "RECOVERABLE") \in Members
                          /\ Same(x, setStateLocked(x, s, "RECOVERABLE"))
                          /\ setStateLocked(x, s, "UNRECOVERABLE_ERROR") \in Members
                          /\ Same(x, setStateLocked(x, s, "UNRECOVERABLE_ERROR"))
  BY <1>1, SetStateSame DEF Reasons
<1>3. {"SHUTDOWN", "SERVER_SIDE_DISCONNECT", "POST_CONNECTING", "WAITING_TO_RETRY_CONNECTING",
        "CONNECTING", "AUTHORIZING", "CONNECTED"} \subseteq State
  BY DEF State
<1> HIDE DEF x
<1>4. ASSUME NEW z \in Members, Same(x, z)
      PROVE  /\ \A pc \in LoopPc : Same(x, [z EXCEPT !.loop = pc])
             /\ Same(x, [z EXCEPT !.pingHandler = TRUE]) /\ Same(x, [z EXCEPT !.pingHandler = FALSE])
             /\ Same(x, [z EXCEPT !.downchannel = "up"]) /\ Same(x, [z EXCEPT !.downchannel = "none"])
             /\ Same(x, [z EXCEPT !.postConnected = TRUE]) /\ Same(x, [z EXCEPT !.seen = TRUE])
  BY <1>4 DEF Same, Members
<1>5. Same(x, x)
  BY DEF Same
<1>6. ASSUME NEW y, Only(t, y), Same(x, y) PROVE Still(t)
  BY <1>6 DEF Still, Only, x
<1>7. State \subseteq LoopPc /\ {"entering", "authorizing", "posting", "CONNECTED"} \subseteq LoopPc
      /\ x.state \in LoopPc
  BY <1>1 DEF LoopPc, Members, State
<1>8. \A s \in State : Same(x, ReturnState(x, s, "RECOVERABLE"))
  <2> SUFFICES ASSUME NEW s \in State PROVE Same(x, ReturnState(x, s, "RECOVERABLE"))
    OBVIOUS
  <2> DEFINE z == setStateLocked(x, s, "RECOVERABLE")
  <2>1. z \in Members /\ Same(x, z)
    BY <1>2
  <2>2. ReturnState(x, s, "RECOVERABLE") = [z EXCEPT !.loop = z.state]
    BY DEF ReturnState
  <2> HIDE DEF z
  <2>3. z.state \in LoopPc
    BY <1>7, <2>1 DEF Members
  <2> QED BY <1>4, <2>1, <2>2, <2>3
<1>9. CASE LoopStart(t)
  <2>1. CASE Only(t, [x EXCEPT !.loop = "entering", !.post = "operating"])
    <3>1. Same(x, [x EXCEPT !.loop = "entering", !.post = "operating"])
      BY <1>1 DEF Same, Members
    <3> QED BY <1>6, <2>1, <3>1
  <2>2. CASE Only(t, [setStateLocked(x, "SHUTDOWN", "RECOVERABLE") EXCEPT !.loop = "entering"])
    BY <1>2, <1>3, <1>4, <1>6, <1>7, <2>2
  <2> QED BY <1>9, <2>1, <2>2 DEF LoopStart, x
<1>10. CASE LoopEnter(t) \/ handleAuthorizing(t) \/ MonitorReturns(t) \/ SendingReturns(t)
  <2>1. Only(t, [x EXCEPT !.loop = x.state]) \/ Only(t, [x EXCEPT !.loop = "authorizing"])
    BY <1>10 DEF LoopEnter, handleAuthorizing, MonitorReturns, SendingReturns, x
  <2> QED BY <1>1, <1>4, <1>5, <1>6, <1>7, <2>1
<1>11. CASE handleConnecting(t)
  <2>1. CASE Only(t, [x EXCEPT !.loop = "connecting", !.downchannel = "open"])
    <3>1. Same(x, [x EXCEPT !.loop = "connecting", !.downchannel = "open"])
      BY <1>1 DEF Same, Members
    <3> QED BY <1>6, <2>1, <3>1
  <2>2. CASE Only(t, ReturnState(x, "WAITING_TO_RETRY_CONNECTING", "RECOVERABLE"))
    BY <1>3, <1>6, <1>8, <2>2
  <2> QED BY <1>11, <2>1, <2>2 DEF handleConnecting, x
<1>12. CASE handleWaitingToRetryConnecting(t) \/ handleDisconnecting(t)
  <2>1. \/ Only(t, ReturnState(x, "CONNECTING", "RECOVERABLE")) \/ Only(t, [x EXCEPT !.loop = x.state])
        \/ Only(t, ReturnState(x, "SHUTDOWN", "RECOVERABLE"))
    BY <1>12 DEF handleWaitingToRetryConnecting, handleDisconnecting, x
  <2> QED BY <1>1, <1>3, <1>4, <1>5, <1>6, <1>7, <1>8, <2>1
<1>13. CASE handlePostConnecting(t)
  <2>1. \/ Only(t, [setStateLocked(x, "CONNECTED", "RECOVERABLE") EXCEPT !.loop = "CONNECTED"])
        \/ Only(t, [x EXCEPT !.loop = "posting"])
    BY <1>13 DEF handlePostConnecting, x
  <2> QED BY <1>1, <1>2, <1>3, <1>4, <1>5, <1>6, <1>7, <2>1
<1>14. CASE StopPostConnect(t)
  <2>1. Same(x, [x EXCEPT !.stopping = TRUE])
    BY <1>1 DEF Same, Members
  <2> QED BY <1>6, <1>14, <2>1 DEF StopPostConnect, x
<1>15. CASE SendPing(t)
  <2>1. \/ Only(t, [x EXCEPT !.pingHandler = TRUE])
        \/ Only(t, [setStateLocked(x, "SERVER_SIDE_DISCONNECT", "RECOVERABLE") EXCEPT !.pingHandler = TRUE])
        \/ Only(t, setStateLocked(x, "SHUTDOWN", "RECOVERABLE"))
    BY <1>15 DEF SendPing, x
  <2> QED BY <1>1, <1>2, <1>3, <1>4, <1>5, <1>6, <2>1
<1>16. CASE Authorization(t)
  <2>1. \/ m' = [m EXCEPT ![t] = setStateLocked(x, "CONNECTING", "RECOVERABLE")]
        \/ m' = [m EXCEPT ![t] = setStateLocked(x, "AUTHORIZING", "RECOVERABLE")]
        \/ m' = [m EXCEPT ![t] = setStateLocked(x, "SHUTDOWN", "UNRECOVERABLE_ERROR")]
    BY <1>1, <1>16 DEF Authorization, onAuthRefreshed, onAuthExpired, onAuthUnrecoverable, Only, x
  <2>2. UNCHANGED <<m_queue, offered, answers>>
    BY <1>16 DEF Authorization, onAuthRefreshed, onAuthExpired, onAuthUnrecoverable, Only
  <2> QED BY <1>2, <1>3, <2>1, <2>2 DEF Still, x
<1>17. CASE PostConnectEnds(t)
  <2> DEFINE w == [x EXCEPT !.post = "done"]
  <2>1. w \in Members /\ w.state = x.state /\ Same(x, w)
    BY <1>1 DEF Members, Same
  <2>2. \/ Only(t, [setStateLocked(w, "CONNECTED", "RECOVERABLE") EXCEPT !.postConnected = TRUE])
        \/ Only(t, w) \/ Only(t, [w EXCEPT !.postConnected = TRUE])
        \/ Only(t, setStateLocked(w, "SHUTDOWN", "UNRECOVERABLE_ERROR"))
    <3>1. CASE onPostConnected(t)
      BY <2>1, <3>1 DEF onPostConnected, x
    <3>2. CASE onUnRecoverablePostConnectFailure(t)
      BY <2>1, <3>2 DEF onUnRecoverablePostConnectFailure, x
    <3> QED BY <1>17, <3>1, <3>2 DEF PostConnectEnds
  <2> HIDE DEF w
  <2>3. ASSUME NEW s \in State, NEW reason \in Reasons
        PROVE  setStateLocked(w, s, reason) \in Members /\ Same(x, setStateLocked(w, s, reason))
    BY <2>1, SetStateSame DEF Same
  <2>4. {"RECOVERABLE", "UNRECOVERABLE_ERROR"} \subseteq Reasons
    BY DEF Reasons
  <2> QED BY <1>3, <1>4, <1>6, <2>1, <2>2, <2>3, <2>4
<1>18. CASE onDownchannelConnected(t)
  <2>1. Only(t, [setStateLocked(x, "POST_CONNECTING", "RECOVERABLE") EXCEPT !.downchannel = "up"])
    BY <1>18 DEF onDownchannelConnected, x
  <2> QED BY <1>2, <1>3, <1>4, <1>6, <2>1
<1>19. CASE onDownchannelFinished(t)
  <2> DEFINE z == CASE x.state = "CONNECTING" ->
                       setStateLocked(x, "WAITING_TO_RETRY_CONNECTING", "RECOVERABLE")
                  [] x.state \in {"POST_CONNECTING", "CONNECTED"} ->
                       setStateLocked(x, "SERVER_SIDE_DISCONNECT", "RECOVERABLE")
                  [] OTHER -> x
  <2>1. Only(t, [z EXCEPT !.downchannel = "none"])
    BY <1>19 DEF onDownchannelFinished, x
  <2>2. z \in Members /\ Same(x, z)
    BY <1>1, <1>2, <1>3, <1>5
  <2> HIDE DEF z
  <2> QED BY <1>4, <1>6, <2>1, <2>2
<1>20. ASSUME NEW r \in AllRequests, onMessageRequestAcknowledged(t, r) PROVE Still(t)
  <2> DEFINE y == [x EXCEPT !.unacknowledged = @ \ {r}]
  <2>1. m' = [m EXCEPT ![t] = y] /\ UNCHANGED <<m_queue, offered, answers>>
    BY <1>20 DEF onMessageRequestAcknowledged, x
  <2>2. Same(x, y)
    BY <1>1 DEF Same, Members
  <2> QED BY <2>1, <2>2 DEF Still, x
<1>21. CASE (\E success \in BOOLEAN : onPingRequestAcknowledged(t, success)) \/ onPingTimeout(t)
  <2>1. \/ Only(t, [x EXCEPT !.pingHandler = FALSE])
        \/ Only(t, [setStateLocked(x, "SERVER_SIDE_DISCONNECT", "RECOVERABLE") EXCEPT !.pingHandler = FALSE])
        \/ Only(t, [setStateLocked(x, "SHUTDOWN", "RECOVERABLE") EXCEPT !.pingHandler = FALSE])
    BY <1>21 DEF onPingRequestAcknowledged, onPingTimeout, x
  <2> QED BY <1>1, <1>2, <1>3, <1>4, <1>5, <1>6, <2>1
<1>22. CASE MonitorSees(t) \/ CanSendShared(t)
  <2>1. Only(t, [x EXCEPT !.seen = TRUE])
    BY <1>22 DEF MonitorSees, CanSendShared, x
  <2> QED BY <1>1, <1>4, <1>5, <1>6, <2>1
<1> QED BY <1>9, <1>10, <1>11, <1>12, <1>13, <1>14, <1>15, <1>16, <1>17, <1>18, <1>19, <1>20, <1>21,
           <1>22
        DEF TransportSteps, MainLoop, Connection, Handling

\* A step that moves no request.
LEMMA NothingMoves ==
    ASSUME RequestInv, \A t \in Transports : Same(m[t], m'[t]),
           UNCHANGED <<m_queue, offered, answers, dropped>>
    PROVE  RequestInv'
<1>1. \A r \in AllRequests, k \in Kinds, t \in Holders : At(r, k, t)' <=> At(r, k, t)
  BY DEF At, Has, Same
<1>2. \A r \in AllRequests : OneSpot(r)'
  BY <1>1 DEF RequestInv, OneSpot
<1>3. Distinct(m_queue)' /\ \A t \in Transports : Distinct(m[t].queue)'
  BY DEF RequestInv, Same
<1> QED BY <1>2, <1>3 DEF RequestInv

\* A step that brings the requests of R each to one place, and leaves the others.
LEMMA Relocates ==
    ASSUME RequestInv, NEW R \in SUBSET AllRequests, offered' = offered \cup R,
           \A r \in R : \E l \in Kinds, u \in Holders : \A k \in Kinds, t \in Holders :
               At(r, k, t)' <=> k = l /\ t = u,
           \A r \in AllRequests \ R : \A k \in Kinds, t \in Holders : At(r, k, t)' <=> At(r, k, t),
           answers' \in [AllRequests -> {0, 1}],
           Distinct(m_queue)', \A t \in Transports : Distinct(m[t].queue)'
    PROVE  RequestInv'
<1>1. ASSUME NEW r \in R PROVE OneSpot(r)'
  <2>1. PICK l \in Kinds, u \in Holders : \A k \in Kinds, t \in Holders :
               At(r, k, t)' <=> k = l /\ t = u
    OBVIOUS
  <2> QED BY <2>1 DEF OneSpot
<1>2. ASSUME NEW r \in AllRequests \ R PROVE OneSpot(r)'
  BY DEF RequestInv, OneSpot
<1> QED BY <1>1, <1>2 DEF RequestInv

\* Those that are answered were not answered before if they were somewhere else.
LEMMA AnswersOnce ==
    ASSUME RequestInv, NEW S \in SUBSET AllRequests, Answer(S),
           \A r \in S : ~At(r, "answered", NoTransport)
    PROVE  /\ answers' \in [AllRequests -> {0, 1}]
           /\ \A r \in AllRequests : answers'[r] > 0 <=> r \in S \/ answers[r] > 0
<1>1. answers \in [AllRequests -> {0, 1}]
  BY DEF RequestInv
<1>2. \A r \in S : answers[r] = 0
  BY <1>1 DEF At
<1> QED BY <1>1, <1>2 DEF Answer

\* A request is nowhere else than where it is.
LEMMA OnlyThere ==
    ASSUME RequestInv, NEW r \in AllRequests, NEW l \in Kinds, NEW u \in Holders, At(r, l, u)
    PROVE  /\ r \in offered
           /\ \A k \in Kinds, t \in Holders : At(r, k, t) <=> k = l /\ t = u
BY DEF RequestInv, OneSpot

\* A request that was not offered is nowhere.
LEMMA Nowhere ==
    ASSUME RequestInv, NEW r \in AllRequests, r \notin offered
    PROVE  \A k \in Kinds, t \in Holders : ~At(r, k, t)
BY DEF RequestInv, OneSpot

\* A loop that crashes moves no request.
LEMMA CrashKeeps ==
    ASSUME RouterInv, RequestInv, NEW t \in Transports, Only(t, Crashed(m[t])), UNCHANGED dropped
    PROVE  RequestInv'
<1>1. m \in [Transports -> Members]
  BY DEF RouterInv, Types
<1>2. PICK y : y = Crashed(m[t])
  OBVIOUS
<1>3. Same(m[t], y)
  BY <1>1, <1>2 DEF Crashed, Same, Members
<1>4. m' = [m EXCEPT ![t] = y] /\ UNCHANGED <<m_queue, offered, answers>>
  BY <1>2 DEF Only
<1>5. \A u \in Transports : Same(m[u], m'[u])
  BY <1>1, <1>3, <1>4 DEF Same
<1> QED BY <1>4, <1>5, NothingMoves

\* The first request of the shared queue is answered, by the monitor or by doShutdown.
LEMMA FirstAnswered ==
    ASSUME RouterInv, RequestInv, m_queue # <<>>, m_queue' = Tail(m_queue),
           Answer({Head(m_queue)}), \A u \in Transports : Same(m[u], m'[u]),
           UNCHANGED <<offered, dropped>>
    PROVE  RequestInv'
<1>1. PICK r : /\ r = Head(m_queue) /\ m_queue # <<>> /\ m_queue' = Tail(m_queue) /\ Answer({r})
               /\ UNCHANGED offered /\ m_queue \in Seq(AllRequests) /\ Distinct(m_queue)
  BY DEF RouterInv, Types, RequestInv
<1>2. r \in AllRequests /\ r \in Elements(m_queue)
  BY <1>1, TailElements
<1>3. Distinct(m_queue') /\ Elements(m_queue') = Elements(m_queue) \ {r}
  BY <1>1, TailDistinct
<1>4. At(r, "shared", NoTransport)
  BY <1>2 DEF At
<1>5. /\ {"shared", "answered"} \subseteq Kinds /\ NoTransport \in Holders /\ NoTransport \notin Transports
  BY DEF Kinds, Holders, NoTransport, Transports
<1>6. r \in offered /\ \A k \in Kinds, u \in Holders : At(r, k, u) <=> k = "shared" /\ u = NoTransport
  BY <1>2, <1>4, <1>5, OnlyThere
<1>7. /\ answers' \in [AllRequests -> {0, 1}]
      /\ \A q \in AllRequests : answers'[q] > 0 <=> q \in {r} \/ answers[q] > 0
  BY <1>1, <1>2, <1>5, <1>6, AnswersOnce
<1>8. ASSUME NEW k \in Kinds, NEW u \in Holders
      PROVE  At(r, k, u)' <=> k = "answered" /\ u = NoTransport
  <2>1. At(r, k, u) <=> k = "shared" /\ u = NoTransport
    BY <1>6
  <2>2. CASE u \in Transports
    BY <1>5, <2>1, <2>2 DEF At, Has, Same
  <2>3. CASE u = NoTransport
    BY <1>1, <1>2, <1>3, <1>5, <1>7, <2>1, <2>3 DEF At
  <2> QED BY <2>2, <2>3 DEF Holders
<1>9. \A q \in AllRequests \ {r} : \A k \in Kinds, u \in Holders : At(q, k, u)' <=> At(q, k, u)
  BY <1>1, <1>3, <1>7 DEF At, Has, Same
<1>10. \A u \in Transports : Distinct(m[u].queue)'
  BY DEF RequestInv, Same
<1>11. offered' = offered \cup {r} /\ {r} \in SUBSET AllRequests
  BY <1>1, <1>2, <1>6
<1>12. \A q \in {r} : \E l \in Kinds, v \in Holders : \A k \in Kinds, u \in Holders :
         At(q, k, u)' <=> k = l /\ u = v
  <2> TAKE q \in {r}
  <2> USE <1>5
  <2> WITNESS "answered" \in Kinds, NoTransport \in Holders
  <2> QED BY <1>8
<1> QED BY <1>3, <1>7, <1>9, <1>10, <1>11, <1>12, Relocates

\* The monitor answers the oldest request, or finds the queue empty.
LEMMA TimesOutKeeps ==
    ASSUME RouterInv, RequestInv, NEW t \in Transports, MonitorTimesOut(t), UNCHANGED dropped
    PROVE  RequestInv'
<1>1. CASE m_queue = <<>>
  BY <1>1, CrashKeeps DEF MonitorTimesOut
<1>2. CASE m_queue # <<>>
  <2>1. m \in [Transports -> Members]
    BY DEF RouterInv, Types
  <2>2. PICK y : y = Taken(m[t])
    OBVIOUS
  <2>3. /\ m' = [m EXCEPT ![t] = y] /\ m_queue' = Tail(m_queue) /\ Answer({Head(m_queue)})
        /\ UNCHANGED offered
    BY <1>2, <2>1, <2>2 DEF MonitorTimesOut
  <2>4. Same(m[t], y)
    BY <2>1, <2>2 DEF Taken, Same, Members
  <2>5. \A u \in Transports : Same(m[u], m'[u])
    BY <2>1, <2>3, <2>4 DEF Same
  <2> QED BY <1>2, <2>3, <2>5, FirstAnswered
<1> QED BY <1>1, <1>2

\* A step of t that changes which requests t has: r goes to a place of kind l of t.
Takes(t, y, r, l) ==
    /\ m' = [m EXCEPT ![t] = y]
    /\ UNCHANGED <<answers, dropped>> /\ offered' = offered \cup {r}
    /\ Distinct(m_queue') /\ Distinct(y.queue)
    /\ \A k \in Kinds : Has(y, r, k) <=> k = l
    /\ \A q \in AllRequests \ {r} : \A k \in Kinds : Has(y, q, k) <=> Has(m[t], q, k)
    /\ Elements(m_queue') = Elements(m_queue) \ {r}
    /\ \/ r \notin offered
       \/ At(r, "shared", NoTransport)
       \/ \E k \in {"own", "hand", "handler"} : At(r, k, t)

\* A transport that takes a request from where it is to its next spot keeps the
\* invariant of the requests.
LEMMA TransportTakes ==
    ASSUME RouterInv, RequestInv, NEW t \in Transports, NEW y, NEW r \in AllRequests,
           NEW l \in {"own", "hand", "handler"}, Takes(t, y, r, l)
    PROVE  RequestInv'
<1> USE DEF Takes
<1>1. m \in [Transports -> Members]
  BY DEF RouterInv, Types
<1>2. m'[t] = y /\ \A u \in Transports \ {t} : m'[u] = m[u]
  BY <1>1
<1>3. /\ {"own", "hand", "handler", "shared"} \subseteq Kinds /\ t \in Holders
      /\ NoTransport \in Holders /\ NoTransport \notin Transports
  BY DEF Kinds, Holders, NoTransport, Transports
<1>4. \A k \in Kinds, u \in Holders : At(r, k, u) => u = t \/ (u = NoTransport /\ k = "shared")
  BY <1>3, Nowhere, OnlyThere
<1>5. \A k \in Kinds, u \in Holders : At(r, k, u)' <=> k = l /\ u = t
  <2> SUFFICES ASSUME NEW k \in Kinds, NEW u \in Holders PROVE At(r, k, u)' <=> k = l /\ u = t
    OBVIOUS
  <2>1. CASE u = t
    BY <1>2, <1>3, <2>1 DEF At
  <2>2. CASE u # t /\ u \in Transports
    BY <1>2, <1>3, <1>4, <2>2 DEF At
  <2>3. CASE u = NoTransport
    <3>1. k # "shared" => ~At(r, k, NoTransport)
      BY <1>3, <1>4
    <3> QED BY <1>3, <2>3, <3>1 DEF At
  <2> QED BY <2>1, <2>2, <2>3 DEF Holders
<1>6. \A q \in AllRequests \ {r} : \A k \in Kinds, u \in Holders : At(q, k, u)' <=> At(q, k, u)
  <2> SUFFICES ASSUME NEW q \in AllRequests \ {r}, NEW k \in Kinds, NEW u \in Holders
               PROVE  At(q, k, u)' <=> At(q, k, u)
    OBVIOUS
  <2>1. CASE u = t
    BY <1>2, <1>3, <2>1 DEF At
  <2>2. CASE u # t /\ u \in Transports
    BY <1>2, <1>3, <2>2 DEF At
  <2>3. CASE u = NoTransport
    BY <1>3, <2>3 DEF At
  <2> QED BY <2>1, <2>2, <2>3 DEF Holders
<1>7. \A u \in Transports : Distinct(m[u].queue)'
  BY <1>2 DEF RequestInv
<1>8. answers' \in [AllRequests -> {0, 1}]
  BY DEF RequestInv
<1>9. \A q \in {r} : \E k \in Kinds, u \in Holders : \A j \in Kinds, v \in Holders :
        At(q, j, v)' <=> j = k /\ v = u
  <2> TAKE q \in {r}
  <2> USE <1>3
  <2> WITNESS l \in Kinds, t \in Holders
  <2> QED BY <1>5
<1>10. {r} \in SUBSET AllRequests
  OBVIOUS
<1> QED BY <1>6, <1>7, <1>8, <1>9, <1>10, Relocates

\* A step of t that changes which requests t has: those of R are answered.
Answers(t, y, R) ==
    /\ m' = [m EXCEPT ![t] = y]
    /\ Answer(R) /\ UNCHANGED <<m_queue, dropped>> /\ offered' = offered \cup R
    /\ Distinct(y.queue)
    /\ \A r \in R : \A k \in Kinds : ~Has(y, r, k)
    /\ \A q \in AllRequests \ R : \A k \in Kinds : Has(y, q, k) <=> Has(m[t], q, k)
    /\ \A r \in R : r \notin offered \/ \E k \in {"own", "hand", "handler"} : At(r, k, t)

\* A transport that answers requests it holds keeps the invariant of the requests.
LEMMA TransportAnswers ==
    ASSUME RouterInv, RequestInv, NEW t \in Transports, NEW y,
           NEW R \in SUBSET AllRequests, Answers(t, y, R)
    PROVE  RequestInv'
<1> USE DEF Answers
<1>1. m \in [Transports -> Members]
  BY DEF RouterInv, Types
<1>2. m'[t] = y /\ \A u \in Transports \ {t} : m'[u] = m[u]
  BY <1>1
<1>3. /\ {"own", "hand", "handler", "shared", "answered"} \subseteq Kinds /\ t \in Holders
      /\ NoTransport \in Holders /\ NoTransport \notin Transports
  BY DEF Kinds, Holders, NoTransport, Transports
<1>4. \A r \in R : \A k \in Kinds, u \in Holders : At(r, k, u) => u = t
  BY <1>3, Nowhere, OnlyThere
<1>5. /\ answers' \in [AllRequests -> {0, 1}]
      /\ \A q \in AllRequests : answers'[q] > 0 <=> q \in R \/ answers[q] > 0
  BY <1>3, <1>4, AnswersOnce
<1>6. ASSUME NEW r \in R, NEW k \in Kinds, NEW u \in Holders
      PROVE  At(r, k, u)' <=> k = "answered" /\ u = NoTransport
  <2>1. CASE u = t
    BY <1>2, <1>3, <2>1 DEF At
  <2>2. CASE u # t /\ u \in Transports
    BY <1>2, <1>3, <1>4, <2>2 DEF At
  <2>3. CASE u = NoTransport
    <3>1. ~At(r, k, NoTransport)
      BY <1>3, <1>4
    <3> QED BY <1>3, <1>5, <2>3, <3>1 DEF At
  <2> QED BY <2>1, <2>2, <2>3 DEF Holders
<1>7. ASSUME NEW q \in AllRequests \ R, NEW k \in Kinds, NEW u \in Holders
      PROVE  At(q, k, u)' <=> At(q, k, u)
  <2>1. CASE u = t
    BY <1>2, <1>3, <2>1 DEF At
  <2>2. CASE u # t /\ u \in Transports
    BY <1>2, <1>3, <2>2 DEF At
  <2>3. CASE u = NoTransport
    BY <1>3, <1>5, <2>3 DEF At
  <2> QED BY <2>1, <2>2, <2>3 DEF Holders
<1>8. (\A u \in Transports : Distinct(m[u].queue)') /\ Distinct(m_queue)'
  BY <1>2 DEF RequestInv
<1> QED BY <1>3, <1>5, <1>6, <1>7, <1>8, Relocates

\* What the threads of a transport do with requests.
LEMMA HandlingKeeps ==
    ASSUME RouterInv, RequestInv, NEW t \in Transports, Handling(t), UNCHANGED dropped
    PROVE  RequestInv'
<1>1. PICK x : x = m[t]
  OBVIOUS
<1>2. /\ x \in Members /\ LoopFits(x) /\ Distinct(x.queue) /\ m \in [Transports -> Members]
      /\ m_queue \in Seq(AllRequests) /\ Distinct(m_queue) /\ x.queue \in Seq(AllRequests)
      /\ x.hand \in AllRequests \cup {NoRequest} /\ x.handlers \in SUBSET AllRequests
  BY <1>1 DEF RouterInv, Types, LoopsFit, RequestInv, Members
<1>3. /\ {"own", "hand", "handler", "shared"} \subseteq Kinds /\ t \in Holders
      /\ NoTransport \in Holders /\ NoTransport \notin Transports
  BY DEF Kinds, Holders, NoTransport, Transports
<1>4. \A r \in AllRequests, k \in Kinds : At(r, k, t) <=> Has(x, r, k)
  BY <1>1, <1>3 DEF At
<1>5. \A r \in AllRequests, k, l \in Kinds : Has(x, r, k) /\ Has(x, r, l) => k = l
  BY <1>3, <1>4, OnlyThere
<1>6. \A r \in AllRequests, k \in Kinds : Has(x, r, k) => r \in offered /\ r \notin Elements(m_queue)
  <2> SUFFICES ASSUME NEW r \in AllRequests, NEW k \in Kinds, Has(x, r, k)
               PROVE  r \in offered /\ r \notin Elements(m_queue)
    OBVIOUS
  <2>1. r \in offered /\ \A l \in Kinds, u \in Holders : At(r, l, u) <=> l = k /\ u = t
    BY <1>3, <1>4, OnlyThere
  <2>2. ~At(r, "shared", NoTransport)
    BY <1>3, <2>1
  <2> QED BY <2>1, <2>2 DEF At
<1>7. CASE MonitorTimesOut(t)
  BY <1>7, TimesOutKeeps
<1>8. CASE handleShutdown(t)
  <2>1. PICK y : y = [x EXCEPT !.loop = "closing", !.queue = <<>>, !.downchannel = "none",
                               !.pingHandler = FALSE]
    OBVIOUS
  <2>2. PICK R : R = Elements(x.queue)
    OBVIOUS
  <2>3. m' = [m EXCEPT ![t] = y] /\ Answer(R) /\ UNCHANGED <<m_queue, offered>>
    BY <1>1, <1>2, <1>8, <2>1, <2>2 DEF handleShutdown
  <2>4. y.queue = <<>> /\ y.hand = x.hand /\ y.handlers = x.handlers
    BY <1>2, <2>1 DEF Members
  <2>5. Distinct(y.queue) /\ Elements(y.queue) = {}
    BY <2>4 DEF Distinct, Elements
  <2>6. R \in SUBSET AllRequests
    BY <1>2, <2>2 DEF Elements
  <2>7. \A r \in R : Has(x, r, "own") /\ \A k \in Kinds : Has(x, r, k) => k = "own"
    BY <1>3, <1>5, <2>2, <2>6 DEF Has
  <2>8. \A r \in R : \A k \in Kinds : ~Has(y, r, k)
    BY <2>4, <2>5, <2>7 DEF Has
  <2>9. \A q \in AllRequests \ R : \A k \in Kinds : Has(y, q, k) <=> Has(x, q, k)
    BY <2>2, <2>4, <2>5 DEF Has
  <2>10. \A r \in R : \E k \in {"own", "hand", "handler"} : At(r, k, t)
    BY <1>3, <1>4, <2>6, <2>7
  <2>11. offered' = offered \cup R
    BY <1>3, <1>6, <2>3, <2>6, <2>7
  <2>12. Answers(t, y, R)
    BY <1>1, <2>3, <2>5, <2>6, <2>8, <2>9, <2>10, <2>11 DEF Answers
  <2> QED BY <1>1, <2>3, <2>5, <2>6, <2>8, <2>9, <2>10, <2>11, <2>12, TransportAnswers
<1>9. CASE DequeueOwn(t)
  <2>1. PICK y, r : y = [x EXCEPT !.hand = r, !.queue = Tail(@)] /\ r = Head(x.queue)
    OBVIOUS
  <2>2. /\ x.hand = NoRequest /\ x.queue # <<>> /\ m' = [m EXCEPT ![t] = y]
        /\ UNCHANGED <<m_queue, offered, answers>>
    BY <1>1, <1>9, <2>1 DEF DequeueOwn, Sending, Only
  <2>3. r \in AllRequests /\ Elements(x.queue) = {r} \cup Elements(Tail(x.queue))
    BY <1>2, <2>1, <2>2, TailElements
  <2>4. Distinct(Tail(x.queue)) /\ Elements(Tail(x.queue)) = Elements(x.queue) \ {r}
    BY <1>2, <2>1, <2>2, TailDistinct
  <2>5. y.queue = Tail(x.queue) /\ y.hand = r /\ y.handlers = x.handlers
    BY <1>2, <2>1 DEF Members
  <2>6. Has(x, r, "own") /\ \A k \in Kinds : Has(x, r, k) => k = "own"
    BY <1>3, <1>5, <2>3 DEF Has
  <2>7. \A k \in Kinds : Has(y, r, k) <=> k = "hand"
    BY <2>4, <2>5, <2>6 DEF Has, Kinds
  <2>8. \A q \in AllRequests \ {r} : \A k \in Kinds : Has(y, q, k) <=> Has(x, q, k)
    BY <2>2, <2>4, <2>5 DEF Has
  <2>9. At(r, "own", t) /\ r \in offered /\ r \notin Elements(m_queue)
    BY <1>3, <1>4, <1>6, <2>3, <2>6
  <2>10. offered' = offered \cup {r} /\ Elements(m_queue') = Elements(m_queue) \ {r}
    BY <2>2, <2>9
  <2>11. Distinct(m_queue') /\ Distinct(y.queue)
    BY <1>2, <2>2, <2>4, <2>5
  <2>12. \/ r \notin offered \/ At(r, "shared", NoTransport)
         \/ \E k \in {"own", "hand", "handler"} : At(r, k, t)
    BY <2>9
  <2>13. \A q \in AllRequests \ {r} : \A k \in Kinds : Has(y, q, k) <=> Has(m[t], q, k)
    BY <1>1, <2>8
  <2>14. "hand" \in {"own", "hand", "handler"} /\ UNCHANGED <<answers, dropped>>
    BY <2>2
  <2>15. Takes(t, y, r, "hand")
    BY <2>2, <2>3, <2>7, <2>10, <2>11, <2>12, <2>13, <2>14 DEF Takes
  <2> QED BY <2>2, <2>3, <2>7, <2>10, <2>11, <2>12, <2>13, <2>14, <2>15, TransportTakes
<1>10. ASSUME NEW i \in DOMAIN m_queue, x.seen,
              m' = [m EXCEPT ![t] = [Taken(@) EXCEPT !.hand = m_queue[i]]],
              m_queue' = RemoveAt(m_queue, i), UNCHANGED <<offered, answers>>
       PROVE  RequestInv'
  <2>2. PICK y, r : y = [x EXCEPT !.seen = FALSE, !.hand = r] /\ r = m_queue[i]
    OBVIOUS
  <2>3. x.hand = NoRequest /\ m' = [m EXCEPT ![t] = y] /\ UNCHANGED <<offered, answers>>
    BY <1>1, <1>2, <1>10, <2>2 DEF LoopFits, Taken, Members
  <2>4. r \in AllRequests /\ r \in Elements(m_queue) /\ i \in 1..Len(m_queue)
    BY <1>2, <2>2 DEF Elements
  <2>5. Distinct(m_queue') /\ Elements(m_queue') = Elements(m_queue) \ {r}
    BY <1>2, <1>10, <2>2, <2>4, RemoveAtDistinct
  <2>6. y.queue = x.queue /\ y.hand = r /\ y.handlers = x.handlers
    BY <1>2, <2>2 DEF Members
  <2>7. At(r, "shared", NoTransport)
    BY <2>4 DEF At
  <2>8. r \in offered /\ \A k \in Kinds : ~Has(x, r, k)
    <3>1. r \in offered
      BY <1>3, <2>4, <2>7, OnlyThere
    <3> QED BY <1>6, <2>4, <3>1
  <2>9. \A k \in Kinds : Has(y, r, k) <=> k = "hand"
    BY <2>6, <2>8 DEF Has, Kinds
  <2>10. \A q \in AllRequests \ {r} : \A k \in Kinds : Has(y, q, k) <=> Has(x, q, k)
    BY <2>3, <2>6 DEF Has
  <2>11. offered' = offered \cup {r} /\ Distinct(y.queue)
    BY <1>2, <2>3, <2>6, <2>8
  <2>12. \/ r \notin offered \/ At(r, "shared", NoTransport)
         \/ \E k \in {"own", "hand", "handler"} : At(r, k, t)
    BY <2>7
  <2>13. \A q \in AllRequests \ {r} : \A k \in Kinds : Has(y, q, k) <=> Has(m[t], q, k)
    BY <1>1, <2>10
  <2>14. "hand" \in {"own", "hand", "handler"} /\ UNCHANGED <<answers, dropped>>
    BY <2>3
  <2>15. Takes(t, y, r, "hand")
    BY <2>3, <2>4, <2>5, <2>9, <2>11, <2>12, <2>13, <2>14 DEF Takes
  <2> QED BY <2>3, <2>4, <2>5, <2>9, <2>11, <2>12, <2>13, <2>14, <2>15, TransportTakes
<1>11. CASE SendRequest(t)
  <2>1. PICK y, r : /\ y = [x EXCEPT !.hand = NoRequest, !.handlers = @ \cup {r},
                                     !.unacknowledged = @ \cup {r}]
                    /\ r = x.hand
    OBVIOUS
  <2>2. r # NoRequest /\ m' = [m EXCEPT ![t] = y] /\ UNCHANGED <<m_queue, offered, answers>>
    BY <1>1, <1>2, <1>11, <2>1 DEF SendRequest
  <2>3. r \in AllRequests /\ Has(x, r, "hand")
    BY <1>2, <2>1, <2>2 DEF Has
  <2>4. y.queue = x.queue /\ y.hand = NoRequest /\ y.handlers = x.handlers \cup {r}
    BY <1>2, <2>1 DEF Members
  <2>5. \A k \in Kinds : Has(x, r, k) => k = "hand"
    BY <1>3, <1>5, <2>3
  <2>6. \A k \in Kinds : Has(y, r, k) <=> k = "handler"
    BY <2>2, <2>4, <2>5 DEF Has, Kinds
  <2>7. \A q \in AllRequests \ {r} : \A k \in Kinds : Has(y, q, k) <=> Has(x, q, k)
    BY <2>1, <2>4 DEF Has
  <2>8. At(r, "hand", t) /\ r \in offered /\ r \notin Elements(m_queue)
    BY <1>3, <1>4, <1>6, <2>3
  <2>9. offered' = offered \cup {r} /\ Elements(m_queue') = Elements(m_queue) \ {r}
    BY <2>2, <2>8
  <2>10. Distinct(m_queue') /\ Distinct(y.queue)
    BY <1>2, <2>2, <2>4
  <2>11. \/ r \notin offered \/ At(r, "shared", NoTransport)
         \/ \E k \in {"own", "hand", "handler"} : At(r, k, t)
    BY <2>8
  <2>12. \A q \in AllRequests \ {r} : \A k \in Kinds : Has(y, q, k) <=> Has(m[t], q, k)
    BY <1>1, <2>7
  <2>13. "handler" \in {"own", "hand", "handler"} /\ UNCHANGED <<answers, dropped>>
    BY <2>2
  <2>14. Takes(t, y, r, "handler")
    BY <2>2, <2>3, <2>6, <2>9, <2>10, <2>11, <2>12, <2>13 DEF Takes
  <2> QED BY <2>2, <2>3, <2>6, <2>9, <2>10, <2>11, <2>12, <2>13, <2>14, TransportTakes
<1>12. CASE SendRequestFails(t)
  <2>1. PICK y, r : y = [x EXCEPT !.hand = NoRequest] /\ r = x.hand
    OBVIOUS
  <2>2. r # NoRequest /\ m' = [m EXCEPT ![t] = y] /\ UNCHANGED <<m_queue, offered>> /\ Answer({r})
    BY <1>1, <1>2, <1>12, <2>1 DEF SendRequestFails
  <2>3. r \in AllRequests /\ Has(x, r, "hand")
    BY <1>2, <2>1, <2>2 DEF Has
  <2>4. y.queue = x.queue /\ y.hand = NoRequest /\ y.handlers = x.handlers
    BY <1>2, <2>1 DEF Members
  <2>5. \A k \in Kinds : Has(x, r, k) => k = "hand"
    BY <1>3, <1>5, <2>3
  <2>6. \A k \in Kinds : ~Has(y, r, k)
    BY <2>2, <2>4, <2>5 DEF Has
  <2>7. \A q \in AllRequests \ {r} : \A k \in Kinds : Has(y, q, k) <=> Has(x, q, k)
    BY <2>1, <2>4 DEF Has
  <2>8. At(r, "hand", t) /\ r \in offered
    BY <1>3, <1>4, <1>6, <2>3
  <2>9. offered' = offered \cup {r} /\ Distinct(y.queue) /\ {r} \in SUBSET AllRequests
    BY <1>2, <2>2, <2>3, <2>4, <2>8
  <2>10. Answers(t, y, {r})
    BY <1>1, <2>2, <2>6, <2>7, <2>8, <2>9 DEF Answers
  <2> QED BY <1>1, <2>2, <2>6, <2>7, <2>8, <2>9, <2>10, TransportAnswers
<1>13. ASSUME NEW r \in AllRequests, onResponseFinished(t, r) PROVE RequestInv'
  <2>1. PICK y : y = [x EXCEPT !.unacknowledged = @ \ {r}, !.handlers = @ \ {r}]
    OBVIOUS
  <2>2. /\ r \in x.handlers /\ m' = [m EXCEPT ![t] = y] /\ UNCHANGED <<m_queue, offered>>
        /\ Answer({r})
    BY <1>1, <1>2, <1>13, <2>1 DEF onResponseFinished, Finished
  <2>3. Has(x, r, "handler")
    BY <2>2 DEF Has
  <2>4. y.queue = x.queue /\ y.hand = x.hand /\ y.handlers = x.handlers \ {r}
    BY <1>2, <2>1 DEF Members
  <2>5. \A k \in Kinds : Has(x, r, k) => k = "handler"
    BY <1>3, <1>5, <2>3
  <2>6. \A k \in Kinds : ~Has(y, r, k)
    BY <2>4, <2>5 DEF Has
  <2>7. \A q \in AllRequests \ {r} : \A k \in Kinds : Has(y, q, k) <=> Has(x, q, k)
    BY <2>4 DEF Has
  <2>8. At(r, "handler", t) /\ r \in offered
    BY <1>3, <1>4, <1>6, <2>3
  <2>9. offered' = offered \cup {r} /\ Distinct(y.queue) /\ {r} \in SUBSET AllRequests
    BY <1>2, <2>2, <2>4, <2>8
  <2>10. Answers(t, y, {r})
    BY <1>1, <2>2, <2>6, <2>7, <2>8, <2>9 DEF Answers
  <2> QED BY <1>1, <2>2, <2>6, <2>7, <2>8, <2>9, <2>10, TransportAnswers
<1>14. ASSUME NEW r \in PostRequests, sendMessage(t, r) PROVE RequestInv'
  <2>1. r \in AllRequests /\ r \notin offered /\ offered' = offered \cup {r} /\ UNCHANGED m_queue
    BY <1>14 DEF sendMessage, AllRequests
  <2>2. \A k \in Kinds : ~Has(x, r, k)
    BY <1>6, <2>1
  <2>3. CASE UNCHANGED m /\ Answer({r})
    <3>1. m' = [m EXCEPT ![t] = x] /\ {r} \in SUBSET AllRequests
      BY <1>1, <1>2, <2>1, <2>3
    <3>2. \A q \in {r} : \A k \in Kinds : ~Has(x, q, k)
      BY <2>2
    <3>3. \A q \in AllRequests \ {r} : \A k \in Kinds : Has(x, q, k) <=> Has(m[t], q, k)
      BY <1>1
    <3>4. \A q \in {r} : q \notin offered
      BY <2>1
    <3>5. Answers(t, x, {r})
      BY <1>2, <2>1, <2>3, <3>1, <3>2, <3>3, <3>4 DEF Answers
    <3> QED BY <1>2, <2>1, <2>3, <3>1, <3>2, <3>3, <3>4, <3>5, TransportAnswers
  <2>4. CASE m' = [m EXCEPT ![t].queue = Append(@, r)] /\ UNCHANGED answers
    <3>1. PICK y : y = [x EXCEPT !.queue = Append(@, r)]
      OBVIOUS
    <3>2. m' = [m EXCEPT ![t] = y] /\ y.queue = Append(x.queue, r) /\ y.hand = x.hand /\ y.handlers = x.handlers
      BY <1>1, <1>2, <2>4, <3>1 DEF Members
    <3>3. Elements(y.queue) = Elements(x.queue) \cup {r}
      BY <1>2, <2>1, <3>2, AppendElements
    <3>4. r \notin Elements(x.queue) /\ r \notin Elements(m_queue)
      <4>1. ~At(r, "shared", NoTransport)
        BY <1>3, <2>1, Nowhere
      <4> QED BY <1>3, <2>2, <4>1 DEF Has, At
    <3>5. Distinct(y.queue)
      BY <1>2, <2>1, <3>2, <3>4, AppendDistinct
    <3>6. \A k \in Kinds : Has(y, r, k) <=> k = "own"
      BY <2>2, <3>2, <3>3 DEF Has, Kinds
    <3>7. \A q \in AllRequests \ {r} : \A k \in Kinds : Has(y, q, k) <=> Has(x, q, k)
      BY <3>2, <3>3 DEF Has
    <3>8. Elements(m_queue') = Elements(m_queue) \ {r} /\ Distinct(m_queue')
      BY <1>2, <2>1, <3>4
    <3>9. \A q \in AllRequests \ {r} : \A k \in Kinds : Has(y, q, k) <=> Has(m[t], q, k)
      BY <1>1, <3>7
    <3>10. "own" \in {"own", "hand", "handler"} /\ UNCHANGED <<answers, dropped>>
      BY <2>4
    <3>11. Takes(t, y, r, "own")
      BY <2>1, <3>2, <3>5, <3>6, <3>8, <3>9, <3>10 DEF Takes
    <3> QED BY <2>1, <3>2, <3>5, <3>6, <3>8, <3>9, <3>10, <3>11, TransportTakes
  <2> QED BY <1>14, <2>3, <2>4 DEF sendMessage
<1>15. CASE DequeueShared(t)
  <2>1. CASE Only(t, Crashed(m[t]))
    BY <2>1, CrashKeeps
  <2>2. x.seen
    BY <1>1, <1>15 DEF DequeueShared
  <2> QED BY <1>10, <1>15, <2>1, <2>2 DEF DequeueShared, FirstSendable
<1> QED BY <1>7, <1>8, <1>9, <1>11, <1>12, <1>13, <1>14, <1>15 DEF Handling

\* The router changes the state of transports, creates them and lets their loops go on;
\* their requests stay where they are.
LEMMA CreatesSame ==
    ASSUME NEW mm \in [Transports -> Members], NEW transports, NEW status,
           created \in Nat, createActiveTransportLocked(mm, transports, status)
    PROVE  \A t \in Transports : Same(mm[t], m'[t])
<1>1. CASE m' = mm
  BY <1>1 DEF Same
<1>2. CASE /\ created < N /\ created' = created + 1
           /\ m' = [mm EXCEPT ![created'] =
                  [setStateLocked(@, "AUTHORIZING", "RECOVERABLE") EXCEPT !.loop = "start"]]
  <2>1. created' \in Transports
    BY <1>2 DEF Transports
  <2> DEFINE x == mm[created']
  <2> DEFINE z == setStateLocked(x, "AUTHORIZING", "RECOVERABLE")
  <2>2. z \in Members /\ Same(x, z)
    BY <2>1, SetStateSame DEF State, Reasons
  <2>3. m' = [mm EXCEPT ![created'] = [z EXCEPT !.loop = "start"]]
    BY <1>2, <2>1
  <2> HIDE DEF z
  <2>4. Same(x, [z EXCEPT !.loop = "start"])
    BY <2>2 DEF Same, Members
  <2> HIDE DEF x
  <2>5. m'[created'] = [z EXCEPT !.loop = "start"] /\ \A t \in Transports \ {created'} : m'[t] = mm[t]
    BY <2>1, <2>3
  <2>6. \A t \in Transports \ {created'} : Same(mm[t], m'[t])
    BY <2>5 DEF Same
  <2>7. Same(mm[created'], m'[created'])
    BY <2>4, <2>5 DEF x
  <2> QED BY <2>6, <2>7
<1> QED BY <1>1, <1>2 DEF createActiveTransportLocked

\* Going on to the next function of the main loop moves no request.
LEMMA NextLoopSame ==
    ASSUME NEW t \in Transports, Types, LoopsFit,
           m[t].loop \in {"CONNECTED", "SERVER_SIDE_DISCONNECT", "closing"}
    PROVE  \A u \in Transports : Same(m[u], NextLoop(t)[u])
<1> DEFINE x == [m[t] EXCEPT !.post = "none", !.stopping = FALSE]
<1> DEFINE y == CASE x.loop = "CONNECTED"              -> [x EXCEPT !.loop = "connected"]
                  [] x.loop = "SERVER_SIDE_DISCONNECT" -> [x EXCEPT !.loop = "DISCONNECTING"]
                  [] x.loop = "closing" ->
                       [NewTransport EXCEPT !.state = "SHUTDOWN", !.loop = "ended",
                            !.handlers = x.handlers, !.unacknowledged = x.unacknowledged]
<1>1. NextLoop(t) = [m EXCEPT ![t] = y]
  BY DEF NextLoop
<1>2. m[t] \in Members /\ LoopFits(m[t]) /\ m \in [Transports -> Members]
  BY DEF Types, LoopsFit
<1>3. x \in Members /\ x.loop = m[t].loop /\ Same(m[t], x)
  BY <1>2 DEF Members, Same
<1> HIDE DEF x
<1>4. CASE m[t].loop \in {"CONNECTED", "SERVER_SIDE_DISCONNECT"}
  <2>1. y = [x EXCEPT !.loop = "connected"] \/ y = [x EXCEPT !.loop = "DISCONNECTING"]
    BY <1>3, <1>4
  <2> HIDE DEF y
  <2>2. Same(m[t], y)
    BY <1>3, <2>1 DEF Same, Members
  <2> QED BY <1>1, <1>2, <2>2 DEF Same
<1>5. CASE m[t].loop = "closing"
  <2>1. y = [NewTransport EXCEPT !.state = "SHUTDOWN", !.loop = "ended",
                            !.handlers = x.handlers, !.unacknowledged = x.unacknowledged]
    BY <1>3, <1>5
  <2> HIDE DEF y
  <2>2. y.queue = <<>> /\ y.hand = NoRequest /\ y.handlers = x.handlers
    BY <2>1 DEF NewTransport
  <2>3. m[t].queue = <<>> /\ m[t].hand = NoRequest
    BY <1>2, <1>5 DEF LoopFits
  <2>4. Same(m[t], y)
    BY <1>3, <2>2, <2>3 DEF Same
  <2> QED BY <1>1, <1>2, <2>4 DEF Same
<1> QED BY <1>4, <1>5

\* The calls of the router that create, release and join transports move no request.
LEMMA RouterSame ==
    ASSUME RouterInv,
           \/ enable \/ disable \/ (\E c \in GatewayClients : setAVSGateway(c))
           \/ (\E c \in Clients : ShutdownTransport(c) \/ JoinTransport(c) \/ setAVSGatewayReturns(c))
           \/ disableReturns \/ onWakeConnectionRetry
           \/ (\E t \in Transports : ObserverCalls(t)) \/ UNCHANGED vars
    PROVE  /\ \A t \in Transports : Same(m[t], m'[t])
           /\ UNCHANGED <<m_queue, offered, answers, dropped>>
<1>1. m \in [Transports -> Members] /\ Types /\ LoopsFit /\ created \in Nat
  BY DEF RouterInv, Types
<1>2. ASSUME UNCHANGED m PROVE \A t \in Transports : Same(m[t], m'[t])
  BY <1>2 DEF Same
<1>3. ASSUME NEW t \in Transports, NEW s \in State,
             m' = [m EXCEPT ![t] = setStateLocked(@, s, "RECOVERABLE")]
      PROVE  \A u \in Transports : Same(m[u], m'[u])
  <2> DEFINE z == setStateLocked(m[t], s, "RECOVERABLE")
  <2>1. Same(m[t], z)
    BY <1>1, SetStateSame DEF Reasons
  <2>2. m' = [m EXCEPT ![t] = z]
    BY <1>3
  <2> HIDE DEF z
  <2> QED BY <1>1, <2>1, <2>2 DEF Same
<1>4. CASE enable \/ \E c \in Clients : setAVSGatewayReturns(c)
  <2>1. \/ UNCHANGED m \/ \E status : createActiveTransportLocked(m, m_transports, status)
    BY <1>4 DEF enable, setAVSGatewayReturns
  <2>2. UNCHANGED <<m_queue, offered, answers, dropped>>
    BY <1>4 DEF enable, setAVSGatewayReturns, queueVars
  <2> QED BY <1>1, <1>2, <2>1, <2>2, CreatesSame
<1>5. CASE disable \/ disableReturns \/ (\E c \in GatewayClients : setAVSGateway(c))
           \/ (\E c \in Clients : JoinTransport(c)) \/ UNCHANGED vars
  <2>1. UNCHANGED <<transportVars, dropped>>
    BY <1>5 DEF disable, disableReturns, setAVSGateway, JoinTransport, vars, routerVars, clientVars
  <2> QED BY <1>2, <2>1 DEF transportVars
<1>6. ASSUME NEW c \in Clients, ShutdownTransport(c)
      PROVE  /\ \A t \in Transports : Same(m[t], m'[t])
             /\ UNCHANGED <<m_queue, offered, answers, dropped>>
  <2>1. PICK t : t = Head(moved[c])
    OBVIOUS
  <2>2. /\ moved[c] # <<>> /\ m' = [m EXCEPT ![t] = setStateLocked(@, "SHUTDOWN", "RECOVERABLE")]
        /\ UNCHANGED <<m_queue, offered, answers, dropped>>
    BY <1>6, <2>1 DEF ShutdownTransport, queueVars, routerVars, clientVars
  <2>3. moved[c] \in Seq(Transports)
    BY DEF RouterInv, Types
  <2>4. t \in Transports /\ "SHUTDOWN" \in State
    BY <2>1, <2>2, <2>3 DEF State
  <2> QED BY <1>3, <2>2, <2>4
<1>7. CASE onWakeConnectionRetry
  <2>1. PICK t : t = m_activeTransport
    OBVIOUS
  <2>2. /\ t # NoTransport /\ m' = [m EXCEPT ![t] = setStateLocked(@, "CONNECTING", "RECOVERABLE")]
        /\ UNCHANGED <<m_queue, offered, answers, dropped>>
    BY <1>7, <2>1 DEF onWakeConnectionRetry, queueVars, routerVars, clientVars
  <2>3. t \in Transports /\ "CONNECTING" \in State
    BY <2>1, <2>2 DEF RouterInv, Types, State
  <2> QED BY <1>3, <2>2, <2>3
<1>8. ASSUME NEW t \in Transports, ObserverCalls(t)
      PROVE  /\ \A u \in Transports : Same(m[u], m'[u])
             /\ UNCHANGED <<m_queue, offered, answers, dropped>>
  <2>1. /\ m[t].loop \in {"CONNECTED", "SERVER_SIDE_DISCONNECT", "closing"}
        /\ UNCHANGED <<m_queue, offered, answers, dropped>>
    BY <1>8 DEF ObserverCalls, onConnected, onServerSideDisconnect, onDisconnected,
         handleConnected, handleServerSideDisconnect, handleShutdownNotifies, queueVars, clientVars
  <2>2. \/ m' = NextLoop(t)
        \/ \E transports, status : createActiveTransportLocked(NextLoop(t), transports, status)
    BY <1>8 DEF ObserverCalls, onConnected, onServerSideDisconnect, onDisconnected, ActiveDisconnected
  <2>3. NextLoop(t) \in [Transports -> Members]
    BY <1>1, <2>1, NextLoops
  <2>4. \A u \in Transports : Same(m[u], NextLoop(t)[u])
    BY <1>1, <2>1, NextLoopSame
  <2>5. CASE m' = NextLoop(t)
    BY <2>1, <2>4, <2>5
  <2>6. ASSUME NEW transports, NEW status, createActiveTransportLocked(NextLoop(t), transports, status)
        PROVE  \A u \in Transports : Same(m[u], m'[u])
    <3>1. \A u \in Transports : Same(NextLoop(t)[u], m'[u])
      BY <1>1, <2>3, <2>6, CreatesSame
    <3> QED BY <2>4, <3>1 DEF Same
  <2> QED BY <2>1, <2>2, <2>5, <2>6
<1> QED BY <1>4, <1>5, <1>6, <1>7, <1>8

\* doShutdown answers the first request of the shared queue.
LEMMA DoShutdownKeeps == RouterInv /\ RequestInv /\ doShutdown => RequestInv'
<1> SUFFICES ASSUME RouterInv, RequestInv, doShutdown PROVE RequestInv'
  OBVIOUS
<1>1. /\ UNCHANGED <<m, offered, dropped>> /\ m_queue \in Seq(AllRequests)
      /\ answers \in [AllRequests -> {0, 1}]
  BY DEF doShutdown, RouterInv, Types, RequestInv
<1>2. \A u \in Transports : Same(m[u], m'[u])
  BY <1>1 DEF Same
<1>3. CASE m_queue = <<>>
  <2>1. AnsweredAtShutdown = {} /\ UNCHANGED m_queue
    BY <1>3 DEF AnsweredAtShutdown, doShutdown
  <2>2. UNCHANGED answers
    BY <1>1, <2>1 DEF doShutdown, Answer
  <2> QED BY <1>1, <1>2, <2>1, <2>2, NothingMoves
<1>4. CASE m_queue # <<>>
  <2>1. AnsweredAtShutdown = {Head(m_queue)}
    BY <1>1, <1>4 DEF AnsweredAtShutdown
  <2>2. m_queue' = Tail(m_queue) /\ Answer({Head(m_queue)})
    BY <1>4, <2>1 DEF doShutdown
  <2> QED BY <1>1, <1>2, <1>4, <2>2, FirstAnswered
<1> QED BY <1>3, <1>4

\* Then it clears the others away.
LEMMA DoShutdownClearsKeeps == RouterInv /\ RequestInv /\ doShutdownClears => RequestInv'
<1> SUFFICES ASSUME RouterInv, RequestInv, doShutdownClears PROVE RequestInv'
  OBVIOUS
<1>1. PICK R : R = Elements(m_queue)
  OBVIOUS
<1>2. /\ dropped' = dropped \cup R /\ m_queue' = <<>> /\ UNCHANGED <<m, offered, answers>>
      /\ m_queue \in Seq(AllRequests) /\ answers \in [AllRequests -> {0, 1}]
  BY <1>1 DEF doShutdownClears, RouterInv, Types, RequestInv
<1>3. R \in SUBSET AllRequests
  BY <1>1, <1>2 DEF Elements
<1>4. Elements(m_queue') = {} /\ Distinct(m_queue')
  BY <1>2 DEF Elements, Distinct
<1>5. /\ {"shared", "dropped", "answered"} \subseteq Kinds
      /\ NoTransport \in Holders /\ NoTransport \notin Transports
  BY DEF Kinds, Holders, NoTransport, Transports
<1>6. \A r \in R : r \in offered /\ \A k \in Kinds, u \in Holders : At(r, k, u) <=> k = "shared" /\ u = NoTransport
  <2> SUFFICES ASSUME NEW r \in R
               PROVE  r \in offered /\ \A k \in Kinds, u \in Holders :
                                          At(r, k, u) <=> k = "shared" /\ u = NoTransport
    OBVIOUS
  <2>1. At(r, "shared", NoTransport) /\ r \in AllRequests
    BY <1>1, <1>3 DEF At
  <2> QED BY <1>5, <2>1, OnlyThere
<1>7. ASSUME NEW r \in R
      PROVE  \A k \in Kinds, u \in Holders : At(r, k, u)' <=> k = "dropped" /\ u = NoTransport
  <2> SUFFICES ASSUME NEW k \in Kinds, NEW u \in Holders
               PROVE  At(r, k, u)' <=> k = "dropped" /\ u = NoTransport
    OBVIOUS
  <2>1. At(r, k, u) <=> k = "shared" /\ u = NoTransport
    BY <1>6
  <2>2. CASE u \in Transports
    BY <1>2, <1>5, <2>1, <2>2 DEF At
  <2>3. CASE u = NoTransport
    BY <1>2, <1>3, <1>4, <1>5, <2>1, <2>3 DEF At
  <2> QED BY <2>2, <2>3 DEF Holders
<1>8. ASSUME NEW q \in AllRequests \ R, NEW k \in Kinds, NEW u \in Holders
      PROVE  At(q, k, u)' <=> At(q, k, u)
  <2>1. CASE u \in Transports
    BY <1>2, <1>5, <2>1 DEF At
  <2>2. CASE u = NoTransport
    BY <1>1, <1>2, <1>3, <1>4, <1>5, <2>2 DEF At
  <2> QED BY <2>1, <2>2 DEF Holders
<1>9. \A r \in R : \E l \in Kinds, v \in Holders : \A k \in Kinds, u \in Holders :
        At(r, k, u)' <=> k = l /\ u = v
  <2> TAKE r \in R
  <2> USE <1>5
  <2> WITNESS "dropped" \in Kinds, NoTransport \in Holders
  <2> QED BY <1>7
<1>10. offered' = offered \cup R
  BY <1>2, <1>6
<1>11. \A u \in Transports : Distinct(m[u].queue)'
  BY <1>2 DEF RequestInv
<1> QED BY <1>2, <1>3, <1>4, <1>8, <1>9, <1>10, <1>11, Relocates

\* A client's message joins the shared queue, or is answered when there is no transport.
LEMMA RouterSendKeeps ==
    ASSUME RouterInv, RequestInv, NEW r \in Requests, routerSendMessage(r)
    PROVE  RequestInv'
<1>1. /\ r \in AllRequests /\ r \notin offered /\ offered' = offered \cup {r}
      /\ UNCHANGED <<m, dropped>> /\ m_queue \in Seq(AllRequests)
  BY DEF routerSendMessage, AllRequests, routerVars, clientVars, RouterInv, Types
<1>2. /\ {"shared", "answered"} \subseteq Kinds
      /\ NoTransport \in Holders /\ NoTransport \notin Transports
  BY DEF Kinds, Holders, NoTransport, Transports
<1>3. \A k \in Kinds, u \in Holders : ~At(r, k, u)
  BY <1>1, Nowhere
<1>4. r \notin Elements(m_queue)
  BY <1>2, <1>3 DEF At
<1>5. \A u \in Transports : Distinct(m[u].queue)'
  BY <1>1 DEF RequestInv
<1>6. ASSUME NEW l \in Kinds,
             \A k \in Kinds, u \in Holders : At(r, k, u)' <=> k = l /\ u = NoTransport,
             \A q \in AllRequests \ {r} : \A k \in Kinds, u \in Holders : At(q, k, u)' <=> At(q, k, u),
             answers' \in [AllRequests -> {0, 1}], Distinct(m_queue')
      PROVE  RequestInv'
  <2>1. \A q \in {r} : \E j \in Kinds, v \in Holders : \A k \in Kinds, u \in Holders :
          At(q, k, u)' <=> k = j /\ u = v
    <3> TAKE q \in {r}
    <3> USE <1>2
    <3> WITNESS l \in Kinds, NoTransport \in Holders
    <3> QED BY <1>6
  <2>2. {r} \in SUBSET AllRequests
    BY <1>1
  <2> QED BY <1>1, <1>5, <1>6, <2>1, <2>2, Relocates
<1>7. CASE m_queue' = Append(m_queue, r) /\ UNCHANGED answers
  <2>1. Elements(m_queue') = Elements(m_queue) \cup {r}
    BY <1>1, <1>7, AppendElements
  <2>2. Distinct(m_queue')
    BY <1>1, <1>4, <1>7, AppendDistinct DEF RequestInv
  <2>3. ASSUME NEW k \in Kinds, NEW u \in Holders PROVE At(r, k, u)' <=> k = "shared" /\ u = NoTransport
    <3>1. ~At(r, k, u)
      BY <1>3
    <3> QED BY <1>1, <1>2, <1>7, <2>1, <3>1 DEF At
  <2>4. ASSUME NEW q \in AllRequests \ {r}, NEW k \in Kinds, NEW u \in Holders
        PROVE  At(q, k, u)' <=> At(q, k, u)
    BY <1>1, <1>7, <2>1 DEF At
  <2>5. answers' \in [AllRequests -> {0, 1}]
    BY <1>7 DEF RequestInv
  <2> QED BY <1>2, <1>6, <2>2, <2>3, <2>4, <2>5
<1>8. CASE Answer({r}) /\ UNCHANGED m_queue
  <2>1. /\ answers' \in [AllRequests -> {0, 1}]
        /\ \A q \in AllRequests : answers'[q] > 0 <=> q \in {r} \/ answers[q] > 0
    <3>1. {r} \in SUBSET AllRequests /\ \A q \in {r} : ~At(q, "answered", NoTransport)
      BY <1>1, <1>2, <1>3
    <3> QED BY <1>8, <3>1, AnswersOnce
  <2>2. Distinct(m_queue')
    BY <1>8 DEF RequestInv
  <2>3. ASSUME NEW k \in Kinds, NEW u \in Holders PROVE At(r, k, u)' <=> k = "answered" /\ u = NoTransport
    <3>1. ~At(r, k, u)
      BY <1>3
    <3> QED BY <1>1, <1>2, <1>8, <2>1, <3>1 DEF At
  <2>4. ASSUME NEW q \in AllRequests \ {r}, NEW k \in Kinds, NEW u \in Holders
        PROVE  At(q, k, u)' <=> At(q, k, u)
    BY <1>1, <1>8, <2>1 DEF At
  <2> QED BY <1>2, <1>6, <2>1, <2>2, <2>3, <2>4
<1> QED BY <1>7, <1>8 DEF routerSendMessage

\* The invariant of the requests holds at the start.
LEMMA RequestInvInit == Init => RequestInv
<1> SUFFICES ASSUME Init PROVE RequestInv
  OBVIOUS
<1>1. /\ m_queue = <<>> /\ offered = {} /\ answers = [r \in AllRequests |-> 0] /\ dropped = {}
      /\ \A t \in Transports : m[t] = NewTransport
  BY DEF Init, TransportInit
<1>2. NewTransport.queue = <<>> /\ NewTransport.hand = NoRequest /\ NewTransport.handlers = {}
  BY DEF NewTransport
<1>3. Elements(<<>>) = {} /\ Distinct(<<>>)
  BY DEF Elements, Distinct
<1>4. ASSUME NEW r \in AllRequests, NEW k \in Kinds, NEW t \in Holders PROVE ~At(r, k, t)
  <2>1. r # NoRequest
    OBVIOUS
  <2>2. \A u \in Transports : ~Has(m[u], r, k)
    BY <1>1, <1>2, <1>3, <2>1 DEF Has
  <2> QED BY <1>1, <1>3, <2>2 DEF At
<1>5. \A r \in AllRequests : OneSpot(r)
  BY <1>1, <1>4 DEF OneSpot
<1> QED BY <1>1, <1>2, <1>3, <1>5 DEF RequestInv

\* Every step keeps each request in one place.
LEMMA RequestInvNext == RouterInv /\ RequestInv /\ [Next]_vars => RequestInv'
<1> SUFFICES ASSUME RouterInv, RequestInv, [Next]_vars PROVE RequestInv'
  OBVIOUS
<1>1. CASE \/ enable \/ disable \/ (\E c \in GatewayClients : setAVSGateway(c))
           \/ (\E c \in Clients : ShutdownTransport(c) \/ JoinTransport(c) \/ setAVSGatewayReturns(c))
           \/ disableReturns \/ onWakeConnectionRetry
           \/ (\E t \in Transports : ObserverCalls(t)) \/ UNCHANGED vars
  BY <1>1, RouterSame, NothingMoves
<1>2. CASE doShutdown \/ doShutdownClears
  BY <1>2, DoShutdownKeeps, DoShutdownClearsKeeps
<1>3. ASSUME NEW r \in Requests, routerSendMessage(r) PROVE RequestInv'
  BY <1>3, RouterSendKeeps
<1>4. ASSUME NEW t \in Transports, TransportSteps(t) PROVE RequestInv'
  <2>1. UNCHANGED dropped
    BY <1>4 DEF TransportSteps, routerVars, clientVars
  <2>2. CASE Handling(t)
    BY <2>1, <2>2, HandlingKeeps
  <2>3. CASE ~Handling(t)
    <3>1. m \in [Transports -> Members] /\ Types
      BY DEF RouterInv, Types
    <3>2. PICK y : m' = [m EXCEPT ![t] = y] /\ Same(m[t], y) /\ UNCHANGED <<m_queue, offered, answers>>
      BY <1>4, <2>3, <3>1, OthersStill DEF Still
    <3>3. \A u \in Transports : Same(m[u], m'[u])
      BY <3>1, <3>2 DEF Same
    <3> QED BY <2>1, <3>2, <3>3, NothingMoves
  <2> QED BY <2>2, <2>3
<1> QED BY <1>1, <1>2, <1>3, <1>4 DEF Next, ClientSteps

\* The number of places of a request.
LEMMA PlacesCounted ==
    ASSUME RequestInv, NEW r \in AllRequests
    PROVE  Places(r) = IF r \in offered THEN 1 ELSE 0
<1> DEFINE has(k) == \E t \in Holders : At(r, k, t)
<1>1. /\ {"shared", "own", "hand", "handler", "dropped", "answered"} = Kinds
      /\ Transports \subseteq Holders /\ NoTransport \in Holders /\ NoTransport \notin Transports
  BY DEF Kinds, Holders, NoTransport, Transports
<1>2. ASSUME NEW T \in SUBSET Transports, NEW k \in {"own", "hand", "handler"},
             \A t \in Transports : t \in T <=> At(r, k, t)
      PROVE  Cardinality(T) = IF has(k) THEN 1 ELSE 0
  <2>1. CASE has(k)
    <3>1. PICK t \in Holders : At(r, k, t)
      BY <2>1
    <3>2. t \in Transports
      BY <1>1, <3>1 DEF At
    <3>3. \A u \in Transports : At(r, k, u) => u = t
      BY <1>1, <1>2, <3>1 DEF RequestInv, OneSpot
    <3>4. T = {t}
      BY <1>2, <3>1, <3>2, <3>3
    <3> QED BY <2>1, <3>4, FS_Singleton
  <2>2. CASE ~has(k)
    <3>1. T = {}
      BY <1>1, <1>2, <2>2
    <3> QED BY <2>2, <3>1, FS_EmptySet
  <2> QED BY <2>1, <2>2
<1>3. Cardinality({i \in DOMAIN m_queue : m_queue[i] = r}) = IF has("shared") THEN 1 ELSE 0
  <2>1. has("shared") <=> r \in Elements(m_queue)
    BY <1>1 DEF At, Has
  <2>2. CASE r \in Elements(m_queue)
    <3>1. PICK i \in DOMAIN m_queue : m_queue[i] = r
      BY <2>2 DEF Elements
    <3>2. {j \in DOMAIN m_queue : m_queue[j] = r} = {i}
      BY <3>1 DEF RequestInv, Distinct
    <3> QED BY <2>1, <2>2, <3>2, FS_Singleton
  <2>3. CASE r \notin Elements(m_queue)
    <3>1. {j \in DOMAIN m_queue : m_queue[j] = r} = {}
      BY <2>3 DEF Elements
    <3> QED BY <2>1, <2>3, <3>1, FS_EmptySet
  <2> QED BY <2>2, <2>3
<1>4. Cardinality({t \in Transports : r \in Elements(m[t].queue)}) = IF has("own") THEN 1 ELSE 0
  <2>1. \A t \in Transports : r \in Elements(m[t].queue) <=> At(r, "own", t)
    BY <1>1 DEF At, Has
  <2> HIDE DEF has
  <2> QED BY <1>2, <2>1
<1>5. Cardinality({t \in Transports : m[t].hand = r}) = IF has("hand") THEN 1 ELSE 0
  <2>1. \A t \in Transports : m[t].hand = r <=> At(r, "hand", t)
    BY <1>1 DEF At, Has
  <2> HIDE DEF has
  <2> QED BY <1>2, <2>1
<1>6. Cardinality({t \in Transports : r \in m[t].handlers}) = IF has("handler") THEN 1 ELSE 0
  <2>1. \A t \in Transports : r \in m[t].handlers <=> At(r, "handler", t)
    BY <1>1 DEF At, Has
  <2> HIDE DEF has
  <2> QED BY <1>2, <2>1
<1>7. Cardinality(dropped \cap {r}) = IF has("dropped") THEN 1 ELSE 0
  <2>1. has("dropped") <=> r \in dropped
    BY <1>1 DEF At, Has
  <2>2. CASE r \in dropped
    <3>1. dropped \cap {r} = {r}
      BY <2>2
    <3> QED BY <2>1, <2>2, <3>1, FS_Singleton
  <2>3. CASE r \notin dropped
    <3>1. dropped \cap {r} = {}
      BY <2>3
    <3> QED BY <2>1, <2>3, <3>1, FS_EmptySet
  <2> QED BY <2>2, <2>3
<1>8. answers[r] = IF has("answered") THEN 1 ELSE 0
  <2>1. has("answered") <=> answers[r] > 0
    BY <1>1 DEF At, Has
  <2>2. answers[r] \in {0, 1}
    BY DEF RequestInv
  <2> QED BY <2>1, <2>2
<1>9. \A k, l \in Kinds : has(k) /\ has(l) => k = l
  BY DEF RequestInv, OneSpot
<1>10. r \in offered <=> \E k \in Kinds : has(k)
  BY DEF RequestInv, OneSpot
<1> HIDE DEF has
<1>11. CASE r \in offered
  <2>1. PICK k \in Kinds : has(k)
    BY <1>10, <1>11
  <2>2. \A l \in Kinds \ {k} : ~has(l)
    BY <1>9, <2>1
  <2> QED BY <1>1, <1>3, <1>4, <1>5, <1>6, <1>7, <1>8, <1>11, <2>1, <2>2 DEF Places
<1>12. CASE r \notin offered
  <2>1. \A l \in Kinds : ~has(l)
    BY <1>10, <1>12
  <2> QED BY <1>1, <1>3, <1>4, <1>5, <1>6, <1>7, <1>8, <1>12, <2>1 DEF Places
<1> QED BY <1>11, <1>12

\* Whatever the transports fail at, however they are replaced, whichever loop, timeout and
\* doShutdown look at the shared queue and take from it, and even if one of them finds it
\* empty and crashes: a request that was accepted is in one place, and is answered at most
\* once.
THEOREM RequestSafety == Spec => []OnePlace
<1>1. RequestInv => OnePlace
  BY PlacesCounted DEF OnePlace
<1>2. Init => RequestInv
  BY RequestInvInit
<1>3. RouterInv /\ RequestInv /\ [Next]_vars => RequestInv'
  BY RequestInvNext
<1> QED BY <1>1, <1>2, <1>3, RouterInvAlways, PTL DEF Spec

=============================================================================
