----------------------------- MODULE HTTP2Transport -----------------------------
(***************************************************************************)
(* A connection to AVS (acl/Transport/HTTP2Transport.cpp) with the         *)
(* post-connect thread (PostConnectSequencer.cpp), the exchanges that are  *)
(* under way (MessageRequestHandler.cpp, DownchannelHandler.cpp,           *)
(* PingHandler.cpp) and the request queue that successive transports share *)
(* (MessageRequestQueue.cpp).  MessageRouter composes its transports.      *)
(*                                                                         *)
(* m[t] holds the members of transport t and where its threads are.  A     *)
(* step is what a thread does under m_mutex.  Waits on m_wakeEvent are     *)
(* guards, since every wait looks at its predicate again when it times     *)
(* out.  Time is left open: a request may expire, a retry may come and     *)
(* inactivity may be noticed at any moment.                                *)
(*                                                                         *)
(* The shared queue has a lock of its own.  A loop looks at it and takes a *)
(* request from it in two steps, between which another thread can empty    *)
(* it: the loop then crashes on a null request.  A step of a loop that     *)
(* holds m_mutex over both may be interleaved with what others do to its   *)
(* members under m_mutex: taking the request commutes with that.           *)
(***************************************************************************)
EXTENDS Integers, Sequences, FiniteSets

CONSTANTS
    N,                  \* bound: transports that can be created, 1..N
    Requests,           \* the messages clients send, each once
    PostRequests,       \* the messages post-connect operations send, each once
    Serialized,         \* those with MessageRequest::getIsSerialized
    NoRequest,          \* a null shared_ptr<MessageRequest>
    MaxMessageHandlers  \* MAX_MESSAGE_HANDLERS

Transports == 1..N
AllRequests == Requests \cup PostRequests

ASSUME TransportAssumption ==
    /\ N \in Nat /\ MaxMessageHandlers \in Nat \ {0}
    /\ NoRequest \notin AllRequests
    /\ Requests \cap PostRequests = {}
    /\ Serialized \subseteq AllRequests

VARIABLES
    m,          \* transport -> its members and threads
    m_queue,    \* the shared MessageRequestQueue
    m_isWaitingForAcknowledgement,
    offered,    \* history: requests given to a sendMessage
    answers     \* history: how often sendCompleted was called on each request

transportVars == <<m, m_queue, m_isWaitingForAcknowledgement, offered, answers>>

State == {"INIT", "AUTHORIZING", "CONNECTING", "WAITING_TO_RETRY_CONNECTING",
          "POST_CONNECTING", "CONNECTED", "SERVER_SIDE_DISCONNECT", "DISCONNECTING",
          "SHUTDOWN"}

Ending == {"SERVER_SIDE_DISCONNECT", "DISCONNECTING", "SHUTDOWN"}

\* Where mainLoop is: at the start of the handler of a state, or in its wait.
LoopPc == State \cup {"off", "start", "entering", "authorizing", "connecting", "posting",
                      "connected", "crashed", "closing", "ended"}

\* HTTP2Transport::HTTP2Transport
NewTransport ==
    [state |-> "INIT", reason |-> "NONE", postConnected |-> FALSE, pingHandler |-> FALSE,
     queue |-> <<>>, loop |-> "off", seen |-> FALSE, hand |-> NoRequest, post |-> "none",
     stopping |-> FALSE, downchannel |-> "none", handlers |-> {}, unacknowledged |-> {}]

TransportInit ==
    /\ m = [t \in Transports |-> NewTransport]
    /\ m_queue = <<>>
    /\ m_isWaitingForAcknowledgement = FALSE
    /\ offered = {}
    /\ answers = [r \in AllRequests |-> 0]

-----------------------------------------------------------------------------
(* Helpers *)

\* The switch of setStateLocked: from which states a state can be entered.
AllowedFrom(s) ==
    CASE s = "INIT"                        -> {}
      [] s = "AUTHORIZING"                 -> {"INIT", "WAITING_TO_RETRY_CONNECTING"}
      [] s = "CONNECTING"                  -> {"AUTHORIZING", "WAITING_TO_RETRY_CONNECTING"}
      [] s = "WAITING_TO_RETRY_CONNECTING" -> {"CONNECTING"}
      [] s = "POST_CONNECTING"             -> {"CONNECTING"}
      [] s = "CONNECTED"                   -> {"POST_CONNECTING"}
      [] s = "SERVER_SIDE_DISCONNECT"      -> State \ {"DISCONNECTING", "SHUTDOWN"}
      [] s = "DISCONNECTING"               -> State \ {"SHUTDOWN"}
      [] s = "SHUTDOWN"                    -> State

\* setStateLocked: the members x after it; the first reason to end is kept.  Of the
\* reasons only UNRECOVERABLE_ERROR makes a difference to the observer.
setStateLocked(x, s, reason) ==
    IF x.state = s \/ x.state \notin AllowedFrom(s) THEN x
    ELSE [x EXCEPT !.state = s,
                   !.reason = IF s \in Ending /\ x.reason = "NONE" THEN reason ELSE @]

\* setStateLocked(s, reason), and the handler returns m_state.
ReturnState(x, s, reason) ==
    LET y == setStateLocked(x, s, reason) IN [y EXCEPT !.loop = y.state]

\* request->sendCompleted
Answer(S) == answers' = [r \in AllRequests |-> IF r \in S THEN answers[r] + 1 ELSE answers[r]]

Elements(s) == {s[i] : i \in DOMAIN s}

isMessageRequestAvailable(q, waiting) == \E i \in DOMAIN q : ~waiting \/ q[i] \notin Serialized

\* The first request of q that dequeueSendableRequest may take.
FirstSendable(q, waiting) ==
    {i \in DOMAIN q : /\ ~waiting \/ q[i] \notin Serialized
                      /\ \A j \in 1..(i - 1) : waiting /\ q[j] \in Serialized}

\* Mutant: the request that is taken is not erased.
RemoveNothing(q, i) == q

RemoveAt(q, i) == SubSeq(q, 1, i - 1) \o SubSeq(q, i + 1, Len(q))

\* m_isWaitingForAcknowledgement after the requests of S were acknowledged.
Acknowledged(S) == m_isWaitingForAcknowledgement /\ S \cap Serialized = {}

\* The loop has the request it saw, or crashes on a null one.
Taken(x) == [x EXCEPT !.seen = FALSE]
Crashed(x) == [x EXCEPT !.seen = FALSE, !.loop = "crashed"]

\* A step of transport t that touches nothing but its members.
Only(t, x) ==
    /\ m' = [m EXCEPT ![t] = x]
    /\ UNCHANGED <<m_queue, m_isWaitingForAcknowledgement, offered, answers>>

-----------------------------------------------------------------------------
(* mainLoop *)

\* The post-connect thread is started, or cannot be.
LoopStart(t) ==
    /\ m[t].loop = "start"
    /\ \/ Only(t, [m[t] EXCEPT !.loop = "entering", !.post = "operating"])
       \/ Only(t, [setStateLocked(m[t], "SHUTDOWN", "RECOVERABLE") EXCEPT !.loop = "entering"])

LoopEnter(t) ==
    /\ m[t].loop = "entering"
    /\ Only(t, [m[t] EXCEPT !.loop = m[t].state])

\* m_authDelegate->addAuthObserver(shared_from_this())
handleAuthorizing(t) ==
    /\ m[t].loop = "AUTHORIZING"
    /\ Only(t, [m[t] EXCEPT !.loop = "authorizing"])

\* The downchannel is requested; without a token, or when that fails, later.
handleConnecting(t) ==
    /\ m[t].loop = "CONNECTING"
    /\ \/ Only(t, [m[t] EXCEPT !.loop = "connecting", !.downchannel = "open"])
       \/ Only(t, ReturnState(m[t], "WAITING_TO_RETRY_CONNECTING", "RECOVERABLE"))

\* Mutant: the wait for the downchannel does not look at the state.
WokenWhenAuthorized(x) == x.loop = "authorizing" /\ x.state # "AUTHORIZING"

\* monitorSharedQueueWhileWaiting sees that the state has changed.
Woken(x) == \/ x.loop = "authorizing" /\ x.state # "AUTHORIZING"
            \/ x.loop = "connecting" /\ x.state # "CONNECTING"

MonitorReturns(t) ==
    /\ Woken(m[t]) /\ ~m[t].seen
    /\ Only(t, [m[t] EXCEPT !.loop = m[t].state])

\* Mutant: the shared queue is looked at only before the first connection attempt.
MonitoringFirst == {"authorizing"}

\* Where the loop is in monitorSharedQueueWhileWaiting.
Monitoring == {"authorizing", "connecting", "WAITING_TO_RETRY_CONNECTING"}

\* It sees that a request has been in the shared queue for too long.
MonitorSees(t) ==
    /\ m[t].loop \in Monitoring /\ ~m[t].seen /\ m_queue # <<>>
    /\ Only(t, [m[t] EXCEPT !.seen = TRUE])

\* It answers the oldest request of the queue.
MonitorTimesOut(t) ==
    /\ m[t].loop \in Monitoring /\ m[t].seen
    /\ IF m_queue = <<>> THEN Only(t, Crashed(m[t]))
       ELSE /\ m' = [m EXCEPT ![t] = Taken(@)]
            /\ m_queue' = Tail(m_queue)
            /\ Answer({Head(m_queue)})
            /\ UNCHANGED <<m_isWaitingForAcknowledgement, offered>>

\* The time to retry has come, or the state has changed.
handleWaitingToRetryConnecting(t) ==
    /\ m[t].loop = "WAITING_TO_RETRY_CONNECTING" /\ ~m[t].seen
    /\ Only(t, IF m[t].state = "WAITING_TO_RETRY_CONNECTING"
               THEN ReturnState(m[t], "CONNECTING", "RECOVERABLE")
               ELSE [m[t] EXCEPT !.loop = m[t].state])

\* Post-connected already: CONNECTED is next, whether setState succeeds or not.
handlePostConnecting(t) ==
    /\ m[t].loop = "POST_CONNECTING"
    /\ IF m[t].postConnected
       THEN Only(t, [setStateLocked(m[t], "CONNECTED", "RECOVERABLE") EXCEPT !.loop = "CONNECTED"])
       ELSE Only(t, [m[t] EXCEPT !.loop = "posting"])

\* PostConnectSequencer::stop, called by its destructor or onDisconnect.
StopPostConnect(t) ==
    /\ m[t].loop \in {"CONNECTED", "SERVER_SIDE_DISCONNECT", "closing"}
    /\ m[t].post # "none" /\ ~m[t].stopping
    /\ Only(t, [m[t] EXCEPT !.stopping = TRUE])

\* The post-connect thread has been joined, or there was none.
PostConnectGone(x) == x.post = "none" \/ (x.stopping /\ x.post = "done")

\* The three places where the loop calls its observer, once there is no
\* post-connect thread: the call is MessageRouter's, and NextLoop what follows it.
\* handleServerSideDisconnect goes on to DISCONNECTING without changing m_state.
handleConnected(t) == m[t].loop = "CONNECTED" /\ PostConnectGone(m[t])
handleServerSideDisconnect(t) == m[t].loop = "SERVER_SIDE_DISCONNECT" /\ PostConnectGone(m[t])
handleShutdownNotifies(t) == m[t].loop = "closing" /\ PostConnectGone(m[t])

\* m_postConnect is gone, and of a loop that has ended only its exchanges are left.
NextLoop(t) ==
    LET x == [m[t] EXCEPT !.post = "none", !.stopping = FALSE] IN
    [m EXCEPT ![t] =
        CASE x.loop = "CONNECTED"              -> [x EXCEPT !.loop = "connected"]
          [] x.loop = "SERVER_SIDE_DISCONNECT" -> [x EXCEPT !.loop = "DISCONNECTING"]
          [] x.loop = "closing" ->
               [NewTransport EXCEPT !.state = "SHUTDOWN", !.loop = "ended",
                    !.handlers = x.handlers, !.unacknowledged = x.unacknowledged]]

handleDisconnecting(t) ==
    /\ m[t].loop = "DISCONNECTING"
    /\ m[t].state = "DISCONNECTING" => m[t].handlers = {}
    /\ Only(t, ReturnState(m[t], "SHUTDOWN", "RECOVERABLE"))

\* handleShutdown, the part under m_mutex and m_http2Connection->disconnect(), after
\* which the exchanges under way are cancelled: the requests one by one, later, the
\* downchannel and a ping without an effect in this state.
handleShutdown(t) ==
    /\ m[t].loop = "SHUTDOWN"
    /\ m_isWaitingForAcknowledgement' = FALSE
    /\ Answer(Elements(m[t].queue))
    /\ m' = [m EXCEPT ![t].loop = "closing", ![t].queue = <<>>, ![t].downchannel = "none",
                      ![t].pingHandler = FALSE]
    /\ UNCHANGED <<m_queue, offered>>

-----------------------------------------------------------------------------
(* sendMessagesAndPings: with the transport's own queue while "posting", with *)
(* the shared one while "connected"                                           *)

WhileState(t) == IF m[t].loop = "posting" THEN "POST_CONNECTING" ELSE "CONNECTED"
Sending(t) == m[t].loop \in {"posting", "connected"} /\ m[t].hand = NoRequest /\ ~m[t].seen

SendingReturns(t) ==
    /\ Sending(t) /\ m[t].state # WhileState(t)
    /\ Only(t, [m[t] EXCEPT !.loop = m[t].state])

\* A request is taken from the transport's queue and m_mutex is released.
DequeueOwn(t) ==
    /\ Sending(t) /\ m[t].loop = "posting" /\ m[t].state = "POST_CONNECTING"
    /\ Cardinality(m[t].handlers) < MaxMessageHandlers
    /\ m[t].queue # <<>>
    /\ Only(t, [m[t] EXCEPT !.hand = Head(m[t].queue), !.queue = Tail(@)])

\* canSendMessage() with the shared queue.
CanSendShared(t) ==
    /\ Sending(t) /\ m[t].loop = "connected" /\ m[t].state = "CONNECTED"
    /\ Cardinality(m[t].handlers) < MaxMessageHandlers
    /\ isMessageRequestAvailable(m_queue, m_isWaitingForAcknowledgement)
    /\ Only(t, [m[t] EXCEPT !.seen = TRUE])

\* dequeueSendableRequest() and the unlock.  A null request is dereferenced in any case:
\* by MessageRequestHandler's constructor or, without a token, by sendCompleted.
DequeueShared(t) ==
    /\ m[t].loop = "connected" /\ m[t].seen
    /\ \/ /\ FirstSendable(m_queue, m_isWaitingForAcknowledgement) = {}
          /\ Only(t, Crashed(m[t]))
       \/ \E i \in FirstSendable(m_queue, m_isWaitingForAcknowledgement) :
             /\ m' = [m EXCEPT ![t] = [Taken(@) EXCEPT !.hand = m_queue[i]]]
             /\ m_queue' = RemoveAt(m_queue, i)
             /\ UNCHANGED <<m_isWaitingForAcknowledgement, offered, answers>>

\* MessageRequestHandler::create: onMessageRequestSent, then the request goes out.
SendRequest(t) ==
    LET r == m[t].hand IN
    /\ r # NoRequest
    /\ m' = [m EXCEPT ![t].hand = NoRequest, ![t].handlers = @ \cup {r},
                      ![t].unacknowledged = @ \cup {r}]
    /\ m_isWaitingForAcknowledgement' = (m_isWaitingForAcknowledgement \/ r \in Serialized)
    /\ UNCHANGED <<m_queue, offered, answers>>

\* There is no token, or the request cannot be created, which counts as an
\* acknowledgement.
SendRequestFails(t) ==
    LET r == m[t].hand IN
    /\ r # NoRequest
    /\ m' = [m EXCEPT ![t].hand = NoRequest]
    /\ m_isWaitingForAcknowledgement' \in {m_isWaitingForAcknowledgement, Acknowledged({r})}
    /\ Answer({r})
    /\ UNCHANGED <<m_queue, offered>>

\* After a time without activity a ping is sent, or the transport gives up.  The
\* answer can come before m_pingHandler is assigned, which then stays set.
SendPing(t) ==
    /\ Sending(t) /\ m[t].state = WhileState(t) /\ ~m[t].pingHandler
    /\ \/ Only(t, [m[t] EXCEPT !.pingHandler = TRUE])
       \/ Only(t, [setStateLocked(m[t], "SERVER_SIDE_DISCONNECT", "RECOVERABLE")
                      EXCEPT !.pingHandler = TRUE])
       \/ Only(t, setStateLocked(m[t], "SHUTDOWN", "RECOVERABLE"))

-----------------------------------------------------------------------------
(* The HTTP2 connection's thread *)

onDownchannelConnected(t) ==
    /\ m[t].downchannel = "open"
    /\ Only(t, [setStateLocked(m[t], "POST_CONNECTING", "RECOVERABLE") EXCEPT !.downchannel = "up"])

onDownchannelFinished(t) ==
    /\ m[t].downchannel # "none"
    /\ Only(t, [CASE m[t].state = "CONNECTING" ->
                       setStateLocked(m[t], "WAITING_TO_RETRY_CONNECTING", "RECOVERABLE")
                  [] m[t].state \in {"POST_CONNECTING", "CONNECTED"} ->
                       setStateLocked(m[t], "SERVER_SIDE_DISCONNECT", "RECOVERABLE")
                  [] OTHER -> m[t]
                EXCEPT !.downchannel = "none"])

\* reportMessageRequestAcknowledged
onMessageRequestAcknowledged(t, r) ==
    /\ r \in m[t].unacknowledged
    /\ m' = [m EXCEPT ![t].unacknowledged = @ \ {r}]
    /\ m_isWaitingForAcknowledgement' = Acknowledged({r})
    /\ UNCHANGED <<m_queue, offered, answers>>

Finished(x, r) == [x EXCEPT !.unacknowledged = @ \ {r}, !.handlers = @ \ {r}]

\* MessageRequestHandler::onResponseFinished: acknowledged at the latest now,
\* finished, and the sender is told.
onResponseFinished(t, r) ==
    /\ r \in m[t].handlers
    /\ m' = [m EXCEPT ![t] = Finished(@, r)]
    /\ m_isWaitingForAcknowledgement' = Acknowledged({r} \cap m[t].unacknowledged)
    /\ Answer({r})
    /\ UNCHANGED <<m_queue, offered>>

onPingRequestAcknowledged(t, success) ==
    /\ m[t].pingHandler
    /\ Only(t, [IF success THEN m[t]
                ELSE setStateLocked(m[t], "SERVER_SIDE_DISCONNECT", "RECOVERABLE")
                EXCEPT !.pingHandler = FALSE])

onPingTimeout(t) ==
    /\ m[t].pingHandler
    /\ Only(t, [setStateLocked(m[t], "SHUTDOWN", "RECOVERABLE") EXCEPT !.pingHandler = FALSE])

-----------------------------------------------------------------------------
(* The post-connect thread and the authorization *)

\* A post-connect operation sends a message through the transport.
sendMessage(t, r) ==
    /\ m[t].post = "operating" /\ r \notin offered
    /\ offered' = offered \cup {r}
    /\ IF m[t].state \in Ending \cup {"CONNECTED"}
       THEN Answer({r}) /\ UNCHANGED m
       ELSE m' = [m EXCEPT ![t].queue = Append(@, r)] /\ UNCHANGED answers
    /\ UNCHANGED <<m_queue, m_isWaitingForAcknowledgement>>

\* All operations were performed.
onPostConnected(t) ==
    LET x == [m[t] EXCEPT !.post = "done"] IN
    /\ m[t].post = "operating"
    /\ Only(t, CASE x.state = "POST_CONNECTING" ->
                      [setStateLocked(x, "CONNECTED", "RECOVERABLE") EXCEPT !.postConnected = TRUE]
                 [] x.state \in Ending \cup {"CONNECTED"} -> x
                 [] OTHER -> [x EXCEPT !.postConnected = TRUE])

\* An operation failed, was aborted or was not begun any more.
onUnRecoverablePostConnectFailure(t) ==
    LET x == [m[t] EXCEPT !.post = "done"] IN
    /\ m[t].post = "operating"
    /\ Only(t, IF m[t].stopping \/ m[t].state \in Ending THEN x
               ELSE setStateLocked(x, "SHUTDOWN", "UNRECOVERABLE_ERROR"))

\* The transport has become an AuthObserver.
Observing(t) == m[t].loop \notin {"off", "start", "entering", "AUTHORIZING"}

onAuthRefreshed(t) ==
    /\ Observing(t) /\ m[t].state = "AUTHORIZING"
    /\ Only(t, setStateLocked(m[t], "CONNECTING", "RECOVERABLE"))

onAuthExpired(t) ==
    /\ Observing(t) /\ m[t].state = "WAITING_TO_RETRY_CONNECTING"
    /\ Only(t, setStateLocked(m[t], "AUTHORIZING", "RECOVERABLE"))

onAuthUnrecoverable(t) ==
    /\ Observing(t) /\ m[t].state # "SHUTDOWN"
    /\ Only(t, setStateLocked(m[t], "SHUTDOWN", "UNRECOVERABLE_ERROR"))

-----------------------------------------------------------------------------
(* Steps by thread; those that notify the observer are left to MessageRouter *)

MainLoop(t) ==
    \/ LoopStart(t) \/ LoopEnter(t) \/ handleAuthorizing(t) \/ handleConnecting(t)
    \/ MonitorReturns(t) \/ handleWaitingToRetryConnecting(t) \/ handlePostConnecting(t)
    \/ StopPostConnect(t) \/ handleDisconnecting(t) \/ handleShutdown(t)
    \/ MonitorTimesOut(t) \/ DequeueShared(t)
    \/ SendingReturns(t) \/ DequeueOwn(t) \/ SendRequest(t) \/ SendRequestFails(t)

PostConnectEnds(t) == onPostConnected(t) \/ onUnRecoverablePostConnectFailure(t)

Connection(t) ==
    \/ onDownchannelConnected(t) \/ onDownchannelFinished(t)
    \/ \E r \in AllRequests : onMessageRequestAcknowledged(t, r) \/ onResponseFinished(t, r)
    \/ \E success \in BOOLEAN : onPingRequestAcknowledged(t, success)
    \/ onPingTimeout(t)

Authorization(t) == onAuthRefreshed(t) \/ onAuthExpired(t) \/ onAuthUnrecoverable(t)
=============================================================================
