----------------------------- MODULE CertifiedSender -----------------------------
(***************************************************************************)
(* The certified sender (certified_sender/CertifiedSender.cpp) and its     *)
(* message table (SQLiteMessageStorage.cpp): messages are stored before    *)
(* they are queued, a worker thread sends the first of the queue until AVS *)
(* gives an answer that does not ask for a retry, and only then erases it. *)
(* After a crash or a restart the queue is loaded from the table.          *)
(*                                                                         *)
(* Every critical section of m_mutex is one action.  The executor runs     *)
(* executeSendJSONMessage and the body of clearData one at a time.  The    *)
(* length of the backoff, URI extensions and the warning limit are left    *)
(* out; row ids are unbounded (the code refuses to wrap around).           *)
(***************************************************************************)
EXTENDS Integers, Sequences, FiniteSets, FiniteSetsExt

CONSTANTS
    Messages,           \* what clients send, each once
    NoMessage,          \* a null m_currentMessage
    Answers,            \* the statuses AVS gives in this instance
    QueueSizeHardLimit, \* m_queueSizeHardLimit
    MaxStops,           \* bound: how often the sender is destroyed or crashes
    MaxClears           \* bound: how often clearData is called

Retried == {"THROTTLED", "PENDING", "NOT_CONNECTED", "NOT_SYNCHRONIZED", "TIMEDOUT",
            "PROTOCOL_ERROR", "INTERNAL_ERROR", "REFUSED", "INVALID_AUTH"}
Final == {"SUCCESS", "SUCCESS_ACCEPTED", "SUCCESS_NO_CONTENT", "SERVER_INTERNAL_ERROR_V2",
          "CANCELED", "SERVER_OTHER_ERROR", "BAD_REQUEST"}
NoStatus == "NONE"

ASSUME MessagesAssumption ==
    NoMessage \notin [id : Nat \ {0}, message : Messages]
ASSUME AnswersAssumption == Answers \subseteq Retried \cup Final
ASSUME LimitsAssumption ==
    QueueSizeHardLimit \in Nat \ {0} /\ MaxStops \in Nat /\ MaxClears \in Nat

VARIABLES
    m_storage,              \* the rows of the table: survives a crash
    m_messagesToSend, m_isConnected, m_isShuttingDown,
    m_currentMessage,
    m_sendMessageStatus,    \* of the current request; NoStatus: !m_responseReceived
    m_isRequestShuttingDown,\* of the current request
    workerPc,               \* mainloop; "down" when there is no CertifiedSender
    stops, clears,          \* for the bounds
    offered,                \* history: messages given to sendJSONMessage
    order,                  \* history: messages stored, in order
    answered,               \* history: messages AVS gave a final status
    cleared,                \* history: messages that clearData deleted
    unloaded,               \* history: rows that the load of this sender left out
    disturbed               \* history: a clearData failed or hit a message under way

objectVars  == <<m_messagesToSend, m_isConnected, m_isShuttingDown>>
requestVars == <<m_currentMessage, m_sendMessageStatus, m_isRequestShuttingDown>>
boundVars   == <<stops, clears>>
histVars    == <<offered, order, answered, cleared, unloaded, disturbed>>

vars == <<m_storage, objectVars, requestVars, workerPc, boundVars, histVars>>

Row == [id : Nat \ {0}, message : Messages]

-----------------------------------------------------------------------------
(* SQLiteMessageStorage *)

Elements(s) == {s[i] : i \in DOMAIN s}

\* Mutant: ids are the number of rows plus one.
nextIdByCount == Cardinality(m_storage) + 1

\* The id store gives: getTableMaxIntValue, which is 0 for an empty table, plus one.
nextId == Max({0} \cup {r.id : r \in m_storage}) + 1

\* The row that store inserts.
StoredRow(m) == [id |-> nextId, message |-> m]

\* erase(id)
Erased(id) == {r \in m_storage : r.id # id}

InIdOrder(q) == \A i, j \in DOMAIN q : i < j => q[i].id < q[j].id

\* What load can fill the queue with and still return true: the rows ordered by id,
\* all of them unless SQLite fails to read one.  The result of the first step is
\* tested, so there is a first row; the results of the later ones are not, so an
\* error ends the loop as the last row does.
load == {q \in UNION {[1..n -> m_storage] : n \in 0..Cardinality(m_storage)} :
            /\ InIdOrder(q)
            /\ \A r \in m_storage \ Elements(q) :
                 q # <<>> /\ \A s \in Elements(q) : s.id < r.id}

-----------------------------------------------------------------------------
(* Helpers *)

\* The worker is between taking a message and dropping it.
UnderWay == workerPc \in {"sending", "waiting", "retrying", "erasing"}

\* Mutant: the worker is not woken.
NotifyNobody == workerPc' = workerPc

\* m_workerThreadCV.notify_one()
Notify == workerPc' = IF workerPc = "sleeping" THEN "woken" ELSE workerPc

\* The predicate of m_workerThreadCV.wait.
mayProceed == (m_isConnected /\ m_messagesToSend # <<>>) \/ m_isShuttingDown

\* Mutant: every answer ends the sending.
retryNever(status) == FALSE

shouldRetryTransmission(status) == status \in Retried

\* There is no CertifiedSender; the next one starts with these members.
Down ==
    /\ m_messagesToSend' = <<>>
    /\ m_isConnected' = FALSE
    /\ m_isShuttingDown' = FALSE
    /\ m_currentMessage' = NoMessage
    /\ m_sendMessageStatus' = NoStatus
    /\ m_isRequestShuttingDown' = FALSE
    /\ workerPc' = "down"
    /\ unloaded' = {}

-----------------------------------------------------------------------------
(* Before the first create *)

Init ==
    /\ m_storage = {}
    /\ m_messagesToSend = <<>>
    /\ m_isConnected = FALSE /\ m_isShuttingDown = FALSE
    /\ m_currentMessage = NoMessage
    /\ m_sendMessageStatus = NoStatus /\ m_isRequestShuttingDown = FALSE
    /\ workerPc = "down"
    /\ stops = 0 /\ clears = 0
    /\ offered = {} /\ order = <<>> /\ answered = {} /\ cleared = {} /\ unloaded = {}
    /\ disturbed = FALSE

\* create and init: the queue is loaded and the worker started.  When init fails
\* there is no sender, and nothing has changed.
create ==
    /\ workerPc = "down"
    /\ m_messagesToSend' \in load
    /\ unloaded' = m_storage \ Elements(m_messagesToSend')
    /\ workerPc' = "woken"
    /\ UNCHANGED <<m_storage, m_isConnected, m_isShuttingDown, requestVars, boundVars,
                   offered, order, answered, cleared, disturbed>>

-----------------------------------------------------------------------------
(* The executor *)

\* The new row at the end of the queue.
Pushed(m) == Append(m_messagesToSend, StoredRow(m))

\* executeSendJSONMessage returns true.
executeSendJSONMessage(m) ==
    /\ workerPc # "down"
    /\ m \notin offered /\ Len(m_messagesToSend) < QueueSizeHardLimit
    /\ m_storage' = m_storage \cup {StoredRow(m)}
    /\ m_messagesToSend' = Pushed(m)
    /\ Notify
    /\ offered' = offered \cup {m}
    /\ order' = Append(order, m)
    /\ UNCHANGED <<m_isConnected, m_isShuttingDown, requestVars, boundVars, answered,
                   cleared, unloaded, disturbed>>

\* It returns false: the queue is full, or store fails.
executeSendJSONMessageFails(m) ==
    /\ workerPc # "down"
    /\ m \notin offered
    /\ offered' = offered \cup {m}
    /\ UNCHANGED <<m_storage, objectVars, requestVars, workerPc, boundVars, order,
                   answered, cleared, unloaded, disturbed>>

\* m_messagesToSend.clear()
QueueCleared == <<>>

\* clearData: the queue is emptied, then the table; clearDatabase may fail.
clearData ==
    /\ workerPc # "down" /\ clears < MaxClears
    /\ clears' = clears + 1
    /\ m_messagesToSend' = QueueCleared
    /\ \/ /\ m_storage' = {}
          /\ cleared' = cleared \cup {r.message : r \in m_storage}
          /\ disturbed' = (disturbed \/ UnderWay)
       \/ /\ disturbed' = TRUE
          /\ UNCHANGED <<m_storage, cleared>>
    /\ UNCHANGED <<m_isConnected, m_isShuttingDown, requestVars, workerPc, stops,
                   offered, order, answered, unloaded>>

-----------------------------------------------------------------------------
(* The worker thread: mainloop *)

\* Line 122: nothing to do yet.
WaitForMessage ==
    /\ workerPc = "woken"
    /\ ~mayProceed
    /\ workerPc' = "sleeping"
    /\ m_currentMessage' = NoMessage
    /\ UNCHANGED <<m_storage, objectVars, m_sendMessageStatus, m_isRequestShuttingDown,
                   boundVars, histVars>>

SpuriousWakeup ==
    /\ workerPc = "sleeping"
    /\ workerPc' = "woken"
    /\ UNCHANGED <<m_storage, objectVars, requestVars, boundVars, histVars>>

\* The first message becomes the current one; its request is new.
TakeMessage ==
    /\ workerPc = "woken"
    /\ mayProceed /\ ~m_isShuttingDown
    /\ m_currentMessage' = Head(m_messagesToSend)
    /\ m_sendMessageStatus' = NoStatus
    /\ m_isRequestShuttingDown' = FALSE
    /\ workerPc' = "sending"
    /\ UNCHANGED <<m_storage, objectVars, boundVars, histVars>>

\* m_messageSender->sendMessage(m_currentMessage), without the lock.
SendMessage ==
    /\ workerPc = "sending"
    /\ workerPc' = "waiting"
    /\ UNCHANGED <<m_storage, objectVars, requestVars, boundVars, histVars>>

\* sendCompleted counts only as the first answer.
sendCompleted(status) ==
    /\ workerPc = "waiting" /\ m_sendMessageStatus = NoStatus
    /\ m_sendMessageStatus' = status
    /\ answered' = IF status \in Final THEN answered \cup {m_currentMessage.message}
                   ELSE answered
    /\ UNCHANGED <<m_storage, objectVars, m_currentMessage, m_isRequestShuttingDown,
                   workerPc, boundVars, offered, order, cleared, unloaded, disturbed>>

\* exceptionReceived replaces an earlier answer.
exceptionReceived ==
    /\ workerPc = "waiting"
    /\ m_sendMessageStatus' = "SERVER_INTERNAL_ERROR_V2"
    /\ answered' = answered \cup {m_currentMessage.message}
    /\ UNCHANGED <<m_storage, objectVars, m_currentMessage, m_isRequestShuttingDown,
                   workerPc, boundVars, offered, order, cleared, unloaded, disturbed>>

\* What waitForCompletion returns.
CompletionStatus == IF m_isRequestShuttingDown THEN "TIMEDOUT" ELSE m_sendMessageStatus

\* Mutant: waitForCompletion waits for an answer even when it is shut down.
completedIgnoresShutdown == m_sendMessageStatus # NoStatus

\* The predicate of m_requestCv.wait.
Completed == m_isRequestShuttingDown \/ m_sendMessageStatus # NoStatus

waitForCompletion ==
    /\ workerPc = "waiting" /\ Completed
    /\ workerPc' = IF shouldRetryTransmission(CompletionStatus) THEN "retrying"
                   ELSE "erasing"
    /\ UNCHANGED <<m_storage, objectVars, requestVars, boundVars, histVars>>

\* Mutant: the message that is retried goes to the end of the queue.
RequeuedLast == Append(Tail(m_messagesToSend), m_currentMessage)

\* pop_front, then push_front of a new request for the same row.
Requeued == <<m_currentMessage>> \o Tail(m_messagesToSend)

RetryLater ==
    /\ workerPc = "retrying"
    /\ m_messagesToSend # <<>>
    /\ m_messagesToSend' = Requeued
    /\ workerPc' = "backoff"
    /\ UNCHANGED <<m_storage, m_isConnected, m_isShuttingDown, requestVars, boundVars,
                   histVars>>

\* m_backoffWaitCV.wait_for times out, or the destructor notified it.
BackoffOver ==
    /\ workerPc = "backoff"
    /\ workerPc' = IF m_isShuttingDown THEN "exited" ELSE "woken"
    /\ UNCHANGED <<m_storage, objectVars, requestVars, boundVars, histVars>>

\* The row of the current message goes.
EraseCurrent == Erased(m_currentMessage.id)

\* The message is erased (the storage may fail to) and dropped from the queue.
EraseMessage ==
    /\ workerPc = "erasing"
    /\ m_messagesToSend # <<>>
    /\ m_storage' \in {EraseCurrent, m_storage}
    /\ m_messagesToSend' = Tail(m_messagesToSend)
    /\ workerPc' = "woken"
    /\ UNCHANGED <<m_isConnected, m_isShuttingDown, requestVars, boundVars, histVars>>

\* pop_front of an empty deque is undefined: nothing is known of the worker after
\* it.  (The row is erased before.)
PopsEmptyQueue ==
    /\ workerPc \in {"retrying", "erasing"}
    /\ m_messagesToSend = <<>>
    /\ m_storage' \in IF workerPc = "erasing" THEN {EraseCurrent, m_storage}
                      ELSE {m_storage}
    /\ workerPc' = "undefined"
    /\ UNCHANGED <<objectVars, requestVars, boundVars, histVars>>

\* The worker sees m_isShuttingDown at the top of its loop.
WorkerExits ==
    /\ workerPc = "woken"
    /\ mayProceed /\ m_isShuttingDown
    /\ m_currentMessage' = NoMessage
    /\ workerPc' = "exited"
    /\ UNCHANGED <<m_storage, objectVars, m_sendMessageStatus, m_isRequestShuttingDown,
                   boundVars, histVars>>

-----------------------------------------------------------------------------
(* Other threads *)

\* doShutdown takes the sender off the observers before it can be destroyed.
onConnectionStatusChanged(connected) ==
    /\ workerPc # "down" /\ ~m_isShuttingDown
    /\ m_isConnected' = connected
    /\ Notify
    /\ UNCHANGED <<m_storage, m_messagesToSend, m_isShuttingDown, requestVars, boundVars,
                   histVars>>

\* ~CertifiedSender, up to the join.
destroy ==
    /\ workerPc # "down" /\ ~m_isShuttingDown
    /\ stops < MaxStops
    /\ stops' = stops + 1
    /\ m_isShuttingDown' = TRUE
    /\ m_isRequestShuttingDown' =
         (m_isRequestShuttingDown \/ m_currentMessage # NoMessage)
    /\ Notify
    /\ UNCHANGED <<m_storage, m_messagesToSend, m_isConnected, m_currentMessage,
                   m_sendMessageStatus, clears, histVars>>

\* The worker is joined and the members are destroyed.
destroyJoins ==
    /\ m_isShuttingDown /\ workerPc = "exited"
    /\ Down
    /\ UNCHANGED <<m_storage, boundVars, offered, order, answered, cleared, disturbed>>

\* The process dies, perhaps right after a message was stored; after undefined
\* behaviour it may die in any case.
Crash ==
    /\ workerPc # "down"
    /\ stops < MaxStops \/ workerPc = "undefined"
    /\ stops' = stops + 1
    /\ Down
    /\ \/ \E m \in Messages \ offered :
            /\ Len(m_messagesToSend) < QueueSizeHardLimit
            /\ m_storage' = m_storage \cup {StoredRow(m)}
            /\ offered' = offered \cup {m}
            /\ order' = Append(order, m)
       \/ UNCHANGED <<m_storage, offered, order>>
    /\ UNCHANGED <<clears, answered, cleared, disturbed>>

-----------------------------------------------------------------------------
(* Next *)

Worker ==
    \/ WaitForMessage \/ TakeMessage \/ SendMessage \/ waitForCompletion
    \/ RetryLater \/ BackoffOver \/ EraseMessage \/ PopsEmptyQueue \/ WorkerExits

Next ==
    \/ create
    \/ \E m \in Messages : executeSendJSONMessage(m) \/ executeSendJSONMessageFails(m)
    \/ clearData
    \/ Worker \/ SpuriousWakeup
    \/ \E status \in Answers : sendCompleted(status)
    \/ exceptionReceived
    \/ \E connected \in BOOLEAN : onConnectionStatusChanged(connected)
    \/ destroy \/ destroyJoins \/ Crash

Spec == Init /\ [][Next]_vars

\* The worker runs and the destructor's join returns when it has ended.  The
\* sender is started again, comes to be connected again and again, and AVS, when
\* asked again and again, gives a final answer; it owes none to a sender that is
\* being destroyed.
Fairness ==
    /\ WF_vars(Worker) /\ WF_vars(destroyJoins)
    /\ WF_vars(create)
    /\ SF_vars(TakeMessage)
    /\ SF_vars(onConnectionStatusChanged(TRUE))
    /\ SF_vars(/\ ~m_isShuttingDown
               /\ \E status \in Answers \cap Final : sendCompleted(status))

FairSpec == Spec /\ Fairness

-----------------------------------------------------------------------------
(* Properties *)

\* The rows, the queue, the current request and the histories are well formed, and
\* a CertifiedSender that does not exist has no queue and no request.
TypeOK ==
    /\ m_storage \subseteq Row /\ IsFiniteSet(m_storage)
    /\ m_messagesToSend \in Seq(Row)
    /\ m_isConnected \in BOOLEAN /\ m_isShuttingDown \in BOOLEAN
    /\ m_currentMessage \in Row \cup {NoMessage}
    /\ m_sendMessageStatus \in Retried \cup Final \cup {NoStatus}
    /\ m_isRequestShuttingDown \in BOOLEAN
    /\ workerPc \in {"down", "woken", "sleeping", "sending", "waiting", "retrying",
                     "erasing", "backoff", "exited", "undefined"}
    /\ UnderWay => m_currentMessage # NoMessage
    /\ workerPc = "down" => m_messagesToSend = <<>> /\ ~m_isShuttingDown
    /\ stops \in Nat /\ clears \in Nat
    /\ offered \subseteq Messages /\ order \in Seq(Messages)
    /\ answered \subseteq Messages /\ cleared \subseteq Messages /\ unloaded \subseteq Row
    /\ disturbed \in BOOLEAN

Stored == {r.message : r \in m_storage}

\* Every message that sendJSONMessage accepted is in the table until AVS has
\* answered it or clearData has deleted it, whenever the process crashes.
NothingLost == \A m \in Elements(order) : m \in Stored \cup answered \cup cleared

\* That holds unless a clearData was disturbed.
NothingLostUndisturbed == ~disturbed => NothingLost

\* The messages that wait for a restart because the load left them out.
PassedOver == {r.message : r \in unloaded}

\* Messages are sent in the order in which they were accepted, across restarts and
\* retries: the worker has no message under way before AVS has answered everything
\* stored earlier, apart from rows that a read error kept load from queueing.
SentInOrder ==
    ~disturbed /\ UnderWay =>
        \A i, j \in DOMAIN order :
            i < j /\ order[j] = m_currentMessage.message =>
                order[i] \in answered \cup cleared \cup PassedOver

\* pop_front drops the message that was sent, and no other.
PopsWhatItSent ==
    ~disturbed => /\ workerPc # "undefined"
                  /\ UnderWay => /\ m_messagesToSend # <<>>
                                 /\ Head(m_messagesToSend) = m_currentMessage

\* Queue and table agree: what is queued is stored, in the order of the ids, and a
\* stored row is queued unless its erase failed after the answer, or a read error
\* kept load from queueing it.
QueueBackedByStorage ==
    ~disturbed /\ workerPc # "down" =>
        /\ Elements(m_messagesToSend) \subseteq m_storage
        /\ \A r \in m_storage \ Elements(m_messagesToSend) :
             r.message \in answered \/ r \in unloaded
        /\ InIdOrder(m_messagesToSend)

\* What clearData deleted is neither queued nor stored again.
ClearedStaysCleared ==
    /\ cleared \cap Stored = {}
    /\ \A r \in Elements(m_messagesToSend) : r.message \notin cleared

\* That holds unless a clearData was disturbed.
ClearedUndisturbed == ~disturbed => ClearedStaysCleared

\* The destructor returns, although AVS may never answer the current request: again and
\* again no sender is being destroyed.
DestructorReturns == []<>(~m_isShuttingDown \/ disturbed)

\* Every accepted message is eventually answered, through disconnections, retries
\* and restarts: again and again nothing accepted waits for an answer.  One that a
\* load left out is owed an answer again after the next load that reads it.
StoredIsAnswered ==
    []<>(disturbed \/ Elements(order) \subseteq answered \cup cleared \cup PassedOver)
=============================================================================
