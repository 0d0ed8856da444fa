----------------------------- MODULE ContextManager -----------------------------
(***************************************************************************)
(* The states of the device for the next event                             *)
(* (context_manager/ContextManager.cpp): a requester asks for the context, *)
(* the state providers are asked for theirs, and the requester is called   *)
(* back with all of them, with an error, or when the timer of the request  *)
(* runs out.                                                               *)
(*                                                                         *)
(* Every public call but the registration of providers submits a task, and *)
(* the executor runs one task after the other; setState with a token looks *)
(* at the pending requests first, on its caller's thread.  A task's work   *)
(* under m_requestsMutex and the callback after it are one step, since the *)
(* executor alone answers.  The timers are those of util/MultiTimer.cpp,   *)
(* without time: a task that was not cancelled may run whenever it likes.  *)
(* One endpoint; a state is there or not.  Observers and metrics are left  *)
(* out.                                                                    *)
(***************************************************************************)
EXTENDS Naturals, Sequences, FiniteSets, Functions

CONSTANTS
    Capabilities,
    Retrievable,    \* those whose provider says canStateBeRetrieved
    Reportable,     \* those whose provider hasReportableStateProperties
    Legacy,         \* those whose provider answers with setState
    LegacyStates,   \* <<jsonState is not empty, refreshPolicy>> as given to setState
    MaxRequests,    \* bound: contexts asked for
    MaxAnswers,     \* bound: answers of providers
    MaxQueue,       \* bound: tasks that wait when another is submitted
    MaxChanges      \* bound: providers set or removed, states reported unasked

Tokens == 1..MaxRequests
EMPTY_TOKEN == 0
Policies == {"ALWAYS", "SOMETIMES", "NEVER"}

ASSUME ContextAssumption ==
    /\ Retrievable \cup Reportable \cup Legacy \subseteq Capabilities
    /\ LegacyStates \subseteq BOOLEAN \X Policies
    /\ {MaxRequests, MaxAnswers, MaxQueue, MaxChanges} \subseteq Nat

VARIABLES
    m_endpointsState,       \* capability -> its StateInfo, or NoInfo
    m_requestCounter,
    skips,                  \* token -> without reportable state properties
    m_pendingRequests,      \* token -> the timer of the request; the pending ones only
    m_pendingStateRequest,  \* token -> the capabilities still to answer
    m_nextToken, m_tasks,   \* MultiTimer: timer -> the token it is for
    queue,
    asked,                  \* the <<capability, token>> that provideState was called with
    responded,              \* history: those of them answered
    renewed,                \* history: those whose provider was set or removed since
    emptied,                \* history: those whose state was set to an empty one since
    callbacks,              \* token -> the callbacks its requester got
    missing,                \* token -> the capabilities whose state the context lacks
    answers, changes,
    strayCancel,            \* history: the timer of another request was cancelled
    destroyed

callerVars == <<answers, changes>>
requestVars == <<m_pendingRequests, m_pendingStateRequest, m_nextToken, m_tasks, asked,
                 responded, callbacks, missing, strayCancel>>
vars == <<m_endpointsState, m_requestCounter, skips, requestVars, queue, renewed, emptied,
          callerVars, destroyed>>

NoInfo == [here |-> FALSE, provider |-> FALSE, value |-> FALSE, legacy |-> FALSE,
           refreshPolicy |-> "ALWAYS"]

StateInfo(provider, value) ==
    [NoInfo EXCEPT !.here = TRUE, !.provider = provider, !.value = value]

LegacyStateInfo(provider, value, policy) ==
    [StateInfo(provider, value) EXCEPT !.legacy = TRUE, !.refreshPolicy = policy]

Init ==
    /\ m_endpointsState = [p \in Capabilities |-> StateInfo(TRUE, FALSE)]
    /\ m_requestCounter = 0 /\ skips = [r \in Tokens |-> FALSE]
    /\ m_pendingRequests = <<>> /\ m_pendingStateRequest = <<>>
    /\ m_nextToken = 0 /\ m_tasks = <<>> /\ queue = <<>>
    /\ asked = {} /\ responded = {} /\ renewed = {} /\ emptied = {}
    /\ callbacks = [r \in Tokens |-> <<>>] /\ missing = [r \in Tokens |-> {}]
    /\ answers = 0 /\ changes = 0
    /\ strayCancel = FALSE /\ destroyed = FALSE

Erased(f, k) == Restrict(f, DOMAIN f \ {k})
With(f, k, v) == [x \in DOMAIN f \cup {k} |-> IF x = k THEN v ELSE f[x]]

---------------------------------------------------------------------------
(* The callers                                                             *)

Submit(task) ==
    /\ ~destroyed /\ Len(queue) < MaxQueue /\ queue' = Append(queue, task)
    /\ UNCHANGED <<m_endpointsState, requestVars, renewed, emptied, destroyed>>

\* addStateProvider and removeStateProvider; both forget the state.
SetProvider(p, info) ==
    /\ ~destroyed /\ changes < MaxChanges /\ changes' = changes + 1
    /\ m_endpointsState' = [m_endpointsState EXCEPT ![p] = info]
    /\ renewed' = renewed \cup {<<p, r>> : r \in DOMAIN m_pendingRequests}
    /\ UNCHANGED <<m_requestCounter, skips, requestVars, queue, emptied, answers,
                   destroyed>>

setStateProvider(p) == SetProvider(p, StateInfo(TRUE, FALSE)) \/ SetProvider(p, NoInfo)

getContext(skip) ==
    /\ m_requestCounter < MaxRequests
    /\ m_requestCounter' = m_requestCounter + 1
    /\ skips' = [skips EXCEPT ![m_requestCounter'] = skip]
    /\ Submit([op |-> "get", r |-> m_requestCounter'])
    /\ UNCHANGED callerVars

\* A provider answers what it was asked, once or again.
Answers == answers < MaxAnswers /\ answers' = answers + 1
Asked(p, r) == <<p, r>> \in asked

setState(p, r, state) ==
    /\ \/ r = EMPTY_TOKEN /\ changes < MaxChanges /\ changes' = changes + 1 /\ UNCHANGED answers
       \/ /\ Asked(p, r) /\ Answers /\ UNCHANGED changes
          /\ r \in DOMAIN m_pendingStateRequest /\ p \in m_pendingStateRequest[r]
    /\ Submit([op |-> "set", p |-> p, r |-> r, value |-> state[1], policy |-> state[2]])
    /\ UNCHANGED <<m_requestCounter, skips>>

provideStateResponse(p, r) ==
    /\ Asked(p, r) /\ Answers
    /\ Submit([op |-> "provide", p |-> p, r |-> r])
    /\ UNCHANGED <<m_requestCounter, skips, changes>>

provideStateUnavailableResponse(p, r, unreachable) ==
    /\ Asked(p, r) /\ Answers
    /\ Submit([op |-> "unavailable", p |-> p, r |-> r, unreachable |-> unreachable])
    /\ UNCHANGED <<m_requestCounter, skips, changes>>

reportStateChange(p) ==
    /\ changes < MaxChanges /\ changes' = changes + 1
    /\ Submit([op |-> "report", p |-> p])
    /\ UNCHANGED <<m_requestCounter, skips, answers>>

\* ~ContextManager: the executor drops its tasks, the timers stay.
Destroy ==
    /\ ~destroyed /\ destroyed' = TRUE
    /\ queue' = <<>> /\ m_pendingRequests' = <<>> /\ m_pendingStateRequest' = <<>>
    /\ UNCHANGED <<m_endpointsState, m_requestCounter, skips, m_nextToken, m_tasks, asked,
                   responded, renewed, emptied, callbacks, missing, callerVars, strayCancel>>

\* MultiTimer::executeTimer; its task uses the ContextManager, which must still be there.
TimerFires(t) ==
    /\ t \in DOMAIN m_tasks /\ ~destroyed
    /\ queue' = Append(queue, [op |-> "timeout", r |-> m_tasks[t]])
    /\ m_tasks' = Erased(m_tasks, t)
    /\ UNCHANGED <<m_endpointsState, m_requestCounter, skips, m_pendingRequests,
                   m_pendingStateRequest, m_nextToken, asked, responded, renewed, emptied,
                   callbacks, missing, callerVars, strayCancel, destroyed>>

---------------------------------------------------------------------------
(* Answering a request                                                     *)

\* operator[] of m_pendingRequests makes a tracker for a request that is gone; its timer
\* token is 0, which is the first timer that was ever submitted.
TimerOf(r, requests) == IF r \in DOMAIN requests THEN requests[r] ELSE 0

\* (Mutant: the request is not forgotten.)
AnswerKeepingRequest(r, requests, tasks, result) ==
    /\ m_pendingRequests' = requests /\ m_tasks' = Erased(tasks, TimerOf(r, requests))
    /\ m_pendingStateRequest' = Erased(m_pendingStateRequest, r)
    /\ callbacks' = IF r \in DOMAIN requests
                    THEN [callbacks EXCEPT ![r] = Append(@, result)] ELSE callbacks
    /\ UNCHANGED strayCancel

\* The request is forgotten, its timer cancelled and its requester called back.
Answer(r, requests, tasks, result) ==
    LET timer == TimerOf(r, requests)
    IN  /\ m_pendingRequests' = Erased(requests, r)
        /\ m_pendingStateRequest' = Erased(m_pendingStateRequest, r)
        /\ m_tasks' = Erased(tasks, timer)
        /\ callbacks' = IF r \in DOMAIN requests
                        THEN [callbacks EXCEPT ![r] = Append(@, result)] ELSE callbacks
        /\ strayCancel' = (strayCancel \/ (r \notin DOMAIN requests /\ timer \in DOMAIN tasks))

\* (Mutant: the requester is not called back.)
FailureUnreported(r) ==
    /\ m_pendingRequests' = Erased(m_pendingRequests, r)
    /\ m_pendingStateRequest' = Erased(m_pendingStateRequest, r)
    /\ m_tasks' = Erased(m_tasks, TimerOf(r, m_pendingRequests))
    /\ UNCHANGED <<m_nextToken, asked, callbacks, missing, strayCancel>>

getContextFailureCallbackLocked(r) ==
    /\ Answer(r, m_pendingRequests, m_tasks, "failure")
    /\ UNCHANGED <<m_nextToken, asked, missing>>

\* The capabilities that go into the context, and those that go in without a state: the
\* value() of an empty Optional is logged and adds an empty state.  A legacy capability may
\* be among them, if its policy is ALWAYS or NEVER.
Added(r, info) ==
    {p \in Capabilities : /\ info[p].here
                          /\ IF info[p].legacy
                             THEN info[p].refreshPolicy = "SOMETIMES" => info[p].value
                             ELSE /\ info[p].provider /\ p \in Retrievable
                                  /\ p \in Reportable => ~skips[r]}

Lacking(r, info) == {p \in Added(r, info) : ~info[p].value}

\* (Mutant: the last state is not waited for.)
AvailableButOne(r, requests, tasks, states, info) ==
    IF Cardinality(states) > 1
    THEN /\ m_pendingStateRequest' = With(m_pendingStateRequest, r, states)
         /\ m_pendingRequests' = requests /\ m_tasks' = tasks
         /\ UNCHANGED <<callbacks, missing, strayCancel>>
    ELSE /\ Answer(r, requests, tasks, "available")
         /\ missing' = IF r \in DOMAIN requests
                       THEN [missing EXCEPT ![r] = Lacking(r, info)] ELSE missing

\* states: the capabilities of r still to answer.
getContextAvailableCallbackIfReadyLocked(r, requests, tasks, states, info) ==
    IF states # {}
    THEN /\ m_pendingStateRequest' = With(m_pendingStateRequest, r, states)
         /\ m_pendingRequests' = requests /\ m_tasks' = tasks
         /\ UNCHANGED <<callbacks, missing, strayCancel>>
    ELSE /\ Answer(r, requests, tasks, "available")
         /\ missing' = IF r \in DOMAIN requests
                       THEN [missing EXCEPT ![r] = Lacking(r, info)] ELSE missing

---------------------------------------------------------------------------
(* The executor's tasks                                                    *)

NextIs(op) == queue # <<>> /\ Head(queue).op = op
Popped ==
    /\ queue' = Tail(queue)
    /\ UNCHANGED <<m_requestCounter, skips, renewed, callerVars, destroyed>>

\* Which capabilities a context with token r asks.
Requested(r) ==
    {p \in Capabilities :
        LET info == m_endpointsState[p]
        IN  /\ info.provider
            /\ IF info.legacy THEN info.refreshPolicy # "NEVER"
               ELSE p \in Retrievable /\ (p \in Reportable => ~skips[r])}

GetContext ==
    /\ NextIs("get") /\ Popped /\ UNCHANGED emptied
    /\ LET r == Head(queue).r
       IN  /\ getContextAvailableCallbackIfReadyLocked(r, With(m_pendingRequests, r, m_nextToken),
                  With(m_tasks, m_nextToken, r), Requested(r), m_endpointsState)
           /\ asked' = asked \cup (Requested(r) \X {r})
    /\ m_nextToken' = m_nextToken + 1
    /\ UNCHANGED <<m_endpointsState, responded>>

TimedOut ==
    /\ NextIs("timeout") /\ Popped /\ UNCHANGED emptied
    /\ getContextFailureCallbackLocked(Head(queue).r)
    /\ UNCHANGED <<m_endpointsState, responded>>

PendingStates(r) ==
    IF r \in DOMAIN m_pendingStateRequest THEN m_pendingStateRequest[r] ELSE {}

Responds(task) == responded' = responded \cup {<<task.p, task.r>>}

\* The request may be gone by the time the task runs.
SetState ==
    /\ NextIs("set") /\ Popped
    /\ LET task == Head(queue)
           info == [m_endpointsState EXCEPT ![task.p] =
                       LegacyStateInfo(@.provider, task.value, task.policy)]
       IN  /\ m_endpointsState' = info
           /\ emptied' = emptied \cup
                  {<<task.p, r>> : r \in IF task.value THEN {} ELSE DOMAIN m_pendingRequests}
           /\ IF task.r = EMPTY_TOKEN THEN UNCHANGED requestVars
              ELSE /\ Responds(task)
                   /\ IF ~task.value /\ task.policy = "ALWAYS"
                      THEN getContextFailureCallbackLocked(task.r)
                      ELSE /\ getContextAvailableCallbackIfReadyLocked(task.r, m_pendingRequests,
                                  m_tasks, PendingStates(task.r) \ {task.p}, info)
                           /\ UNCHANGED <<m_nextToken, asked>>

Outdated(task) == task.p \notin PendingStates(task.r)

ProvideStateResponse ==
    /\ NextIs("provide") /\ Popped /\ UNCHANGED emptied
    /\ LET task == Head(queue)
           info == [m_endpointsState EXCEPT ![task.p] = StateInfo(@.provider, TRUE)]
       IN  IF Outdated(task) THEN UNCHANGED <<m_endpointsState, requestVars>>
           ELSE /\ m_endpointsState' = info /\ Responds(task)
                /\ getContextAvailableCallbackIfReadyLocked(task.r, m_pendingRequests, m_tasks,
                       PendingStates(task.r) \ {task.p}, info)
                /\ UNCHANGED <<m_nextToken, asked>>

ProvideStateUnavailableResponse ==
    /\ NextIs("unavailable") /\ Popped /\ UNCHANGED emptied
    /\ LET task == Head(queue)
       IN  IF Outdated(task) THEN UNCHANGED requestVars
           ELSE /\ Responds(task)
                /\ IF ~task.unreachable /\ m_endpointsState[task.p].value
                   THEN /\ getContextAvailableCallbackIfReadyLocked(task.r, m_pendingRequests,
                               m_tasks, PendingStates(task.r) \ {task.p}, m_endpointsState)
                        /\ UNCHANGED <<m_nextToken, asked>>
                   ELSE getContextFailureCallbackLocked(task.r)
    /\ UNCHANGED m_endpointsState

ReportStateChange ==
    /\ NextIs("report") /\ Popped /\ UNCHANGED emptied
    /\ m_endpointsState' =
           [m_endpointsState EXCEPT ![Head(queue).p] = StateInfo(@.provider, TRUE)]
    /\ UNCHANGED requestVars

ExecutorSteps ==
    \/ GetContext \/ TimedOut \/ SetState \/ ProvideStateResponse
    \/ ProvideStateUnavailableResponse \/ ReportStateChange

CallerSteps ==
    \/ \E skip \in BOOLEAN : getContext(skip)
    \/ \E p \in Capabilities : setStateProvider(p) \/ reportStateChange(p)
    \/ \E p \in Legacy, r \in Tokens \cup {EMPTY_TOKEN}, state \in LegacyStates :
          setState(p, r, state)
    \/ \E p \in Capabilities \ Legacy, r \in Tokens :
          \/ provideStateResponse(p, r)
          \/ \E unreachable \in BOOLEAN : provideStateUnavailableResponse(p, r, unreachable)
    \/ Destroy

Next == CallerSteps \/ ExecutorSteps \/ \E t \in 0..(MaxRequests - 1) : TimerFires(t)

Spec == Init /\ [][Next]_vars

\* The executor and the timer's thread run; providers may never answer.
FairSpec ==
    /\ Spec /\ WF_vars(ExecutorSteps)
    /\ WF_vars(\E t \in 0..(MaxRequests - 1) : TimerFires(t))

---------------------------------------------------------------------------
(* Properties                                                              *)

\* A requester is called back at most once, however the last state, an error, a second
\* answer and the timeout of its request come together.
AnsweredOnce == \A r \in Tokens : Len(callbacks[r]) <= 1

\* A context is handed out when every provider that was asked for this very request has
\* answered, and it holds the state of each of them, with two exceptions: the provider was
\* replaced while the request was pending, or the state was then set to an empty one
\* (setState of any policy, as the answer to this request, to another or to none), which
\* for an ALWAYS or NEVER capability goes into the context as it is.  A capability that is
\* in the context without having been asked (NEVER) may be empty; nothing is said of it.
CompleteContext ==
    \A r \in Tokens : callbacks[r] = <<"available">> =>
        /\ {a \in asked : a[2] = r} \subseteq responded
        /\ \A p \in missing[r] : Asked(p, r) => <<p, r>> \in renewed \cup emptied

\* Everyone who asks for a context is called back, even if the providers never answer.
EveryRequestAnswered ==
    \A r \in Tokens :
        (m_requestCounter >= r) ~> (callbacks[r] # <<>> \/ destroyed \/ strayCancel)
====
