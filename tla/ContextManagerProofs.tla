--------------------------- MODULE ContextManagerProofs ---------------------------
(***************************************************************************)
(* Proofs about ContextManager, for every set of capabilities, every mix   *)
(* of legacy, retrievable and reportable ones, and every bound: a request  *)
(* is answered at most once, and a context that is handed out holds the    *)
(* state of everybody who was asked for it, was not replaced and did not   *)
(* set an empty one.                                                       *)
(***************************************************************************)
EXTENDS ContextManager, TLAPS

USE ContextAssumption

-----------------------------------------------------------------------------
(* The inductive invariant *)

Info == [here : BOOLEAN, provider : BOOLEAN, value : BOOLEAN, legacy : BOOLEAN,
         refreshPolicy : Policies]

\* The tasks of the executor.
Tasks ==
    [op : {"get", "timeout"}, r : Tokens]
      \cup [op : {"set"}, p : Capabilities, r : Tokens \cup {EMPTY_TOKEN}, value : BOOLEAN,
            policy : Policies]
      \cup [op : {"provide"}, p : Capabilities, r : Tokens]
      \cup [op : {"unavailable"}, p : Capabilities, r : Tokens, unreachable : BOOLEAN]
      \cup [op : {"report"}, p : Capabilities]

Types ==
    /\ m_endpointsState \in [Capabilities -> Info]
    /\ m_requestCounter \in Nat
    /\ DOMAIN m_pendingRequests \subseteq Tokens
    /\ \A t \in DOMAIN m_tasks : m_tasks[t] \in Tokens
    /\ queue \in Seq(Tasks)
    /\ asked \subseteq Capabilities \X Tokens
    /\ callbacks \in [Tokens -> Seq({"available", "failure"})]
    /\ missing \in [Tokens -> SUBSET Capabilities]

\* Positions of the queue with a task of getContext, and with an answer to a request.
GetAt(i) == i \in 1..Len(queue) /\ queue[i].op = "get"
AnswerAt(i) ==
    /\ i \in 1..Len(queue) /\ queue[i].op \in {"set", "provide", "unavailable"}
    /\ queue[i].r # EMPTY_TOKEN

\* A request the executor has not come to.
Fresh(r) == r > m_requestCounter \/ \E i \in 1..Len(queue) : GetAt(i) /\ queue[i].r = r

\* Each request is submitted once, with a token that was not given before.
SubmittedOnce ==
    \A i \in 1..Len(queue) : GetAt(i) =>
        /\ queue[i].r =< m_requestCounter
        /\ \A j \in 1..Len(queue) : GetAt(j) /\ queue[j].r = queue[i].r => j = i

\* Nothing is known of a request before the executor comes to it.
FreshUntouched ==
    \A r \in Tokens : Fresh(r) =>
        /\ r \notin DOMAIN m_pendingRequests
        /\ callbacks[r] = <<>>
        /\ \A p \in Capabilities : <<p, r>> \notin asked

\* Only what was asked is answered.
AnswersAsked ==
    /\ responded \subseteq asked
    /\ \A i \in 1..Len(queue) : AnswerAt(i) => <<queue[i].p, queue[i].r>> \in asked

\* A pending request waits for everybody who was asked and has not answered, and whoever
\* has answered left a state behind, unless the provider was replaced or the state emptied.
PendingWaits ==
    \A r \in DOMAIN m_pendingRequests :
        /\ callbacks[r] = <<>>
        /\ \A p \in Capabilities :
             /\ <<p, r>> \in asked \ responded => p \in PendingStates(r)
             /\ <<p, r>> \in responded =>
                  m_endpointsState[p].value \/ <<p, r>> \in renewed \cup emptied

IInv ==
    /\ Types /\ SubmittedOnce /\ FreshUntouched /\ AnswersAsked /\ PendingWaits
    /\ AnsweredOnce /\ CompleteContext

-----------------------------------------------------------------------------
(* Maps, tasks and the queue *)

\* map::erase.
LEMMA ErasedFacts ==
    ASSUME NEW f, NEW k
    PROVE  /\ DOMAIN Erased(f, k) = DOMAIN f \ {k}
           /\ \A x \in DOMAIN f \ {k} : Erased(f, k)[x] = f[x]
BY DEF Erased, Restrict

\* map::operator[] with an assignment.
LEMMA WithFacts ==
    ASSUME NEW f, NEW k, NEW v
    PROVE  /\ DOMAIN With(f, k, v) = DOMAIN f \cup {k}
           /\ With(f, k, v)[k] = v
           /\ \A x \in DOMAIN f \ {k} : With(f, k, v)[x] = f[x]
BY DEF With

\* What a task carries.
LEMMA TaskFields ==
    ASSUME NEW task \in Tasks
    PROVE  /\ task.op \in {"get", "timeout"} => task.r \in Tokens
           /\ task.op = "set" => /\ task.p \in Capabilities
                                 /\ task.r \in Tokens \cup {EMPTY_TOKEN}
                                 /\ task.value \in BOOLEAN /\ task.policy \in Policies
           /\ task.op \in {"provide", "unavailable"} => task.p \in Capabilities /\ task.r \in Tokens
           /\ task.op = "report" => task.p \in Capabilities
BY DEF Tasks

\* A task is submitted.
LEMMA QueueAppended ==
    ASSUME queue \in Seq(Tasks), NEW task \in Tasks, queue' = Append(queue, task)
    PROVE  /\ queue' \in Seq(Tasks) /\ Len(queue') = Len(queue) + 1
           /\ queue'[Len(queue) + 1] = task
           /\ \A i \in 1..Len(queue) : queue'[i] = queue[i]
OBVIOUS

\* The executor takes the first task.
LEMMA QueuePopped ==
    ASSUME queue \in Seq(Tasks), queue # <<>>, queue' = Tail(queue)
    PROVE  /\ queue' \in Seq(Tasks) /\ Len(queue) \in Nat /\ Len(queue) > 0
           /\ Len(queue') = Len(queue) - 1
           /\ Head(queue) = queue[1] /\ Head(queue) \in Tasks
           /\ \A i \in 1..Len(queue') : queue'[i] = queue[i + 1]
OBVIOUS

\* What a step does to the queue.
Submits(task) == queue' = Append(queue, task) /\ UNCHANGED m_requestCounter
SubmitsGet == /\ m_requestCounter' = m_requestCounter + 1
              /\ m_requestCounter' \in Tokens
              /\ queue' = Append(queue, [op |-> "get", r |-> m_requestCounter'])
Pops == queue # <<>> /\ queue' = Tail(queue) /\ UNCHANGED m_requestCounter

\* What a step can do to the queue of the executor and to the request counter.
LEMMA QueueMoves ==
    ASSUME Types, [Next]_vars
    PROVE  \/ UNCHANGED <<queue, m_requestCounter>>
           \/ queue' = <<>> /\ UNCHANGED m_requestCounter
           \/ SubmitsGet
           \/ \E task \in Tasks : task.op # "get" /\ Submits(task)
           \/ Pops
<1>1. ASSUME NEW skip \in BOOLEAN, getContext(skip) PROVE SubmitsGet
  BY <1>1 DEF getContext, Submit, SubmitsGet, Tokens, Types
<1>2. ASSUME NEW p \in Capabilities, setStateProvider(p)
      PROVE  UNCHANGED <<queue, m_requestCounter>>
  BY <1>2 DEF setStateProvider, SetProvider
<1>3. ASSUME NEW p \in Capabilities, reportStateChange(p)
      PROVE  \E task \in Tasks : task.op # "get" /\ Submits(task)
  <2>1. [op |-> "report", p |-> p] \in Tasks
    BY DEF Tasks
  <2> QED BY <1>3, <2>1 DEF reportStateChange, Submit, Submits
<1>4. ASSUME NEW p \in Legacy, NEW r \in Tokens \cup {EMPTY_TOKEN}, NEW state \in LegacyStates,
             setState(p, r, state)
      PROVE  \E task \in Tasks : task.op # "get" /\ Submits(task)
  <2>1. p \in Capabilities /\ state[1] \in BOOLEAN /\ state[2] \in Policies
    OBVIOUS
  <2>2. [op |-> "set", p |-> p, r |-> r, value |-> state[1], policy |-> state[2]] \in Tasks
    BY <2>1 DEF Tasks
  <2> QED BY <1>4, <2>2 DEF setState, Submit, Submits
<1>5. ASSUME NEW p \in Capabilities \ Legacy, NEW r \in Tokens, provideStateResponse(p, r)
      PROVE  \E task \in Tasks : task.op # "get" /\ Submits(task)
  <2>1. [op |-> "provide", p |-> p, r |-> r] \in Tasks
    BY DEF Tasks
  <2> QED BY <1>5, <2>1 DEF provideStateResponse, Submit, Submits
<1>6. ASSUME NEW p \in Capabilities \ Legacy, NEW r \in Tokens, NEW unreachable \in BOOLEAN,
             provideStateUnavailableResponse(p, r, unreachable)
      PROVE  \E task \in Tasks : task.op # "get" /\ Submits(task)
  <2>1. [op |-> "unavailable", p |-> p, r |-> r, unreachable |-> unreachable] \in Tasks
    BY DEF Tasks
  <2> QED BY <1>6, <2>1 DEF provideStateUnavailableResponse, Submit, Submits
<1>7. ASSUME Destroy PROVE queue' = <<>> /\ UNCHANGED m_requestCounter
  BY <1>7 DEF Destroy
<1>8. ASSUME NEW t \in 0..(MaxRequests - 1), TimerFires(t)
      PROVE  \E task \in Tasks : task.op # "get" /\ Submits(task)
  <2>1. [op |-> "timeout", r |-> m_tasks[t]] \in Tasks
    BY <1>8 DEF Tasks, TimerFires, Types
  <2> QED BY <1>8, <2>1 DEF TimerFires, Submits
<1>9. ASSUME ExecutorSteps PROVE Pops
  BY <1>9 DEF ExecutorSteps, GetContext, TimedOut, SetState, ProvideStateResponse,
     ProvideStateUnavailableResponse, ReportStateChange, NextIs, Popped, Pops
<1>10. ASSUME UNCHANGED vars PROVE UNCHANGED <<queue, m_requestCounter>>
  BY <1>10 DEF vars
<1> QED
  BY <1>1, <1>2, <1>3, <1>4, <1>5, <1>6, <1>7, <1>8, <1>9, <1>10 DEF Next, CallerSteps

\* Every step keeps the tokens apart, no request becomes fresh again, and the one the
\* executor takes is not fresh any more.
LEMMA QueueNext ==
    ASSUME Types, SubmittedOnce, [Next]_vars
    PROVE  /\ SubmittedOnce'
           /\ \A r \in Tokens : Fresh(r)' => Fresh(r)
           /\ \A r : GetContext /\ r = Head(queue).r => Fresh(r) /\ ~Fresh(r)'
<1>0. queue \in Seq(Tasks) /\ Len(queue) \in Nat /\ m_requestCounter \in Nat /\ Tokens \subseteq Nat
  BY DEF Types, Tokens
<1>g. GetContext => Pops /\ queue[1].op = "get" /\ Head(queue) = queue[1]
  BY <1>0 DEF GetContext, NextIs, Popped, Pops
<1>1. CASE UNCHANGED <<queue, m_requestCounter>>
  <2>1. ~GetContext
    <3>1. Pops => Len(queue') = Len(queue) - 1
      BY <1>0, QueuePopped DEF Pops
    <3> QED BY <1>0, <1>1, <1>g, <3>1
  <2> QED BY <1>1, <2>1 DEF SubmittedOnce, Fresh, GetAt
<1>2. CASE queue' = <<>> /\ UNCHANGED m_requestCounter /\ ~Pops
  BY <1>0, <1>2, <1>g DEF SubmittedOnce, Fresh, GetAt
<1>3. CASE SubmitsGet
  <2>1. [op |-> "get", r |-> m_requestCounter'] \in Tasks
    BY <1>3 DEF SubmitsGet, Tasks
  <2>2. /\ Len(queue') = Len(queue) + 1
        /\ queue'[Len(queue) + 1] = [op |-> "get", r |-> m_requestCounter + 1]
        /\ \A i \in 1..Len(queue) : queue'[i] = queue[i]
        /\ m_requestCounter' = m_requestCounter + 1
    BY <1>0, <1>3, <2>1, QueueAppended DEF SubmitsGet
  <2>a. /\ \A i : GetAt(i)' => \/ i = Len(queue) + 1 /\ queue'[i].r = m_requestCounter + 1
                               \/ GetAt(i) /\ queue'[i].r = queue[i].r
        /\ \A i : GetAt(i) => i \in 1..Len(queue)
    BY <1>0, <2>2 DEF GetAt
  <2>b. \A i : GetAt(i) => queue[i].r =< m_requestCounter /\ queue[i].r \in Nat
    <3> SUFFICES ASSUME NEW i, GetAt(i)
                 PROVE  queue[i].r =< m_requestCounter /\ queue[i].r \in Nat
      OBVIOUS
    <3>1. i \in 1..Len(queue) /\ queue[i] \in Tasks /\ queue[i].op = "get"
      BY <1>0 DEF GetAt
    <3> QED BY <1>0, <3>1, TaskFields DEF SubmittedOnce
  <2>3. SubmittedOnce'
    <3> SUFFICES ASSUME NEW i, GetAt(i)'
                 PROVE  /\ queue'[i].r =< m_requestCounter'
                        /\ \A j : GetAt(j)' /\ queue'[j].r = queue'[i].r => j = i
      BY DEF SubmittedOnce
    <3>1. CASE i = Len(queue) + 1 /\ queue'[i].r = m_requestCounter + 1
      BY <1>0, <2>2, <2>a, <2>b, <3>1
    <3>2. CASE GetAt(i) /\ queue'[i].r = queue[i].r
      BY <1>0, <2>2, <2>a, <2>b, <3>2 DEF SubmittedOnce
    <3> QED BY <2>a, <3>1, <3>2
  <2>4. \A r \in Tokens : Fresh(r)' => Fresh(r)
    BY <1>0, <2>2, <2>a DEF Fresh
  <2>5. ~GetContext
    <3>1. Pops => Len(queue') = Len(queue) - 1
      BY <1>0, QueuePopped DEF Pops
    <3> QED BY <1>0, <1>g, <2>2, <3>1
  <2> QED BY <2>3, <2>4, <2>5
<1>4. ASSUME NEW task \in Tasks, task.op # "get", Submits(task)
      PROVE  /\ SubmittedOnce' /\ \A r \in Tokens : Fresh(r)' => Fresh(r)
             /\ ~GetContext
  <2>2. /\ Len(queue') = Len(queue) + 1
        /\ queue'[Len(queue) + 1] = task
        /\ \A i \in 1..Len(queue) : queue'[i] = queue[i]
        /\ m_requestCounter' = m_requestCounter
    BY <1>0, <1>4, QueueAppended DEF Submits
  <2>3. SubmittedOnce'
    BY <1>0, <1>4, <2>2 DEF SubmittedOnce, GetAt
  <2>4. \A r \in Tokens : Fresh(r)' => Fresh(r)
    BY <1>0, <1>4, <2>2 DEF Fresh, GetAt
  <2>5. ~GetContext
    <3>1. ASSUME Pops PROVE FALSE
      BY <1>0, <2>2, <3>1, QueuePopped DEF Pops
    <3> QED BY <1>g, <3>1
  <2> QED BY <2>3, <2>4, <2>5
<1>5. CASE Pops
  <2>2. /\ Len(queue) > 0 /\ Len(queue') = Len(queue) - 1
        /\ \A i \in 1..Len(queue') : queue'[i] = queue[i + 1]
        /\ m_requestCounter' = m_requestCounter
    BY <1>0, <1>5, QueuePopped DEF Pops
  <2>a. \A i : GetAt(i)' => /\ i \in Nat /\ i > 0 /\ i + 1 \in 1..Len(queue)
                            /\ GetAt(i + 1) /\ queue'[i].r = queue[i + 1].r
    BY <1>0, <2>2 DEF GetAt
  <2>3. SubmittedOnce'
    <3> SUFFICES ASSUME NEW i, GetAt(i)'
                 PROVE  /\ queue'[i].r =< m_requestCounter'
                        /\ \A j : GetAt(j)' /\ queue'[j].r = queue'[i].r => j = i
      BY DEF SubmittedOnce
    <3>1. queue'[i].r =< m_requestCounter'
      BY <2>2, <2>a DEF SubmittedOnce
    <3>2. ASSUME NEW j, GetAt(j)', queue'[j].r = queue'[i].r PROVE j = i
      <4>1. j + 1 = i + 1
        BY <2>a, <3>2 DEF SubmittedOnce
      <4> QED BY <2>a, <3>2, <4>1
    <3> QED BY <3>1, <3>2
  <2>4. \A r \in Tokens : Fresh(r)' => Fresh(r)
    BY <1>0, <2>2, <2>a DEF Fresh
  <2>5. ASSUME GetContext, NEW r, r = Head(queue).r PROVE Fresh(r) /\ ~Fresh(r)'
    <3>1. GetAt(1) /\ r = queue[1].r
      BY <1>0, <1>g, <2>2, <2>5 DEF GetAt
    <3>2. Fresh(r)
      BY <1>0, <2>2, <3>1 DEF Fresh
    <3>3. queue[1].r =< m_requestCounter /\ queue[1].r \in Nat
      <4>1. queue[1] \in Tasks
        BY <1>0, <2>2
      <4> QED BY <1>0, <2>2, <3>1, <4>1, TaskFields DEF SubmittedOnce, GetAt
    <3>4. ASSUME NEW i, GetAt(i)', queue'[i].r = queue[1].r PROVE FALSE
      <4>1. i + 1 = 1
        BY <1>0, <2>2, <2>a, <3>1, <3>4 DEF SubmittedOnce
      <4> QED BY <2>a, <3>4, <4>1
    <3>5. ~Fresh(r)'
      <4>1. ~(r > m_requestCounter')
        BY <1>0, <2>2, <3>1, <3>3
      <4>2. \A i \in 1..Len(queue') : ~(GetAt(i)' /\ queue'[i].r = r)
        BY <3>1, <3>4
      <4> QED BY <4>1, <4>2 DEF Fresh
    <3> QED BY <3>2, <3>5
  <2> QED BY <2>3, <2>4, <2>5
<1> QED BY <1>1, <1>2, <1>3, <1>4, <1>5, QueueMoves

-----------------------------------------------------------------------------
(* What the executor's tasks do to a request *)

\* Request r, one of requests, goes on waiting for states.
Waits(r, requests, states) ==
    /\ DOMAIN m_pendingRequests' = DOMAIN requests
    /\ \A q : PendingStates(q)' = IF q = r THEN states ELSE PendingStates(q)
    /\ UNCHANGED <<callbacks, missing>>

\* Request r is forgotten, and answered if it was there.
Ends(r, requests, result) ==
    /\ DOMAIN m_pendingRequests' = DOMAIN requests \ {r}
    /\ \A q : q # r => PendingStates(q)' = PendingStates(q)
    /\ callbacks' = IF r \in DOMAIN requests
                    THEN [callbacks EXCEPT ![r] = Append(@, result)] ELSE callbacks

\* Answer ends a request.
LEMMA AnswerEnds ==
    ASSUME NEW r, NEW requests, NEW tasks, NEW result, Answer(r, requests, tasks, result)
    PROVE  /\ Ends(r, requests, result)
           /\ DOMAIN m_tasks' \subseteq DOMAIN tasks
           /\ \A t \in DOMAIN m_tasks' : m_tasks'[t] = tasks[t]
<1>1. DOMAIN m_pendingRequests' = DOMAIN requests \ {r}
  BY ErasedFacts DEF Answer
<1>2. ASSUME NEW q, q # r PROVE PendingStates(q)' = PendingStates(q)
  <2>1. m_pendingStateRequest' = Erased(m_pendingStateRequest, r)
    BY DEF Answer
  <2>2. /\ DOMAIN m_pendingStateRequest' = DOMAIN m_pendingStateRequest \ {r}
        /\ \A x \in DOMAIN m_pendingStateRequest \ {r} :
             m_pendingStateRequest'[x] = m_pendingStateRequest[x]
    BY <2>1, ErasedFacts
  <2> QED BY <1>2, <2>2 DEF PendingStates
<1>3. /\ DOMAIN m_tasks' = DOMAIN tasks \ {TimerOf(r, requests)}
      /\ \A t \in DOMAIN m_tasks' : m_tasks'[t] = tasks[t]
  <2>1. m_tasks' = Erased(tasks, TimerOf(r, requests))
    BY DEF Answer
  <2> QED BY <2>1, ErasedFacts
<1>4. callbacks' = IF r \in DOMAIN requests
                   THEN [callbacks EXCEPT ![r] = Append(@, result)] ELSE callbacks
  BY DEF Answer
<1>5. Ends(r, requests, result)
  BY <1>1, <1>2, <1>4 DEF Ends
<1> QED BY <1>3, <1>5

\* A request waits while states are missing, and is answered when none is.
LEMMA ReadyOrNot ==
    ASSUME NEW r, NEW requests, NEW tasks, NEW states, NEW info,
           getContextAvailableCallbackIfReadyLocked(r, requests, tasks, states, info)
    PROVE  /\ \/ states # {} /\ Waits(r, requests, states)
              \/ /\ states = {} /\ Ends(r, requests, "available")
                 /\ missing' = IF r \in DOMAIN requests
                               THEN [missing EXCEPT ![r] = Lacking(r, info)] ELSE missing
           /\ DOMAIN m_tasks' \subseteq DOMAIN tasks
           /\ \A t \in DOMAIN m_tasks' : m_tasks'[t] = tasks[t]
<1>1. CASE states # {}
  <2>1. /\ m_pendingStateRequest' = With(m_pendingStateRequest, r, states)
        /\ m_pendingRequests' = requests /\ m_tasks' = tasks
        /\ UNCHANGED <<callbacks, missing>>
    BY <1>1 DEF getContextAvailableCallbackIfReadyLocked
  <2>a. /\ DOMAIN m_pendingStateRequest' = DOMAIN m_pendingStateRequest \cup {r}
        /\ m_pendingStateRequest'[r] = states
        /\ \A x \in DOMAIN m_pendingStateRequest \ {r} :
             m_pendingStateRequest'[x] = m_pendingStateRequest[x]
    <3>1. /\ DOMAIN With(m_pendingStateRequest, r, states) = DOMAIN m_pendingStateRequest \cup {r}
          /\ With(m_pendingStateRequest, r, states)[r] = states
          /\ \A x \in DOMAIN m_pendingStateRequest \ {r} :
               With(m_pendingStateRequest, r, states)[x] = m_pendingStateRequest[x]
      BY DEF With
    <3> QED BY <2>1, <3>1
  <2>2. \A q : PendingStates(q)' = IF q = r THEN states ELSE PendingStates(q)
    BY <2>a DEF PendingStates
  <2> QED BY <1>1, <2>1, <2>2 DEF Waits
<1>2. CASE states = {}
  <2>1. /\ Answer(r, requests, tasks, "available")
        /\ missing' = IF r \in DOMAIN requests
                      THEN [missing EXCEPT ![r] = Lacking(r, info)] ELSE missing
    BY <1>2 DEF getContextAvailableCallbackIfReadyLocked
  <2> QED BY <1>2, <2>1, AnswerEnds
<1> QED BY <1>1, <1>2

\* Whoever has left a state behind is not without one after the step.
StatesKept ==
    \A p \in Capabilities :
        m_endpointsState[p].value =>
            \/ m_endpointsState'[p].value
            \/ \A r \in DOMAIN m_pendingRequests : <<p, r>> \in renewed' \cup emptied'

\* Five kinds of steps: no request is concerned, all are dropped, one is taken up, one
\* is answered for by provider p, and one times out.
Quiet ==
    /\ UNCHANGED <<m_pendingRequests, m_pendingStateRequest, callbacks, missing, asked,
                   responded>>
    /\ renewed \subseteq renewed' /\ emptied \subseteq emptied' /\ StatesKept
Drops ==
    /\ m_pendingRequests' = <<>>
    /\ UNCHANGED <<callbacks, missing, asked, responded, renewed, emptied>>
TakesUp(r, states) ==
    /\ r = Head(queue).r /\ GetContext
    /\ \E timer, tasks : getContextAvailableCallbackIfReadyLocked(r,
             With(m_pendingRequests, r, timer), tasks, states, m_endpointsState)
    /\ asked' = asked \cup (states \X {r})
    /\ UNCHANGED <<m_endpointsState, responded, renewed, emptied>>
AnswersFor(p, r) ==
    /\ <<p, r>> \in asked /\ UNCHANGED <<asked, renewed>> /\ emptied \subseteq emptied'
    /\ responded' = responded \cup {<<p, r>>}
    /\ m_endpointsState' \in [Capabilities -> Info] /\ StatesKept
    /\ \/ Ends(r, m_pendingRequests, "failure") /\ UNCHANGED missing
       \/ /\ \/ m_endpointsState'[p].value
             \/ r \in DOMAIN m_pendingRequests => <<p, r>> \in emptied'
          /\ \E tasks : getContextAvailableCallbackIfReadyLocked(r, m_pendingRequests, tasks,
                            PendingStates(r) \ {p}, m_endpointsState')
TimesOut(r) ==
    /\ Ends(r, m_pendingRequests, "failure")
    /\ UNCHANGED <<missing, m_endpointsState, asked, responded, renewed, emptied>>

\* A step is of one of the five kinds.
LEMMA StepKinds ==
    ASSUME Types, AnswersAsked, [Next]_vars
    PROVE  \/ Quiet \/ Drops
           \/ \E r \in Tokens, states \in SUBSET Capabilities : TakesUp(r, states)
           \/ \E p \in Capabilities, r \in Tokens : AnswersFor(p, r)
           \/ \E r \in Tokens : TimesOut(r)
<1> USE DEF requestVars, callerVars
<1>u. ASSUME UNCHANGED <<m_endpointsState, requestVars, renewed, emptied>> PROVE Quiet
  BY <1>u DEF Quiet, StatesKept
<1>h. queue # <<>> => Head(queue) = queue[1] /\ Head(queue) \in Tasks /\ 1 \in 1..Len(queue)
  BY DEF Types
<1>f. ASSUME NEW r, getContextFailureCallbackLocked(r)
      PROVE  Ends(r, m_pendingRequests, "failure") /\ UNCHANGED <<asked, missing>>
  BY <1>f, AnswerEnds DEF getContextFailureCallbackLocked
<1>1. ASSUME NEW skip \in BOOLEAN, getContext(skip) PROVE Quiet
  BY <1>1, <1>u DEF getContext, Submit
<1>2. ASSUME NEW p \in Capabilities, setStateProvider(p) PROVE Quiet
  <2>1. /\ UNCHANGED <<requestVars, emptied>>
        /\ renewed' = renewed \cup {<<p, r>> : r \in DOMAIN m_pendingRequests}
        /\ \A q \in Capabilities \ {p} : m_endpointsState'[q] = m_endpointsState[q]
    BY <1>2 DEF setStateProvider, SetProvider, Types
  <2> QED BY <2>1 DEF Quiet, StatesKept
<1>3. ASSUME NEW p \in Capabilities, reportStateChange(p) PROVE Quiet
  BY <1>3, <1>u DEF reportStateChange, Submit
<1>4. ASSUME NEW p \in Legacy, NEW r \in Tokens \cup {EMPTY_TOKEN}, NEW state \in LegacyStates,
             setState(p, r, state)
      PROVE  Quiet
  BY <1>4, <1>u DEF setState, Submit
<1>5. ASSUME NEW p \in Capabilities \ Legacy, NEW r \in Tokens, provideStateResponse(p, r)
      PROVE  Quiet
  BY <1>5, <1>u DEF provideStateResponse, Submit
<1>6. ASSUME NEW p \in Capabilities \ Legacy, NEW r \in Tokens, NEW unreachable \in BOOLEAN,
             provideStateUnavailableResponse(p, r, unreachable)
      PROVE  Quiet
  BY <1>6, <1>u DEF provideStateUnavailableResponse, Submit
<1>7. ASSUME Destroy PROVE Drops
  BY <1>7 DEF Destroy, Drops
<1>8. ASSUME NEW t \in 0..(MaxRequests - 1), TimerFires(t) PROVE Quiet
  BY <1>8 DEF TimerFires, Quiet, StatesKept
<1>9. ASSUME GetContext
      PROVE  \E r \in Tokens, states \in SUBSET Capabilities : TakesUp(r, states)
  <2> DEFINE r == Head(queue).r
  <2>1. r \in Tokens
    BY <1>9, <1>h, TaskFields DEF GetContext, NextIs
  <2>2. Requested(r) \in SUBSET Capabilities
    BY DEF Requested
  <2>3. TakesUp(r, Requested(r))
    BY <1>9 DEF GetContext, Popped, TakesUp
  <2> QED BY <2>1, <2>2, <2>3
<1>10. ASSUME TimedOut PROVE \E r \in Tokens : TimesOut(r)
  <2>1. Head(queue).r \in Tokens
    BY <1>10, <1>h, TaskFields DEF TimedOut, NextIs
  <2>2. getContextFailureCallbackLocked(Head(queue).r)
        /\ UNCHANGED <<m_endpointsState, responded, renewed, emptied>>
    BY <1>10 DEF TimedOut, Popped
  <2> QED BY <2>1, <2>2, <1>f DEF TimesOut
<1>11. ASSUME NEW task, task = Head(queue), queue # <<>>,
              task.op \in {"set", "provide", "unavailable"}, task.r # EMPTY_TOKEN
       PROVE  task.p \in Capabilities /\ task.r \in Tokens /\ <<task.p, task.r>> \in asked
  <2>1. AnswerAt(1) /\ task = queue[1] /\ task \in Tasks
    BY <1>11, <1>h DEF AnswerAt
  <2> QED BY <1>11, <1>h, <2>1, TaskFields DEF AnswersAsked
<1>12. ASSUME SetState PROVE Quiet \/ \E p \in Capabilities, r \in Tokens : AnswersFor(p, r)
  <2> DEFINE task == Head(queue)
             new == LegacyStateInfo(m_endpointsState[task.p].provider, task.value, task.policy)
  <2>1. /\ queue # <<>> /\ task.op = "set" /\ UNCHANGED renewed
        /\ m_endpointsState' = [m_endpointsState EXCEPT ![task.p] = new]
    BY <1>12 DEF SetState, NextIs, Popped
  <2>2. task.p \in Capabilities /\ task.value \in BOOLEAN /\ task.policy \in Policies
    BY <1>h, <2>1, TaskFields
  <2>3. (task.value => new.value) /\ new \in Info
    BY <2>2 DEF LegacyStateInfo, StateInfo, NoInfo, Info, Types
  <2>e. /\ emptied \subseteq emptied'
        /\ ~task.value => \A r \in DOMAIN m_pendingRequests : <<task.p, r>> \in emptied'
    <3>1. emptied' = emptied \cup
             {<<task.p, r>> : r \in IF task.value THEN {} ELSE DOMAIN m_pendingRequests}
      BY <1>12 DEF SetState
    <3> QED BY <3>1
  <2>v. m_endpointsState'[task.p].value
          \/ \A r \in DOMAIN m_pendingRequests : <<task.p, r>> \in emptied'
    <3> HIDE DEF new
    <3> QED BY <2>1, <2>2, <2>3, <2>e DEF Types
  <2>4. StatesKept /\ m_endpointsState' \in [Capabilities -> Info]
    <3> HIDE DEF new
    <3>1. \A q \in Capabilities \ {task.p} : m_endpointsState'[q] = m_endpointsState[q]
      BY <2>1 DEF Types
    <3> QED BY <2>1, <2>2, <2>3, <2>v, <3>1 DEF StatesKept, Types
  <2>5. CASE task.r = EMPTY_TOKEN
    <3>1. UNCHANGED requestVars
      BY <1>12, <2>5 DEF SetState
    <3> QED BY <2>1, <2>4, <2>e, <3>1 DEF Quiet
  <2>6. CASE task.r # EMPTY_TOKEN
    <3>1. /\ responded' = responded \cup {<<task.p, task.r>>}
          /\ \/ getContextFailureCallbackLocked(task.r)
             \/ /\ getContextAvailableCallbackIfReadyLocked(task.r, m_pendingRequests,
                        m_tasks, PendingStates(task.r) \ {task.p}, m_endpointsState')
                /\ UNCHANGED asked
      BY <1>12, <2>6 DEF SetState, Responds
    <3>2. task.r \in Tokens /\ <<task.p, task.r>> \in asked
      BY <1>11, <2>1, <2>6
    <3>3. AnswersFor(task.p, task.r)
      BY <1>f, <2>1, <2>4, <2>e, <2>v, <3>1, <3>2 DEF AnswersFor
    <3> QED BY <2>2, <3>2, <3>3
  <2> QED BY <2>5, <2>6
<1>13. ASSUME ProvideStateResponse
       PROVE  Quiet \/ \E p \in Capabilities, r \in Tokens : AnswersFor(p, r)
  <2> DEFINE task == Head(queue)
             new == StateInfo(m_endpointsState[task.p].provider, TRUE)
  <2>1. queue # <<>> /\ task.op = "provide" /\ UNCHANGED <<renewed, emptied>>
    BY <1>13 DEF ProvideStateResponse, NextIs, Popped
  <2>2. task.p \in Capabilities /\ task.r \in Tokens /\ task.r # EMPTY_TOKEN
    BY <1>h, <2>1, TaskFields DEF Tokens, EMPTY_TOKEN
  <2>3. CASE Outdated(task)
    BY <1>13, <1>u, <2>1, <2>3 DEF ProvideStateResponse
  <2>4. CASE ~Outdated(task)
    <3>1. /\ m_endpointsState' = [m_endpointsState EXCEPT ![task.p] = new]
          /\ responded' = responded \cup {<<task.p, task.r>>} /\ UNCHANGED asked
          /\ getContextAvailableCallbackIfReadyLocked(task.r, m_pendingRequests, m_tasks,
                 PendingStates(task.r) \ {task.p}, m_endpointsState')
      BY <1>13, <2>4 DEF ProvideStateResponse, Responds
    <3>2. new.value /\ new \in Info
      BY <2>2 DEF StateInfo, NoInfo, Info, Types, Policies
    <3>3. StatesKept /\ m_endpointsState'[task.p].value
          /\ m_endpointsState' \in [Capabilities -> Info]
      <4> HIDE DEF new
      <4> QED BY <2>2, <3>1, <3>2 DEF StatesKept, Types
    <3>4. <<task.p, task.r>> \in asked
      BY <1>11, <2>1, <2>2
    <3>5. AnswersFor(task.p, task.r)
      BY <2>1, <3>1, <3>3, <3>4 DEF AnswersFor
    <3> QED BY <2>2, <3>5
  <2> QED BY <2>3, <2>4
<1>14. ASSUME ProvideStateUnavailableResponse
       PROVE  Quiet \/ \E p \in Capabilities, r \in Tokens : AnswersFor(p, r)
  <2> DEFINE task == Head(queue)
  <2>1. queue # <<>> /\ task.op = "unavailable"
        /\ UNCHANGED <<renewed, emptied, m_endpointsState>>
    BY <1>14 DEF ProvideStateUnavailableResponse, NextIs, Popped
  <2>2. task.p \in Capabilities /\ task.r \in Tokens /\ task.r # EMPTY_TOKEN
    BY <1>h, <2>1, TaskFields DEF Tokens, EMPTY_TOKEN
  <2>3. CASE Outdated(task)
    BY <1>14, <1>u, <2>1, <2>3 DEF ProvideStateUnavailableResponse
  <2>4. CASE ~Outdated(task)
    <3>1. /\ responded' = responded \cup {<<task.p, task.r>>}
          /\ \/ getContextFailureCallbackLocked(task.r)
             \/ /\ m_endpointsState[task.p].value
                /\ getContextAvailableCallbackIfReadyLocked(task.r, m_pendingRequests,
                        m_tasks, PendingStates(task.r) \ {task.p}, m_endpointsState)
                /\ UNCHANGED asked
      BY <1>14, <2>4 DEF ProvideStateUnavailableResponse, Responds
    <3>2. StatesKept /\ m_endpointsState' \in [Capabilities -> Info]
      BY <2>1 DEF StatesKept, Types
    <3>3. <<task.p, task.r>> \in asked
      BY <1>11, <2>1, <2>2
    <3>4. AnswersFor(task.p, task.r)
      BY <1>f, <2>1, <3>1, <3>2, <3>3 DEF AnswersFor
    <3> QED BY <2>2, <3>4
  <2> QED BY <2>3, <2>4
<1>15. ASSUME ReportStateChange PROVE Quiet
  <2> DEFINE task == Head(queue)
             new == StateInfo(m_endpointsState[task.p].provider, TRUE)
  <2>1. /\ queue # <<>> /\ task.op = "report" /\ UNCHANGED <<renewed, emptied, requestVars>>
        /\ m_endpointsState' = [m_endpointsState EXCEPT ![task.p] = new]
    BY <1>15 DEF ReportStateChange, NextIs, Popped
  <2>2. task.p \in Capabilities
    BY <1>h, <2>1, TaskFields
  <2>3. new.value
    BY DEF StateInfo, NoInfo
  <2>4. StatesKept
    <3> HIDE DEF new
    <3> QED BY <2>1, <2>2, <2>3 DEF StatesKept, Types
  <2> QED BY <2>1, <2>4 DEF Quiet
<1>16. ASSUME UNCHANGED vars PROVE Quiet
  BY <1>16, <1>u DEF vars
<1> QED
  BY <1>1, <1>2, <1>3, <1>4, <1>5, <1>6, <1>7, <1>8, <1>9, <1>10, <1>12, <1>13, <1>14, <1>15,
     <1>16 DEF Next, CallerSteps, ExecutorSteps

-----------------------------------------------------------------------------
(* Every step keeps the invariant *)

\* The states keep their form.
LEMMA EndpointsTyped == ASSUME Types, [Next]_vars PROVE m_endpointsState' \in [Capabilities -> Info]
<1> USE DEF requestVars, callerVars
<1>h. queue # <<>> => Head(queue) \in Tasks
  BY DEF Types
<1>i. ASSUME NEW b, NEW v \in BOOLEAN, NEW y \in Policies, b \in BOOLEAN
      PROVE  StateInfo(b, v) \in Info /\ LegacyStateInfo(b, v, y) \in Info /\ NoInfo \in Info
  BY <1>i DEF StateInfo, LegacyStateInfo, NoInfo, Info, Policies
<1>b. \A p \in Capabilities : m_endpointsState[p].provider \in BOOLEAN
  BY DEF Types, Info
<1>y. "ALWAYS" \in Policies
  BY DEF Policies
<1>1. ASSUME NEW p \in Capabilities, NEW new \in Info,
             m_endpointsState' = [m_endpointsState EXCEPT ![p] = new]
      PROVE  m_endpointsState' \in [Capabilities -> Info]
  BY <1>1 DEF Types
<1>2. ASSUME NEW p \in Capabilities, setStateProvider(p)
      PROVE  m_endpointsState' \in [Capabilities -> Info]
  BY <1>1, <1>2, <1>i, <1>y DEF setStateProvider, SetProvider
<1>3. ASSUME SetState PROVE m_endpointsState' \in [Capabilities -> Info]
  <2>1. /\ queue # <<>> /\ Head(queue).op = "set"
        /\ m_endpointsState' = [m_endpointsState EXCEPT ![Head(queue).p] =
               LegacyStateInfo(m_endpointsState[Head(queue).p].provider, Head(queue).value,
                               Head(queue).policy)]
    BY <1>3 DEF SetState, NextIs
  <2>2. /\ Head(queue).p \in Capabilities
        /\ Head(queue).value \in BOOLEAN /\ Head(queue).policy \in Policies
    BY <1>h, <2>1, TaskFields
  <2> QED BY <1>1, <1>i, <1>b, <2>1, <2>2
<1>4. ASSUME ProvideStateResponse \/ ReportStateChange
      PROVE  m_endpointsState' \in [Capabilities -> Info]
  <2>1. /\ queue # <<>> /\ Head(queue).op \in {"provide", "report"}
        /\ \/ UNCHANGED m_endpointsState
           \/ m_endpointsState' = [m_endpointsState EXCEPT ![Head(queue).p] =
                  StateInfo(m_endpointsState[Head(queue).p].provider, TRUE)]
    BY <1>4 DEF ProvideStateResponse, ReportStateChange, NextIs
  <2>2. Head(queue).p \in Capabilities
    BY <1>h, <2>1, TaskFields
  <2>3. StateInfo(m_endpointsState[Head(queue).p].provider, TRUE) \in Info
    BY <1>i, <1>b, <1>y, <2>2
  <2> QED BY <1>1, <2>1, <2>2, <2>3 DEF Types
<1>5. \/ UNCHANGED m_endpointsState \/ SetState \/ ProvideStateResponse \/ ReportStateChange
      \/ \E p \in Capabilities : setStateProvider(p)
  BY DEF Next, CallerSteps, ExecutorSteps, getContext, Submit, reportStateChange, setState,
         provideStateResponse, provideStateUnavailableResponse, Destroy, TimerFires, GetContext,
         TimedOut, ProvideStateUnavailableResponse, vars
<1> QED BY <1>2, <1>3, <1>4, <1>5 DEF Types

\* A timer is always one of a request.
LEMMA TimersTyped == ASSUME Types, [Next]_vars PROVE \A t \in DOMAIN m_tasks' : m_tasks'[t] \in Tokens
<1> USE DEF requestVars, callerVars
<1>h. queue # <<>> => Head(queue) \in Tasks
  BY DEF Types
<1>1. ASSUME DOMAIN m_tasks' \subseteq DOMAIN m_tasks,
             \A t \in DOMAIN m_tasks' : m_tasks'[t] = m_tasks[t]
      PROVE  \A t \in DOMAIN m_tasks' : m_tasks'[t] \in Tokens
  BY <1>1 DEF Types
<1>u. ASSUME UNCHANGED m_tasks PROVE \A t \in DOMAIN m_tasks' : m_tasks'[t] \in Tokens
  BY <1>u DEF Types
<1>2. ASSUME NEW t \in 0..(MaxRequests - 1), TimerFires(t)
      PROVE  \A u \in DOMAIN m_tasks' : m_tasks'[u] \in Tokens
  <2>1. m_tasks' = Erased(m_tasks, t)
    BY <1>2 DEF TimerFires
  <2>2. /\ DOMAIN m_tasks' = DOMAIN m_tasks \ {t}
        /\ \A u \in DOMAIN m_tasks' : m_tasks'[u] = m_tasks[u]
    BY <2>1, ErasedFacts
  <2> QED BY <1>1, <2>2
<1>3. ASSUME NEW r, getContextFailureCallbackLocked(r)
      PROVE  \A u \in DOMAIN m_tasks' : m_tasks'[u] \in Tokens
  BY <1>1, <1>3, AnswerEnds DEF getContextFailureCallbackLocked
<1>4. ASSUME NEW r, NEW states, NEW info,
             getContextAvailableCallbackIfReadyLocked(r, m_pendingRequests, m_tasks, states, info)
      PROVE  \A u \in DOMAIN m_tasks' : m_tasks'[u] \in Tokens
  BY <1>1, <1>4, ReadyOrNot
<1>5. ASSUME GetContext PROVE \A u \in DOMAIN m_tasks' : m_tasks'[u] \in Tokens
  <2> DEFINE r == Head(queue).r
             tasks == With(m_tasks, m_nextToken, r)
  <2>1. r \in Tokens
    BY <1>5, <1>h, TaskFields DEF GetContext, NextIs
  <2>2. getContextAvailableCallbackIfReadyLocked(r, With(m_pendingRequests, r, m_nextToken),
            tasks, Requested(r), m_endpointsState)
    BY <1>5 DEF GetContext
  <2>3. \A u \in DOMAIN tasks : tasks[u] \in Tokens
    BY <2>1 DEF With, Types
  <2> HIDE DEF tasks, r
  <2> QED BY <2>2, <2>3, ReadyOrNot
<1>6. \/ UNCHANGED m_tasks \/ GetContext \/ \E t \in 0..(MaxRequests - 1) : TimerFires(t)
      \/ \E r : getContextFailureCallbackLocked(r)
      \/ \E r, states, info :
           getContextAvailableCallbackIfReadyLocked(r, m_pendingRequests, m_tasks, states, info)
  <2>1. CallerSteps \/ ReportStateChange => UNCHANGED m_tasks
    BY DEF CallerSteps, getContext, Submit, setStateProvider, SetProvider, reportStateChange,
           setState, provideStateResponse, provideStateUnavailableResponse, Destroy,
           ReportStateChange
  <2>2. TimedOut => \E r : getContextFailureCallbackLocked(r)
    BY DEF TimedOut
  <2>3. SetState \/ ProvideStateResponse \/ ProvideStateUnavailableResponse =>
          \/ UNCHANGED m_tasks \/ \E r : getContextFailureCallbackLocked(r)
          \/ \E r, states, info :
               getContextAvailableCallbackIfReadyLocked(r, m_pendingRequests, m_tasks, states, info)
    BY DEF SetState, ProvideStateResponse, ProvideStateUnavailableResponse
  <2> QED BY <2>1, <2>2, <2>3 DEF Next, ExecutorSteps, vars
<1> QED BY <1>2, <1>3, <1>4, <1>5, <1>6, <1>u

\* An answer that ends a request of requests, all of them unanswered, leaves its
\* requester with this one result and every other as it was.
LEMMA EndsOnce ==
    ASSUME Types, NEW r \in Tokens, NEW requests, NEW result \in {"available", "failure"},
           Ends(r, requests, result), r \in DOMAIN requests => callbacks[r] = <<>>
    PROVE  /\ callbacks' \in [Tokens -> Seq({"available", "failure"})]
           /\ \A q \in Tokens \ {r} : callbacks'[q] = callbacks[q]
           /\ r \in DOMAIN requests => callbacks'[r] = <<result>>
           /\ r \notin DOMAIN requests => callbacks'[r] = callbacks[r]
<1>1. CASE r \in DOMAIN requests
  <2>1. callbacks' = [callbacks EXCEPT ![r] = Append(@, result)]
    BY <1>1 DEF Ends
  <2>a. Append(<<>>, result) = <<result>>
    OBVIOUS
  <2>2. callbacks' = [callbacks EXCEPT ![r] = <<result>>]
    BY <1>1, <2>1, <2>a
  <2>3. <<result>> \in Seq({"available", "failure"})
    OBVIOUS
  <2> QED BY <1>1, <2>2, <2>3 DEF Types
<1>2. CASE r \notin DOMAIN requests
  BY <1>2 DEF Ends, Types
<1> QED BY <1>1, <1>2

\* The parts of the invariant about requests, and the types they need.
Requests ==
    /\ DOMAIN m_pendingRequests \subseteq Tokens
    /\ asked \subseteq Capabilities \X Tokens
    /\ callbacks \in [Tokens -> Seq({"available", "failure"})]
    /\ missing \in [Tokens -> SUBSET Capabilities]
    /\ responded \subseteq asked
    /\ FreshUntouched /\ PendingWaits /\ AnsweredOnce /\ CompleteContext

\* A step that concerns no request keeps them.
LEMMA QuietKeeps ==
    ASSUME Types, Requests, Quiet, \A r \in Tokens : Fresh(r)' => Fresh(r)
    PROVE  Requests'
<1>1. FreshUntouched'
  BY DEF Quiet, Requests, FreshUntouched
<1>2. PendingWaits'
  <2> SUFFICES ASSUME NEW r \in DOMAIN m_pendingRequests
               PROVE  /\ callbacks'[r] = <<>>
                      /\ \A p \in Capabilities :
                           /\ <<p, r>> \in asked' \ responded' => p \in PendingStates(r)'
                           /\ <<p, r>> \in responded' =>
                                m_endpointsState'[p].value \/ <<p, r>> \in renewed' \cup emptied'
    BY DEF Quiet, PendingWaits
  <2>1. PendingStates(r)' = PendingStates(r)
    BY DEF Quiet, PendingStates
  <2> QED BY <2>1 DEF Quiet, Requests, PendingWaits, StatesKept
<1>3. AnsweredOnce' /\ CompleteContext'
  BY DEF Quiet, Requests, AnsweredOnce, CompleteContext, Asked
<1> QED BY <1>1, <1>2, <1>3 DEF Quiet, Requests

\* Neither does the destruction disturb them.
LEMMA DropsKeeps ==
    ASSUME Types, Requests, Drops, \A r \in Tokens : Fresh(r)' => Fresh(r)
    PROVE  Requests'
<1>0. DOMAIN m_pendingRequests' = {}
  BY DEF Drops
<1>1. FreshUntouched'
  BY <1>0 DEF Drops, Requests, FreshUntouched
<1>2. PendingWaits'
  BY <1>0 DEF PendingWaits
<1>3. AnsweredOnce' /\ CompleteContext'
  BY DEF Drops, Requests, AnsweredOnce, CompleteContext, Asked
<1> QED BY <1>0, <1>1, <1>2, <1>3 DEF Drops, Requests

\* A request that is taken up waits for those it asks, or has its answer.
LEMMA TakesUpKeeps ==
    ASSUME Types, Requests, NEW r \in Tokens, NEW states \in SUBSET Capabilities,
           TakesUp(r, states), Fresh(r), ~Fresh(r)', \A q \in Tokens : Fresh(q)' => Fresh(q)
    PROVE  Requests'
<1>0. /\ asked' = asked \cup (states \X {r})
      /\ UNCHANGED <<m_endpointsState, responded, renewed, emptied>>
  BY DEF TakesUp
<1>1. /\ r \notin DOMAIN m_pendingRequests /\ callbacks[r] = <<>>
      /\ \A p \in Capabilities : <<p, r>> \notin asked /\ <<p, r>> \notin responded
  BY DEF Requests, FreshUntouched
<1>2. PICK timer, tasks : getContextAvailableCallbackIfReadyLocked(r,
             With(m_pendingRequests, r, timer), tasks, states, m_endpointsState)
  BY DEF TakesUp
<1> DEFINE requests == With(m_pendingRequests, r, timer)
<1>3. DOMAIN requests = DOMAIN m_pendingRequests \cup {r}
  BY DEF With
<1>4. \/ states # {} /\ Waits(r, requests, states)
      \/ /\ states = {} /\ Ends(r, requests, "available")
         /\ missing' = [missing EXCEPT ![r] = Lacking(r, m_endpointsState)]
  BY <1>2, <1>3, ReadyOrNot
<1> HIDE DEF requests
<1>5. asked' \subseteq Capabilities \X Tokens /\ responded' \subseteq asked'
  BY <1>0 DEF Requests
<1>6. \A q \in Tokens \ {r}, p \in Capabilities : <<p, q>> \in asked' <=> <<p, q>> \in asked
  BY <1>0
<1>7. \A p \in Capabilities : <<p, r>> \in asked' => p \in states
  BY <1>0, <1>1
<1>8. CASE states # {} /\ Waits(r, requests, states)
  <2>1. /\ DOMAIN m_pendingRequests' = DOMAIN m_pendingRequests \cup {r}
        /\ \A q : PendingStates(q)' = IF q = r THEN states ELSE PendingStates(q)
        /\ UNCHANGED <<callbacks, missing>>
    BY <1>3, <1>8 DEF Waits
  <2>2. FreshUntouched'
    BY <1>6, <2>1 DEF Requests, FreshUntouched
  <2>3. PendingWaits'
    <3> SUFFICES ASSUME NEW q \in DOMAIN m_pendingRequests', NEW p \in Capabilities
                 PROVE  /\ callbacks'[q] = <<>>
                        /\ <<p, q>> \in asked' \ responded' => p \in PendingStates(q)'
                        /\ <<p, q>> \in responded' =>
                             m_endpointsState'[p].value \/ <<p, q>> \in renewed' \cup emptied'
      BY <1>1, <2>1 DEF PendingWaits, Requests
    <3>1. CASE q = r
      BY <1>0, <1>1, <1>7, <2>1, <3>1
    <3>2. CASE q # r
      BY <1>0, <1>6, <2>1, <3>2 DEF Requests, PendingWaits
    <3> QED BY <3>1, <3>2
  <2>4. AnsweredOnce'
    BY <2>1 DEF Requests, AnsweredOnce
  <2>5. CompleteContext'
    <3> SUFFICES ASSUME NEW q \in Tokens, callbacks'[q] = <<"available">>
                 PROVE  /\ {a \in asked' : a[2] = q} \subseteq responded'
                        /\ \A p \in missing'[q] :
                             <<p, q>> \in asked' => <<p, q>> \in renewed' \cup emptied'
      BY DEF CompleteContext, Asked
    <3>1. q # r
      BY <1>1, <2>1
    <3>2. {a \in asked' : a[2] = q} = {a \in asked : a[2] = q}
      BY <1>0, <3>1
    <3> QED BY <1>0, <1>6, <2>1, <3>1, <3>2 DEF Requests, CompleteContext, Asked
  <2> QED BY <1>5, <2>1, <2>2, <2>3, <2>4, <2>5 DEF Requests
<1>9. CASE /\ states = {} /\ Ends(r, requests, "available")
           /\ missing' = [missing EXCEPT ![r] = Lacking(r, m_endpointsState)]
  <2>1. /\ DOMAIN m_pendingRequests' = DOMAIN m_pendingRequests
        /\ \A q : q # r => PendingStates(q)' = PendingStates(q)
        /\ asked' = asked
    BY <1>0, <1>1, <1>3, <1>9 DEF Ends
  <2>2. /\ callbacks' \in [Tokens -> Seq({"available", "failure"})]
        /\ \A q \in Tokens \ {r} : callbacks'[q] = callbacks[q]
        /\ callbacks'[r] = <<"available">>
    BY <1>1, <1>3, <1>9, EndsOnce
  <2>3. /\ missing' \in [Tokens -> SUBSET Capabilities]
        /\ \A q \in Tokens \ {r} : missing'[q] = missing[q]
    BY <1>9 DEF Lacking, Added, Requests
  <2>4. FreshUntouched'
    BY <2>1, <2>2 DEF Requests, FreshUntouched
  <2>5. PendingWaits'
    BY <1>0, <1>1, <2>1, <2>2 DEF Requests, PendingWaits
  <2>6. AnsweredOnce'
    <3>1. Len(<<"available">>) = 1
      OBVIOUS
    <3>2. \A q \in Tokens \ {r} : Len(callbacks'[q]) <= 1
      BY <2>2 DEF Requests, AnsweredOnce
    <3>3. Len(callbacks'[r]) = 1
      BY <2>2, <3>1
    <3>4. 1 <= 1
      OBVIOUS
    <3> QED BY <3>2, <3>3, <3>4 DEF AnsweredOnce
  <2>7. CompleteContext'
    <3> SUFFICES ASSUME NEW q \in Tokens, callbacks'[q] = <<"available">>
                 PROVE  /\ {a \in asked : a[2] = q} \subseteq responded
                        /\ \A p \in missing'[q] :
                             <<p, q>> \in asked => <<p, q>> \in renewed \cup emptied
      BY <1>0, <2>1 DEF CompleteContext, Asked
    <3>1. CASE q = r
      <4>1. {a \in asked : a[2] = r} = {}
        BY <1>1 DEF Requests
      <4> QED BY <1>1, <2>3, <3>1, <4>1
    <3>2. CASE q # r
      BY <2>2, <2>3, <3>2 DEF Requests, CompleteContext, Asked
    <3> QED BY <3>1, <3>2
  <2> QED BY <1>5, <2>1, <2>2, <2>3, <2>4, <2>5, <2>6, <2>7 DEF Requests
<1> QED BY <1>4, <1>8, <1>9

\* A provider's answer keeps them: the last one ends the request with everybody's state,
\* and a failure ends it too.
LEMMA AnswersForKeeps ==
    ASSUME Types, Requests, NEW p \in Capabilities, NEW r \in Tokens, AnswersFor(p, r),
           \A q \in Tokens : Fresh(q)' => Fresh(q)
    PROVE  Requests'
<1>0. /\ <<p, r>> \in asked /\ UNCHANGED <<asked, renewed>> /\ emptied \subseteq emptied'
      /\ responded' = responded \cup {<<p, r>>} /\ StatesKept
  BY DEF AnswersFor
<1>1. ~Fresh(r)
  BY <1>0 DEF Requests, FreshUntouched
<1>2. responded' \subseteq asked'
  BY <1>0 DEF Requests
<1>3. \A q \in Tokens \ {r}, c \in Capabilities : <<c, q>> \in responded' <=> <<c, q>> \in responded
  BY <1>0
<1>a. r \in DOMAIN m_pendingRequests => callbacks[r] = <<>>
  BY DEF Requests, PendingWaits
\* The requests other than r, whichever way r goes.
<1>4. ASSUME NEW q \in DOMAIN m_pendingRequests, q # r, callbacks'[q] = callbacks[q],
             PendingStates(q)' = PendingStates(q)
      PROVE  /\ callbacks'[q] = <<>>
             /\ \A c \in Capabilities :
                  /\ <<c, q>> \in asked' \ responded' => c \in PendingStates(q)'
                  /\ <<c, q>> \in responded' =>
                       m_endpointsState'[c].value \/ <<c, q>> \in renewed' \cup emptied'
  <2>1. q \in Tokens
    BY DEF Requests
  <2> QED BY <1>0, <1>3, <1>4, <2>1 DEF Requests, PendingWaits, StatesKept
<1>5. ASSUME NEW q \in Tokens, callbacks'[q] = callbacks[q], missing'[q] = missing[q],
             callbacks'[q] = <<"available">>
      PROVE  /\ {a \in asked' : a[2] = q} \subseteq responded'
             /\ \A c \in missing'[q] :
                  <<c, q>> \in asked' => <<c, q>> \in renewed' \cup emptied'
  BY <1>0, <1>5 DEF Requests, CompleteContext, Asked
<1>6. CASE Ends(r, m_pendingRequests, "failure") /\ UNCHANGED missing
  <2>1. /\ DOMAIN m_pendingRequests' = DOMAIN m_pendingRequests \ {r}
        /\ \A q : q # r => PendingStates(q)' = PendingStates(q)
    BY <1>6 DEF Ends
  <2>2. /\ callbacks' \in [Tokens -> Seq({"available", "failure"})]
        /\ \A q \in Tokens \ {r} : callbacks'[q] = callbacks[q]
        /\ callbacks'[r] = callbacks[r] \/ callbacks'[r] = <<"failure">>
    BY <1>6, <1>a, EndsOnce
  <2>3. FreshUntouched'
    BY <1>0, <1>1, <2>1, <2>2 DEF Requests, FreshUntouched
  <2>4. PendingWaits'
    BY <1>4, <2>1, <2>2 DEF Requests, PendingWaits
  <2>5. AnsweredOnce'
    <3>1. Len(<<"failure">>) <= 1
      OBVIOUS
    <3>2. Len(callbacks'[r]) <= 1
      BY <2>2, <3>1 DEF Requests, AnsweredOnce
    <3> QED BY <2>2, <3>2 DEF Requests, AnsweredOnce
  <2>6. CompleteContext'
    <3>1. <<"failure">> # <<"available">>
      OBVIOUS
    <3> QED BY <1>5, <1>6, <2>2, <3>1 DEF CompleteContext, Asked
  <2> QED BY <1>0, <1>2, <1>6, <2>1, <2>2, <2>3, <2>4, <2>5, <2>6 DEF Requests
<1>7. ASSUME m_endpointsState'[p].value \/ (r \in DOMAIN m_pendingRequests => <<p, r>> \in emptied'),
             NEW tasks,
             getContextAvailableCallbackIfReadyLocked(r, m_pendingRequests, tasks,
                 PendingStates(r) \ {p}, m_endpointsState')
      PROVE  Requests'
  <2> DEFINE states == PendingStates(r) \ {p}
  \* Who has answered has left a state, and who has not is waited for.
  <2>1. ASSUME r \in DOMAIN m_pendingRequests, NEW c \in Capabilities
        PROVE  /\ <<c, r>> \in asked' \ responded' => c \in states
               /\ <<c, r>> \in responded' =>
                    m_endpointsState'[c].value \/ <<c, r>> \in renewed' \cup emptied'
    BY <1>0, <1>7, <2>1 DEF Requests, PendingWaits, StatesKept
  <2>2. \/ states # {} /\ Waits(r, m_pendingRequests, states)
        \/ /\ states = {} /\ Ends(r, m_pendingRequests, "available")
           /\ missing' = IF r \in DOMAIN m_pendingRequests
                         THEN [missing EXCEPT ![r] = Lacking(r, m_endpointsState')] ELSE missing
    BY <1>7, ReadyOrNot
  <2> HIDE DEF states
  <2>3. CASE Waits(r, m_pendingRequests, states)
    <3>1. /\ DOMAIN m_pendingRequests' = DOMAIN m_pendingRequests
          /\ \A q : PendingStates(q)' = IF q = r THEN states ELSE PendingStates(q)
          /\ UNCHANGED <<callbacks, missing>>
      BY <2>3 DEF Waits
    <3>2. FreshUntouched'
      BY <1>0, <3>1 DEF Requests, FreshUntouched
    <3>3. PendingWaits'
      <4> SUFFICES ASSUME NEW q \in DOMAIN m_pendingRequests
                   PROVE  /\ callbacks'[q] = <<>>
                          /\ \A c \in Capabilities :
                               /\ <<c, q>> \in asked' \ responded' => c \in PendingStates(q)'
                               /\ <<c, q>> \in responded' =>
                                    m_endpointsState'[c].value \/ <<c, q>> \in renewed' \cup emptied'
        BY <3>1 DEF PendingWaits
      <4>1. CASE q = r
        BY <1>a, <2>1, <3>1, <4>1
      <4>2. CASE q # r
        BY <1>4, <3>1, <4>2
      <4> QED BY <4>1, <4>2
    <3>4. AnsweredOnce'
      BY <3>1 DEF Requests, AnsweredOnce
    <3>5. CompleteContext'
      BY <1>5, <3>1 DEF CompleteContext, Asked
    <3> QED BY <1>0, <1>2, <3>1, <3>2, <3>3, <3>4, <3>5 DEF Requests
  <2>4. CASE /\ states = {} /\ Ends(r, m_pendingRequests, "available")
             /\ missing' = IF r \in DOMAIN m_pendingRequests
                           THEN [missing EXCEPT ![r] = Lacking(r, m_endpointsState')]
                           ELSE missing
    <3>1. /\ DOMAIN m_pendingRequests' = DOMAIN m_pendingRequests \ {r}
          /\ \A q : q # r => PendingStates(q)' = PendingStates(q)
      BY <2>4 DEF Ends
    <3>2. /\ callbacks' \in [Tokens -> Seq({"available", "failure"})]
          /\ \A q \in Tokens \ {r} : callbacks'[q] = callbacks[q]
          /\ r \in DOMAIN m_pendingRequests => callbacks'[r] = <<"available">>
          /\ r \notin DOMAIN m_pendingRequests => callbacks'[r] = callbacks[r]
      BY <2>4, <1>a, EndsOnce
    <3>3. FreshUntouched'
      BY <1>0, <1>1, <3>1, <3>2 DEF Requests, FreshUntouched
    <3>4. PendingWaits'
      BY <1>4, <3>1, <3>2 DEF Requests, PendingWaits
    <3>5. AnsweredOnce'
      <4>1. Len(<<"available">>) <= 1
        OBVIOUS
      <4>2. Len(callbacks'[r]) <= 1
        BY <3>2, <4>1 DEF Requests, AnsweredOnce
      <4> QED BY <3>2, <4>2 DEF Requests, AnsweredOnce
    <3>6. /\ missing' \in [Tokens -> SUBSET Capabilities]
          /\ \A q \in Tokens \ {r} : missing'[q] = missing[q]
          /\ r \notin DOMAIN m_pendingRequests => missing'[r] = missing[r]
          /\ r \in DOMAIN m_pendingRequests => missing'[r] = Lacking(r, m_endpointsState')
      <4>1. Lacking(r, m_endpointsState') \subseteq Capabilities
        BY DEF Lacking, Added
      <4> QED BY <2>4, <4>1 DEF Requests
    <3>7. CompleteContext'
      <4> SUFFICES ASSUME NEW q \in Tokens, callbacks'[q] = <<"available">>
                   PROVE  /\ {a \in asked' : a[2] = q} \subseteq responded'
                          /\ \A c \in missing'[q] :
                               <<c, q>> \in asked' => <<c, q>> \in renewed' \cup emptied'
        BY DEF CompleteContext, Asked
      <4>1. CASE q = r /\ r \in DOMAIN m_pendingRequests
        <5>1. \A c \in Capabilities : <<c, r>> \in asked' => <<c, r>> \in responded'
          BY <2>1, <2>4, <4>1
        <5>2. {a \in asked' : a[2] = r} \subseteq responded'
          BY <1>0, <5>1 DEF Requests
        <5>3. ASSUME NEW c \in Lacking(r, m_endpointsState'), <<c, r>> \in asked'
              PROVE  <<c, r>> \in renewed' \cup emptied'
          <6>1. c \in Capabilities /\ ~m_endpointsState'[c].value
            BY DEF Lacking, Added
          <6> QED BY <2>1, <4>1, <5>1, <5>3, <6>1
        <5> QED BY <3>6, <4>1, <5>2, <5>3
      <4>2. CASE ~(q = r /\ r \in DOMAIN m_pendingRequests)
        BY <1>5, <3>2, <3>6, <4>2
      <4> QED BY <4>1, <4>2
    <3> QED BY <1>0, <1>2, <3>1, <3>2, <3>3, <3>4, <3>5, <3>6, <3>7 DEF Requests
  <2> QED BY <2>2, <2>3, <2>4
<1> QED BY <1>6, <1>7 DEF AnswersFor

\* So does a timeout.
LEMMA TimesOutKeeps ==
    ASSUME Types, Requests, NEW r \in Tokens, TimesOut(r),
           \A q \in Tokens : Fresh(q)' => Fresh(q)
    PROVE  Requests'
<1>0. /\ UNCHANGED <<missing, m_endpointsState, asked, responded, renewed, emptied>>
      /\ Ends(r, m_pendingRequests, "failure")
  BY DEF TimesOut
<1>1. /\ DOMAIN m_pendingRequests' = DOMAIN m_pendingRequests \ {r}
      /\ \A q : q # r => PendingStates(q)' = PendingStates(q)
  BY <1>0 DEF Ends
<1>2. /\ callbacks' \in [Tokens -> Seq({"available", "failure"})]
      /\ \A q \in Tokens \ {r} : callbacks'[q] = callbacks[q]
      /\ r \in DOMAIN m_pendingRequests => callbacks'[r] = <<"failure">>
      /\ r \notin DOMAIN m_pendingRequests => callbacks'[r] = callbacks[r]
  <2>1. r \in DOMAIN m_pendingRequests => callbacks[r] = <<>>
    BY DEF Requests, PendingWaits
  <2> QED BY <1>0, <2>1, EndsOnce
<1>3. FreshUntouched'
  BY <1>0, <1>1, <1>2 DEF Requests, FreshUntouched
<1>4. PendingWaits'
  BY <1>0, <1>1, <1>2 DEF Requests, PendingWaits
<1>5. AnsweredOnce'
  <2>1. Len(<<"failure">>) <= 1
    OBVIOUS
  <2>2. Len(callbacks'[r]) <= 1
    BY <1>2, <2>1 DEF Requests, AnsweredOnce
  <2> QED BY <1>2, <2>2 DEF Requests, AnsweredOnce
<1>6. CompleteContext'
  <2>1. <<"failure">> # <<"available">>
    OBVIOUS
  <2> QED BY <1>0, <1>2, <2>1 DEF Requests, CompleteContext, Asked
<1> QED BY <1>0, <1>1, <1>2, <1>3, <1>4, <1>5, <1>6 DEF Requests

\* What is in the queue was asked, since nothing asked is forgotten.
LEMMA AnswersAskedNext ==
    ASSUME Types, AnswersAsked, Requests', [Next]_vars
    PROVE  AnswersAsked'
<1>0. responded' \subseteq asked'
  BY DEF Requests
<1>1. asked \subseteq asked'
  <2>1. ASSUME NEW r \in Tokens, NEW states \in SUBSET Capabilities, TakesUp(r, states)
        PROVE  asked \subseteq asked'
    BY <2>1 DEF TakesUp
  <2> QED BY <2>1, StepKinds DEF Quiet, Drops, AnswersFor, TimesOut
<1>2. queue \in Seq(Tasks) /\ Len(queue) \in Nat
  BY DEF Types
<1>3. ASSUME NEW task \in Tasks, queue' = Append(queue, task),
             task.op \in {"set", "provide", "unavailable"} /\ task.r # EMPTY_TOKEN
               => <<task.p, task.r>> \in asked
      PROVE  AnswersAsked'
  <2>1. /\ Len(queue') = Len(queue) + 1
        /\ queue'[Len(queue) + 1] = task
        /\ \A i \in 1..Len(queue) : queue'[i] = queue[i]
    BY <1>2, <1>3, QueueAppended
  <2>2. ASSUME NEW i \in 1..Len(queue'), AnswerAt(i)'
        PROVE  <<queue'[i].p, queue'[i].r>> \in asked'
    <3>1. CASE i = Len(queue) + 1
      BY <1>1, <1>3, <2>1, <2>2, <3>1 DEF AnswerAt
    <3>2. CASE i \in 1..Len(queue)
      BY <1>1, <2>1, <2>2, <3>2 DEF AnswerAt, AnswersAsked
    <3> QED BY <1>2, <2>1, <3>1, <3>2
  <2> QED BY <1>0, <2>2 DEF AnswersAsked
<1>4. ASSUME Pops PROVE AnswersAsked'
  <2>1. /\ Len(queue) > 0 /\ Len(queue') = Len(queue) - 1
        /\ \A i \in 1..Len(queue') : queue'[i] = queue[i + 1]
    BY <1>2, <1>4, QueuePopped DEF Pops
  <2>2. ASSUME NEW i \in 1..Len(queue'), AnswerAt(i)'
        PROVE  <<queue'[i].p, queue'[i].r>> \in asked'
    <3>1. i + 1 \in 1..Len(queue) /\ queue'[i] = queue[i + 1]
      BY <1>2, <2>1
    <3>2. AnswerAt(i + 1)
      BY <2>2, <3>1 DEF AnswerAt
    <3> QED BY <1>1, <3>1, <3>2 DEF AnswersAsked
  <2> QED BY <1>0, <2>2 DEF AnswersAsked
<1>5. ASSUME queue' = <<>> PROVE AnswersAsked'
  BY <1>0, <1>5 DEF AnswersAsked
<1>6. ASSUME UNCHANGED queue PROVE AnswersAsked'
  BY <1>0, <1>1, <1>6 DEF AnswersAsked, AnswerAt
<1>7. ASSUME NEW skip \in BOOLEAN, getContext(skip) PROVE AnswersAsked'
  <2> DEFINE task == [op |-> "get", r |-> m_requestCounter']
  <2>1. task \in Tasks /\ queue' = Append(queue, task)
    BY <1>7 DEF Tasks, getContext, Submit, Types, Tokens
  <2> QED BY <1>3, <2>1
<1>8. ASSUME NEW p \in Capabilities, reportStateChange(p) PROVE AnswersAsked'
  <2> DEFINE task == [op |-> "report", p |-> p]
  <2>1. task \in Tasks /\ queue' = Append(queue, task)
    BY <1>8 DEF Tasks, reportStateChange, Submit
  <2> QED BY <1>3, <2>1
<1>9. ASSUME NEW t \in 0..(MaxRequests - 1), TimerFires(t) PROVE AnswersAsked'
  <2> DEFINE task == [op |-> "timeout", r |-> m_tasks[t]]
  <2>1. task \in Tasks /\ queue' = Append(queue, task)
    BY <1>9 DEF Tasks, TimerFires, Types
  <2> QED BY <1>3, <2>1
<1>10. ASSUME NEW p \in Legacy, NEW r \in Tokens \cup {EMPTY_TOKEN}, NEW state \in LegacyStates,
              setState(p, r, state)
       PROVE  AnswersAsked'
  <2> DEFINE task == [op |-> "set", p |-> p, r |-> r, value |-> state[1], policy |-> state[2]]
  <2>1. state[1] \in BOOLEAN /\ state[2] \in Policies /\ p \in Capabilities
    OBVIOUS
  <2>2. task \in Tasks /\ queue' = Append(queue, task) /\ (r # EMPTY_TOKEN => <<p, r>> \in asked)
    BY <1>10, <2>1 DEF Tasks, setState, Submit, Asked
  <2> QED BY <1>3, <2>2
<1>11. ASSUME NEW p \in Capabilities \ Legacy, NEW r \in Tokens, provideStateResponse(p, r)
       PROVE  AnswersAsked'
  <2> DEFINE task == [op |-> "provide", p |-> p, r |-> r]
  <2>1. task \in Tasks /\ queue' = Append(queue, task) /\ <<p, r>> \in asked
    BY <1>11 DEF Tasks, provideStateResponse, Submit, Asked
  <2> QED BY <1>3, <2>1
<1>12. ASSUME NEW p \in Capabilities \ Legacy, NEW r \in Tokens, NEW unreachable \in BOOLEAN,
              provideStateUnavailableResponse(p, r, unreachable)
       PROVE  AnswersAsked'
  <2> DEFINE task == [op |-> "unavailable", p |-> p, r |-> r, unreachable |-> unreachable]
  <2>1. task \in Tasks /\ queue' = Append(queue, task) /\ <<p, r>> \in asked
    BY <1>12 DEF Tasks, provideStateUnavailableResponse, Submit, Asked
  <2> QED BY <1>3, <2>1
<1>13. ASSUME NEW p \in Capabilities, setStateProvider(p) PROVE UNCHANGED queue
  BY <1>13 DEF setStateProvider, SetProvider
<1>14. Destroy => queue' = <<>>
  BY DEF Destroy
<1>15. ExecutorSteps => Pops
  BY DEF ExecutorSteps, GetContext, TimedOut, SetState, ProvideStateResponse,
     ProvideStateUnavailableResponse, ReportStateChange, NextIs, Popped, Pops
<1>16. UNCHANGED vars => UNCHANGED queue
  BY DEF vars
<1> QED
  BY <1>4, <1>5, <1>6, <1>7, <1>8, <1>9, <1>10, <1>11, <1>12, <1>13, <1>14, <1>15, <1>16
     DEF Next, CallerSteps

-----------------------------------------------------------------------------
(* Theorems *)

\* The initial state.
LEMMA ContextInit == Init => IInv
<1> SUFFICES ASSUME Init PROVE IInv
  OBVIOUS
<1>0. /\ DOMAIN m_pendingRequests = {} /\ DOMAIN m_tasks = {} /\ queue = <<>> /\ Len(queue) = 0
      /\ asked = {} /\ responded = {} /\ \A r \in Tokens : callbacks[r] = <<>>
  BY DEF Init
<1>1. Types
  <2>1. StateInfo(TRUE, FALSE) \in Info
    BY DEF StateInfo, NoInfo, Info, Policies
  <2>2. m_endpointsState \in [Capabilities -> Info]
    BY <2>1 DEF Init
  <2>3. queue \in Seq(Tasks)
    BY <1>0
  <2>4. callbacks \in [Tokens -> Seq({"available", "failure"})]
    BY DEF Init
  <2>5. missing \in [Tokens -> SUBSET Capabilities] /\ m_requestCounter \in Nat
    BY DEF Init
  <2> QED BY <1>0, <2>2, <2>3, <2>4, <2>5 DEF Types
<1>2. SubmittedOnce /\ FreshUntouched /\ AnswersAsked /\ PendingWaits
  BY <1>0 DEF SubmittedOnce, FreshUntouched, AnswersAsked, PendingWaits
<1>3. AnsweredOnce /\ CompleteContext
  <2>1. Len(<<>>) = 0 /\ <<>> # <<"available">>
    OBVIOUS
  <2> QED BY <1>0, <2>1 DEF AnsweredOnce, CompleteContext
<1> QED BY <1>1, <1>2, <1>3 DEF IInv

\* Every step keeps the inductive invariant.
LEMMA ContextNext == IInv /\ [Next]_vars => IInv'
<1> SUFFICES ASSUME IInv, [Next]_vars PROVE IInv'
  OBVIOUS
<1>1. Types /\ SubmittedOnce /\ AnswersAsked /\ Requests
  BY DEF IInv, Requests, Types, AnswersAsked
<1>2. /\ SubmittedOnce'
      /\ \A r \in Tokens : Fresh(r)' => Fresh(r)
      /\ \A r : GetContext /\ r = Head(queue).r => Fresh(r) /\ ~Fresh(r)'
  BY <1>1, QueueNext
<1>3. Requests'
  <2>1. ASSUME NEW r \in Tokens, NEW states \in SUBSET Capabilities, TakesUp(r, states)
        PROVE  Requests'
    <3>1. Fresh(r) /\ ~Fresh(r)'
      BY <1>2, <2>1 DEF TakesUp
    <3> QED BY <1>1, <1>2, <2>1, <3>1, TakesUpKeeps
  <2> QED BY <1>1, <1>2, <2>1, StepKinds, QuietKeeps, DropsKeeps, AnswersForKeeps, TimesOutKeeps
<1>4. AnswersAsked'
  BY <1>1, <1>3, AnswersAskedNext
<1>5. queue' \in Seq(Tasks) /\ m_requestCounter' \in Nat
  <2>0. queue \in Seq(Tasks) /\ m_requestCounter \in Nat
    BY <1>1 DEF Types
  <2>1. SubmitsGet => queue' \in Seq(Tasks) /\ m_requestCounter' \in Nat
    BY <2>0 DEF SubmitsGet, Tasks
  <2>2. Pops => queue' \in Seq(Tasks) /\ m_requestCounter' \in Nat
    BY <2>0, QueuePopped DEF Pops
  <2>3. ASSUME NEW task \in Tasks, Submits(task)
        PROVE  queue' \in Seq(Tasks) /\ m_requestCounter' \in Nat
    BY <2>0, <2>3, QueueAppended DEF Submits
  <2>4. <<>> \in Seq(Tasks)
    OBVIOUS
  <2> QED BY <1>1, <2>0, <2>1, <2>2, <2>3, <2>4, QueueMoves
<1>6. Types'
  <2>1. m_endpointsState' \in [Capabilities -> Info]
    BY <1>1, EndpointsTyped
  <2>2. \A t \in DOMAIN m_tasks' : m_tasks'[t] \in Tokens
    BY <1>1, TimersTyped
  <2> QED BY <1>3, <1>5, <2>1, <2>2 DEF Types, Requests
<1> QED BY <1>2, <1>3, <1>4, <1>6 DEF IInv, Requests

\* The inductive invariant.
LEMMA ContextAlways == Spec => []IInv
BY ContextInit, ContextNext, PTL DEF Spec

\* A requester is called back at most once: whoever answers a request forgets it in the
\* same step, a forgotten request is never answered, and none is taken up twice.
THEOREM AnswerSafety == Spec => []AnsweredOnce
<1>1. IInv => AnsweredOnce
  BY DEF IInv
<1> QED BY <1>1, ContextAlways, PTL

\* A context is handed out only when everybody asked for it has answered, with the state
\* of each whose provider was not replaced, and whose state was not set to an empty one,
\* while the request was pending.
THEOREM ContextSafety == Spec => []CompleteContext
<1>1. IInv => CompleteContext
  BY DEF IInv
<1> QED BY <1>1, ContextAlways, PTL
=============================================================================
