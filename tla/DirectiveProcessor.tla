--------------------------- MODULE DirectiveProcessor ---------------------------
(***************************************************************************)
(* The directive processor of the Alexa Directive Sequencer Library        *)
(* (adsl/DirectiveProcessor.cpp): directives are pre-handled, queued,      *)
(* handled when the mediums of their blocking policy are free, and         *)
(* cancelled when their dialog ends.                                       *)
(*                                                                         *)
(* Four kinds of threads meet in it: the caller of onDirective (one at a   *)
(* time, m_onDirectiveMutex), the processing thread (processingLoop), the  *)
(* handlers' threads, which report through DirectiveHandlerResult, and the *)
(* clients of setDialogRequestId, disable, enable and shutdown.  A step is *)
(* what a thread does between taking and releasing m_mutex.                *)
(*                                                                         *)
(* Both deques only grow at the back and lose elements anywhere, so        *)
(* m_handlingQueue is a set ordered by `ticket', the order of the          *)
(* push_backs; m_cancelingQueue is a set: in which order a batch is        *)
(* cancelled is left open (the code inserts a std::set of pointers).       *)
(***************************************************************************)
EXTENDS Naturals

CONSTANTS
    Directives,     \* the AVSDirective objects that can be received
    DialogIds,      \* the non-empty dialog request ids
    IdOf,           \* AVSDirective::getDialogRequestId of each directive
    PoliciesOf,     \* the policies the router can answer for each directive
    NoDirective,    \* a null shared_ptr<AVSDirective>
    NoId            \* the empty dialog request id

\* BlockingPolicy::Medium
Medium == {"AUDIO", "VISUAL"}

\* BlockingPolicy
Policy == [mediums : SUBSET Medium, isBlocking : BOOLEAN]

\* BlockingPolicy(): what the router answers when no handler is registered.
DefaultPolicy == [mediums |-> {}, isBlocking |-> TRUE]

ASSUME DirectivesAssumption == NoDirective \notin Directives
ASSUME IdsAssumption ==
    /\ NoId \notin DialogIds
    /\ IdOf \in [Directives -> DialogIds \cup {NoId}]
ASSUME PoliciesAssumption == PoliciesOf \in [Directives -> SUBSET Policy]

VARIABLES
    m_isShuttingDown, m_isEnabled, m_dialogRequestId,
    m_directiveBeingPreHandled,
    m_handlingQueue,            \* the directives of the deque
    pushes, ticket,             \* push_backs so far; the one of each directive
    policy,                     \* the BlockingPolicy paired with each directive
    m_directivesBeingHandled,   \* Medium -> directive
    m_cancelingQueue,
    registered,                 \* m_handleMap still holds this processor
    procPc, batch, current, cancelHandled, queuedHandled,  \* processingLoop
    recvPc, recvDirective, recvResult,                     \* onDirective
    clientPc,                                              \* shutdown
    delivered,  \* history: directives onDirective was called with
    held,       \* directives whose handler was given its result object
    handled,    \* history: directives given to handleDirective
    cancelled,  \* history: directives given to cancelDirective
    engaged     \* history: directives their handler is still working on

queueVars == <<m_directiveBeingPreHandled, m_handlingQueue,
               m_directivesBeingHandled, m_cancelingQueue>>
flagVars  == <<m_isShuttingDown, m_isEnabled>>
procVars  == <<batch, current, cancelHandled, queuedHandled>>
recvVars  == <<recvPc, recvDirective, recvResult>>
pairVars  == <<pushes, ticket, policy>>
histVars  == <<delivered, held, handled, cancelled, engaged>>

vars == <<m_isShuttingDown, m_isEnabled, m_dialogRequestId, queueVars, pairVars,
          registered, procPc, procVars, recvVars, clientPc, histVars>>

ProcPcs == {"woken", "check", "sleeping", "cancel", "canceling", "handle",
            "handling", "exited"}
RecvPcs == {"idle", "routing", "preHandling", "returned"}

-----------------------------------------------------------------------------
(* Helpers *)

\* The processing thread owns m_mutex; every other locked section waits.
LockFree == procPc \notin {"check", "cancel", "handle"}

Mediums(d) == policy[d].mediums
IsBlocking(d) == policy[d].isBlocking
Share(d, e) == Mediums(d) \cap Mediums(e) # {}

\* The directives in the slots of a m_directivesBeingHandled array.
Occupants(slots) == {slots[m] : m \in Medium} \ {NoDirective}

\* Mutant: the freed directives are returned but their slots are not reset.
WithoutNotReset(slots, S) == slots

\* The slots with the directives of S taken out.
Without(slots, S) ==
    [m \in Medium |-> IF slots[m] \in S THEN NoDirective ELSE slots[m]]

\* m_wakeProcessingLoop.notify_one(), called when cond holds.
Notify(cond) ==
    procPc' = IF cond /\ procPc = "sleeping" THEN "woken" ELSE procPc

Earlier(e, d) == ticket[e] < ticket[d]

\* Mutant: a blocked blocking item does not pass its mediums on.
blockedMediumsSlotsOnly(d) ==
    {m \in Medium : m_directivesBeingHandled[m] # NoDirective}

\* Mutant: the loop starts from no blocked mediums.
blockedMediumsQueueOnly(d) ==
    UNION {Mediums(e) : e \in {x \in m_handlingQueue : Earlier(x, d) /\ IsBlocking(x)}}

\* blockedMediums when the loop of getNextUnblockedDirectiveLocked arrives at d:
\* all earlier items were blocked, and the blocking ones passed it on.
blockedMediums(d) ==
    {m \in Medium : m_directivesBeingHandled[m] # NoDirective}
        \cup UNION {Mediums(e) : e \in {x \in m_handlingQueue :
                                          Earlier(x, d) /\ IsBlocking(x)}}

Blocked(d) == Mediums(d) \cap blockedMediums(d) # {}

\* Mutant: the loop does not stop at the first unblocked item.
getAnyUnblockedDirective == {d \in m_handlingQueue : ~Blocked(d)}

\* The iterator returned, as a set: empty for end().
getNextUnblockedDirectiveLocked ==
    {d \in m_handlingQueue :
        /\ ~Blocked(d)
        /\ \A e \in m_handlingQueue : Earlier(e, d) => Blocked(e)}

\* Mutant: the predicate ignores queued directives.
wakeCancelOnly == m_cancelingQueue # {} \/ m_isShuttingDown

\* The predicate of m_wakeProcessingLoop.wait in processingLoop.
wake ==
    \/ m_cancelingQueue # {}
    \/ getNextUnblockedDirectiveLocked # {}
    \/ m_isShuttingDown

\* removeDirectiveLocked notifies when something is left in either queue.
\* Mutant: only the canceling queue counts.
LeftForCanceling(canceling, queue) == canceling # {}
LeftInQueues(canceling, queue) == canceling # {} \/ queue # {}

\* Mutant: the directive being pre-handled is forgotten.
ScrubSetQueued(id, pre, slots, queue) ==
    {d \in Occupants(slots) \cup queue : id # NoId /\ IdOf[d] = id}

\* What scrubDialogRequestIdLocked(id) moves to m_cancelingQueue.
ScrubSet(id, pre, slots, queue) ==
    {d \in ({pre} \cup Occupants(slots) \cup queue) \ {NoDirective} :
        id # NoId /\ IdOf[d] = id}

\* scrubDialogRequestIdLocked(id), started from the given values.
scrubDialogRequestIdLocked(id, pre, slots, queue, canceling) ==
    LET S == ScrubSet(id, pre, slots, queue) IN
    /\ m_directiveBeingPreHandled' = IF pre \in S THEN NoDirective ELSE pre
    /\ m_directivesBeingHandled' = Without(slots, S)
    /\ m_handlingQueue' = queue \ S
    /\ m_cancelingQueue' = canceling \cup S

\* m_dialogRequestId after the scrub.
IdAfterScrub(id) ==
    IF id # NoId /\ id = m_dialogRequestId THEN NoId ELSE m_dialogRequestId

\* Mutant: the directive being pre-handled is forgotten.
queueAllButPreHandled ==
    /\ m_dialogRequestId' = NoId
    /\ m_cancelingQueue' = m_cancelingQueue \cup m_handlingQueue
                             \cup Occupants(m_directivesBeingHandled)
    /\ m_directivesBeingHandled' = [m \in Medium |-> NoDirective]
    /\ m_handlingQueue' = {}
    /\ UNCHANGED m_directiveBeingPreHandled

\* queueAllDirectivesForCancellationLocked
queueAllDirectivesForCancellationLocked ==
    /\ m_dialogRequestId' = NoId
    /\ m_cancelingQueue' = m_cancelingQueue
                             \cup Occupants(m_directivesBeingHandled)
                             \cup m_handlingQueue
                             \cup ({m_directiveBeingPreHandled} \ {NoDirective})
    /\ m_directivesBeingHandled' = [m \in Medium |-> NoDirective]
    /\ m_handlingQueue' = {}
    /\ m_directiveBeingPreHandled' = NoDirective

-----------------------------------------------------------------------------
(* DirectiveProcessor(directiveRouter): the processing thread is started *)

Init ==
    /\ m_isShuttingDown = FALSE
    /\ m_isEnabled = TRUE
    /\ m_dialogRequestId = NoId
    /\ m_directiveBeingPreHandled = NoDirective
    /\ m_handlingQueue = {}
    /\ pushes = 0
    /\ ticket = [d \in Directives |-> 0]
    /\ policy = [d \in Directives |-> DefaultPolicy]
    /\ m_directivesBeingHandled = [m \in Medium |-> NoDirective]
    /\ m_cancelingQueue = {}
    /\ registered = TRUE
    /\ procPc = "woken"
    /\ batch = {}
    /\ current = NoDirective
    /\ cancelHandled = FALSE
    /\ queuedHandled = FALSE
    /\ recvPc = "idle"
    /\ recvDirective = NoDirective
    /\ recvResult = FALSE
    /\ clientPc = "running"
    /\ delivered = {} /\ held = {} /\ handled = {} /\ cancelled = {} /\ engaged = {}

-----------------------------------------------------------------------------
(* onDirective: the receiving thread *)

\* Shutting down or disabled: the directive is refused.
onDirectiveRefused(d) ==
    /\ recvPc = "idle" /\ d \notin delivered
    /\ LockFree
    /\ m_isShuttingDown \/ ~m_isEnabled
    /\ delivered' = delivered \cup {d}
    /\ recvPc' = "returned" /\ recvDirective' = d /\ recvResult' = FALSE
    /\ UNCHANGED <<flagVars, m_dialogRequestId, queueVars, pairVars, registered,
                   procPc, procVars, clientPc, held, handled, cancelled, engaged>>

\* The directive belongs to another dialog: dropped, reported as consumed.
onDirectiveDropped(d) ==
    /\ recvPc = "idle" /\ d \notin delivered
    /\ LockFree
    /\ ~m_isShuttingDown /\ m_isEnabled
    /\ IdOf[d] # NoId /\ IdOf[d] # m_dialogRequestId
    /\ delivered' = delivered \cup {d}
    /\ recvPc' = "returned" /\ recvDirective' = d /\ recvResult' = TRUE
    /\ UNCHANGED <<flagVars, m_dialogRequestId, queueVars, pairVars, registered,
                   procPc, procVars, clientPc, held, handled, cancelled, engaged>>

\* The directive is accepted; m_mutex is released to call the router.
onDirective(d) ==
    /\ recvPc = "idle" /\ d \notin delivered
    /\ LockFree
    /\ ~m_isShuttingDown /\ m_isEnabled
    /\ IdOf[d] = NoId \/ IdOf[d] = m_dialogRequestId
    /\ delivered' = delivered \cup {d}
    /\ \E p \in PoliciesOf[d] : policy' = [policy EXCEPT ![d] = p]
    /\ m_directiveBeingPreHandled' = d
    /\ recvPc' = "routing" /\ recvDirective' = d
    /\ UNCHANGED <<flagVars, m_dialogRequestId, m_handlingQueue, pushes,
                   ticket, m_directivesBeingHandled, m_cancelingQueue, registered, procPc,
                   procVars, recvResult, clientPc, held, handled, cancelled, engaged>>

\* m_directiveRouter->preHandleDirective finds a handler and calls it: from
\* here on the handler can report.
RouterPreHandle ==
    /\ recvPc = "routing"
    /\ recvPc' = "preHandling"
    /\ held' = held \cup {recvDirective}
    /\ UNCHANGED <<flagVars, m_dialogRequestId, queueVars, pairVars, registered,
                   procPc, procVars, recvDirective, recvResult, clientPc,
                   delivered, handled, cancelled, engaged>>

\* preHandleDirective returned false: no handler is registered.
onDirectiveUnrouted ==
    /\ recvPc = "routing"
    /\ LockFree
    /\ m_directiveBeingPreHandled' = NoDirective
    /\ recvPc' = "returned" /\ recvResult' = FALSE
    /\ UNCHANGED <<flagVars, m_dialogRequestId, m_handlingQueue, pairVars,
                   m_directivesBeingHandled, m_cancelingQueue, registered, procPc,
                   procVars, recvDirective, clientPc, histVars>>

\* Pre-handled, but completed, failed or cancelled in the meantime.
onDirectiveGone ==
    /\ recvPc = "preHandling"
    /\ LockFree
    /\ m_directiveBeingPreHandled = NoDirective
    /\ recvPc' = "returned" /\ recvResult' = TRUE
    /\ UNCHANGED <<flagVars, m_dialogRequestId, queueVars, pairVars, registered,
                   procPc, procVars, recvDirective, clientPc, histVars>>

\* Pre-handled and still wanted: pushed to the back of m_handlingQueue.
onDirectiveQueued ==
    /\ recvPc = "preHandling"
    /\ LockFree
    /\ m_directiveBeingPreHandled # NoDirective
    /\ m_directiveBeingPreHandled' = NoDirective
    /\ m_handlingQueue' = m_handlingQueue \cup {recvDirective}
    /\ pushes' = pushes + 1
    /\ ticket' = [ticket EXCEPT ![recvDirective] = pushes']
    /\ Notify(TRUE)
    /\ recvPc' = "returned" /\ recvResult' = TRUE
    /\ UNCHANGED <<flagVars, m_dialogRequestId, policy, m_directivesBeingHandled,
                   m_cancelingQueue, registered, procVars, recvDirective, clientPc,
                   histVars>>

\* onDirective returns to its caller and releases m_onDirectiveMutex.
onDirectiveReturn ==
    /\ recvPc = "returned"
    /\ recvPc' = "idle" /\ recvDirective' = NoDirective /\ recvResult' = FALSE
    /\ UNCHANGED <<flagVars, m_dialogRequestId, queueVars, pairVars, registered,
                   procPc, procVars, clientPc, histVars>>

-----------------------------------------------------------------------------
(* The processing thread: processingLoop *)

\* The thread starts, or returns from the condition variable, and takes m_mutex.
Relock ==
    /\ procPc = "woken"
    /\ procPc' = "check"
    /\ UNCHANGED <<flagVars, m_dialogRequestId, queueVars, pairVars, registered,
                   procVars, recvVars, clientPc, histVars>>

\* A condition variable may return without a notification.
SpuriousWakeup ==
    /\ procPc = "sleeping"
    /\ procPc' = "woken"
    /\ UNCHANGED <<flagVars, m_dialogRequestId, queueVars, pairVars, registered,
                   procVars, recvVars, clientPc, histVars>>

\* m_wakeProcessingLoop.wait(lock, wake)
WaitForWork ==
    /\ procPc = "check"
    /\ procPc' = IF wake THEN "cancel" ELSE "sleeping"
    /\ UNCHANGED <<flagVars, m_dialogRequestId, queueVars, pairVars, registered,
                   procVars, recvVars, clientPc, histVars>>

\* processCancelingQueueLocked: nothing to cancel, or the queue is swapped out
\* and m_mutex released.
processCancelingQueueLocked ==
    /\ procPc = "cancel"
    /\ \/ m_cancelingQueue = {} /\ cancelHandled' = FALSE /\ procPc' = "handle"
       \/ m_cancelingQueue # {} /\ cancelHandled' = TRUE /\ procPc' = "canceling"
    /\ queuedHandled' = FALSE
    /\ batch' = m_cancelingQueue
    /\ m_cancelingQueue' = {}
    /\ UNCHANGED <<flagVars, m_dialogRequestId, m_directiveBeingPreHandled,
                   m_handlingQueue, m_directivesBeingHandled, pairVars, registered,
                   current, recvVars, clientPc, histVars>>

\* m_directiveRouter->cancelDirective(directive), for each one of the batch.
CancelDirective(d) ==
    /\ procPc = "canceling" /\ d \in batch
    /\ batch' = batch \ {d}
    /\ cancelled' = cancelled \cup {d}
    /\ engaged' = engaged \ {d}
    /\ UNCHANGED <<flagVars, m_dialogRequestId, queueVars, pairVars, registered,
                   procPc, current, cancelHandled, queuedHandled, recvVars, clientPc,
                   delivered, held, handled>>

\* The batch is done: m_mutex is taken again.
CancelingDone ==
    /\ procPc = "canceling" /\ batch = {}
    /\ procPc' = "handle"
    /\ UNCHANGED <<flagVars, m_dialogRequestId, queueVars, pairVars, registered,
                   procVars, recvVars, clientPc, histVars>>

\* handleQueuedDirectivesLocked: the next unblocked directive takes its mediums
\* (setDirectiveBeingHandledLocked), leaves the queue, and m_mutex is released
\* to call its handler.
handleQueuedDirectivesLocked ==
    /\ procPc = "handle"
    /\ \E d \in getNextUnblockedDirectiveLocked :
        /\ m_directivesBeingHandled' =
             [m \in Medium |-> IF m \in Mediums(d) THEN d
                              ELSE m_directivesBeingHandled[m]]
        /\ m_handlingQueue' = m_handlingQueue \ {d}
        /\ current' = d
        /\ handled' = handled \cup {d}
        /\ engaged' = engaged \cup {d}
    /\ queuedHandled' = TRUE
    /\ procPc' = "handling"
    /\ UNCHANGED <<flagVars, m_dialogRequestId, m_directiveBeingPreHandled, pairVars,
                   m_cancelingQueue, registered, batch, cancelHandled, recvVars,
                   clientPc, delivered, held, cancelled>>

\* Mutant: all slots are cleared, whatever the policy says.
SlotsAfterClearAll(d) == [m \in Medium |-> NoDirective]

\* The slots after clearDirectiveBeingHandledLocked(policy): whoever is in them.
SlotsAfterClear(d) ==
    [m \in Medium |-> IF m \in Mediums(d) THEN NoDirective
                     ELSE m_directivesBeingHandled[m]]

\* policy.isBlocking() decides whether a handled directive keeps its mediums.
KeepsMediums(d) == IsBlocking(d)

\* m_directiveRouter->handleDirective returned true.
HandleDirectiveSucceeded ==
    /\ procPc = "handling"
    /\ procPc' = "handle"
    /\ current' = NoDirective
    /\ m_directivesBeingHandled' = IF KeepsMediums(current) THEN m_directivesBeingHandled
                                   ELSE SlotsAfterClear(current)
    /\ engaged' = IF IsBlocking(current) THEN engaged ELSE engaged \ {current}
    /\ UNCHANGED <<flagVars, m_dialogRequestId, m_directiveBeingPreHandled,
                   m_handlingQueue, m_cancelingQueue, pairVars, registered, batch,
                   cancelHandled, queuedHandled, recvVars, clientPc, delivered, held,
                   handled, cancelled>>

\* It returned false (no handler, or the handler does not know the directive):
\* the rest of the dialog is scrubbed.
HandleDirectiveFailed ==
    /\ procPc = "handling"
    /\ procPc' = "handle"
    /\ current' = NoDirective
    /\ scrubDialogRequestIdLocked(IdOf[current], m_directiveBeingPreHandled,
          SlotsAfterClear(current), m_handlingQueue, m_cancelingQueue)
    /\ m_dialogRequestId' = IdAfterScrub(IdOf[current])
    /\ engaged' = engaged \ {current}
    /\ UNCHANGED <<flagVars, pairVars, registered, batch, cancelHandled,
                   queuedHandled, recvVars, clientPc, delivered, held, handled,
                   cancelled>>

\* All that is queued is blocked: once more round the inner loop if this round
\* did anything, else back to the wait, or out of the thread.
RoundDone ==
    /\ procPc = "handle"
    /\ getNextUnblockedDirectiveLocked = {}
    /\ procPc' = IF cancelHandled \/ queuedHandled THEN "cancel"
                 ELSE IF m_isShuttingDown THEN "exited" ELSE "check"
    /\ UNCHANGED <<flagVars, m_dialogRequestId, queueVars, pairVars, registered,
                   procVars, recvVars, clientPc, histVars>>

-----------------------------------------------------------------------------
(* DirectiveHandlerResult: a handler reports, from any thread *)

\* setCompleted, then onHandlingCompleted and removeDirectiveLocked.
setCompleted(d) ==
    /\ d \in held /\ registered
    /\ LockFree
    /\ m_cancelingQueue' = m_cancelingQueue \ {d}
    /\ m_directiveBeingPreHandled' = IF m_directiveBeingPreHandled = d THEN NoDirective
                                     ELSE m_directiveBeingPreHandled
    /\ m_handlingQueue' = m_handlingQueue \ {d}
    /\ m_directivesBeingHandled' = Without(m_directivesBeingHandled, {d})
    /\ Notify(LeftInQueues(m_cancelingQueue', m_handlingQueue'))
    /\ engaged' = engaged \ {d}
    /\ UNCHANGED <<flagVars, m_dialogRequestId, pairVars, registered, procVars,
                   recvVars, clientPc, delivered, held, handled, cancelled>>

\* setFailed, then onHandlingFailed: removeDirectiveLocked and a scrub of the
\* directive's dialog.
setFailed(d) ==
    LET pre       == IF m_directiveBeingPreHandled = d THEN NoDirective
                     ELSE m_directiveBeingPreHandled
        slots     == Without(m_directivesBeingHandled, {d})
        queue     == m_handlingQueue \ {d}
        canceling == m_cancelingQueue \ {d}
    IN
    /\ d \in held /\ registered
    /\ LockFree
    /\ scrubDialogRequestIdLocked(IdOf[d], pre, slots, queue, canceling)
    /\ m_dialogRequestId' = IdAfterScrub(IdOf[d])
    /\ Notify(LeftInQueues(canceling, queue) \/ ScrubSet(IdOf[d], pre, slots, queue) # {})
    /\ engaged' = engaged \ {d}
    /\ UNCHANGED <<flagVars, pairVars, registered, procVars, recvVars, clientPc,
                   delivered, held, handled, cancelled>>

\* After shutdown took the processor out of m_handleMap reports are ignored.
ReportIgnored(d) ==
    /\ d \in held /\ ~registered
    /\ engaged' = engaged \ {d}
    /\ UNCHANGED <<flagVars, m_dialogRequestId, queueVars, pairVars, registered,
                   procPc, procVars, recvVars, clientPc, delivered, held, handled,
                   cancelled>>

-----------------------------------------------------------------------------
(* Clients *)

\* setDialogRequestId: the old dialog is scrubbed; an unchanged id is ignored.
setDialogRequestId(id) ==
    /\ LockFree
    /\ id # m_dialogRequestId
    /\ scrubDialogRequestIdLocked(m_dialogRequestId, m_directiveBeingPreHandled,
          m_directivesBeingHandled, m_handlingQueue, m_cancelingQueue)
    /\ m_dialogRequestId' = id
    /\ Notify(ScrubSet(m_dialogRequestId, m_directiveBeingPreHandled,
                       m_directivesBeingHandled, m_handlingQueue) # {})
    /\ UNCHANGED <<flagVars, pairVars, registered, procVars, recvVars, clientPc,
                   histVars>>

disable ==
    /\ LockFree
    /\ queueAllDirectivesForCancellationLocked
    /\ m_isEnabled' = FALSE
    /\ Notify(TRUE)
    /\ UNCHANGED <<m_isShuttingDown, pairVars, registered, procVars, recvVars,
                   clientPc, histVars>>

enable ==
    /\ LockFree
    /\ m_isEnabled' = TRUE
    /\ UNCHANGED <<m_isShuttingDown, m_dialogRequestId, queueVars, pairVars,
                   registered, procPc, procVars, recvVars, clientPc, histVars>>

\* shutdown, first block: m_handleMap.erase(m_handle), under m_handleMapMutex.
shutdownUnregister ==
    /\ clientPc = "running"
    /\ clientPc' = "unregistered"
    /\ registered' = FALSE
    /\ UNCHANGED <<flagVars, m_dialogRequestId, queueVars, pairVars, procPc, procVars,
                   recvVars, histVars>>

\* shutdown, second block, under m_mutex.
shutdownCancelAll ==
    /\ clientPc = "unregistered"
    /\ LockFree
    /\ queueAllDirectivesForCancellationLocked
    /\ m_isShuttingDown' = TRUE
    /\ Notify(TRUE)
    /\ clientPc' = "joining"
    /\ UNCHANGED <<m_isEnabled, pairVars, registered, procVars, recvVars, histVars>>

\* m_processingThread.join()
shutdownJoin ==
    /\ clientPc = "joining" /\ procPc = "exited"
    /\ clientPc' = "done"
    /\ UNCHANGED <<flagVars, m_dialogRequestId, queueVars, pairVars, registered,
                   procPc, procVars, recvVars, histVars>>

-----------------------------------------------------------------------------
(* Next *)

Receiving ==
    \/ RouterPreHandle \/ onDirectiveUnrouted \/ onDirectiveGone \/ onDirectiveQueued

Processing ==
    \/ Relock \/ WaitForWork \/ processCancelingQueueLocked \/ CancelingDone
    \/ \E d \in Directives : CancelDirective(d)
    \/ handleQueuedDirectivesLocked \/ HandleDirectiveSucceeded
    \/ HandleDirectiveFailed \/ RoundDone

Reports(d) == setCompleted(d) \/ setFailed(d) \/ ReportIgnored(d)

Shutdown == shutdownUnregister \/ shutdownCancelAll \/ shutdownJoin

Next ==
    \/ \E d \in Directives :
         onDirectiveRefused(d) \/ onDirectiveDropped(d) \/ onDirective(d) \/ Reports(d)
    \/ Receiving \/ onDirectiveReturn
    \/ Processing \/ SpuriousWakeup
    \/ \E id \in DialogIds \cup {NoId} : setDialogRequestId(id)
    \/ disable \/ enable \/ Shutdown

Spec == Init /\ [][Next]_vars

\* Every thread that waits for m_mutex gets it, the router's and the handlers'
\* calls return, and a handler that works on a directive reports its outcome.
Fairness ==
    /\ WF_vars(Processing)
    /\ SF_vars(Receiving)
    /\ WF_vars(onDirectiveReturn)
    /\ \A d \in Directives : SF_vars(d \in engaged /\ Reports(d))
    /\ SF_vars(shutdownCancelAll) /\ WF_vars(shutdownJoin)

FairSpec == Spec /\ Fairness

-----------------------------------------------------------------------------
(* Properties *)

Wanted == ({m_directiveBeingPreHandled} \cup m_handlingQueue
             \cup Occupants(m_directivesBeingHandled)) \ {NoDirective}

Doomed == m_cancelingQueue \cup batch

FlagTypes ==
    /\ m_isShuttingDown \in BOOLEAN /\ m_isEnabled \in BOOLEAN
    /\ registered \in BOOLEAN
    /\ cancelHandled \in BOOLEAN /\ queuedHandled \in BOOLEAN
    /\ recvResult \in BOOLEAN

PlaceTypes ==
    /\ m_dialogRequestId \in DialogIds \cup {NoId}
    /\ m_directiveBeingPreHandled \in Directives \cup {NoDirective}
    /\ m_handlingQueue \subseteq Directives
    /\ pushes \in Nat /\ ticket \in [Directives -> Nat]
    /\ policy \in [Directives -> Policy]
    /\ m_directivesBeingHandled \in [Medium -> Directives \cup {NoDirective}]
    /\ m_cancelingQueue \subseteq Directives
    /\ batch \subseteq Directives
    /\ delivered \subseteq Directives /\ held \subseteq Directives
    /\ handled \subseteq Directives /\ cancelled \subseteq Directives
    /\ engaged \subseteq Directives

ThreadTypes ==
    /\ procPc \in ProcPcs
    /\ current \in Directives \cup {NoDirective}
    /\ procPc = "handling" => current # NoDirective
    /\ recvPc \in RecvPcs
    /\ recvDirective \in Directives \cup {NoDirective}
    /\ m_directiveBeingPreHandled # NoDirective =>
         /\ recvPc \in {"routing", "preHandling"}
         /\ m_directiveBeingPreHandled = recvDirective
    /\ recvPc \in {"routing", "preHandling"} => recvDirective # NoDirective
    /\ clientPc \in {"running", "unregistered", "joining", "done"}

\* The state of the processor and of its threads has the shape of the code's
\* members: the processing thread calls a handler only with a directive, and the
\* pre-handled directive is the one onDirective is working on.
TypeOK == FlagTypes /\ PlaceTypes /\ ThreadTypes

\* No directive of a finished dialog is waiting to be handled or occupies a
\* medium: whatever onDirective let in, every later change of m_dialogRequestId
\* (setDialogRequestId, a failed handler, disable, shutdown) took with it.
CurrentDialogOnly ==
    \A d \in Wanted : IdOf[d] \in {NoId, m_dialogRequestId}

\* A directive is in one place at a time, whatever reports and cancellations
\* race with the thread that works on it: so it is handled at most once,
\* cancelled at most once, and never handled after its cancellation was queued.
OnePlace ==
    /\ m_directiveBeingPreHandled \notin m_handlingQueue
    /\ m_directiveBeingPreHandled \notin handled
    /\ m_handlingQueue \cap handled = {}
    /\ Occupants(m_directivesBeingHandled) \subseteq handled
    /\ Wanted \cap (Doomed \cup cancelled) = {}
    /\ m_cancelingQueue \cap batch = {}
    /\ Doomed \cap cancelled = {}

\* Two handlers work on one medium only while the earlier one's cancellation is
\* on its way: clearDirectiveBeingHandledLocked(policy) resets slots without
\* looking who is in them, and never frees the medium of another directive.
MediumExclusion ==
    \A d, e \in engaged : Share(d, e) => d = e \/ d \in Doomed \/ e \in Doomed

\* No directive is handled before an earlier blocking directive that needs one
\* of the same mediums and still waits (getNextUnblockedDirectiveLocked).
NoOvertaking ==
    \A d \in m_handlingQueue, e \in handled :
        IsBlocking(d) /\ Earlier(d, e) => ~Share(d, e)

\* The processing thread never sleeps on m_wakeProcessingLoop while there is
\* something for it to do: every change that makes work also notifies.
NoLostWakeup == procPc = "sleeping" => ~wake

\* When the processing thread has ended nothing is left behind: all that was
\* queued or occupied a medium has been cancelled, and nothing can come in.
CleanExit ==
    procPc = "exited" =>
        /\ Wanted = {} /\ Doomed = {}
        /\ \A d \in engaged : Mediums(d) = {}

\* Every directive let in leaves the processor: handled to the end, refused,
\* completed by its handler or cancelled.
EveryDirectiveLeaves ==
    \A d \in Directives : (d \in Wanted \cup Doomed) ~> (d \notin Wanted \cup Doomed)

-----------------------------------------------------------------------------
(* What makes the safety properties inductive *)

\* Only what onDirective received is anywhere, and only once called is handled.
Received ==
    /\ Wanted \cup Doomed \cup handled \cup cancelled \subseteq delivered
    /\ engaged \subseteq handled

\* A handler at work keeps all its mediums until its cancellation is queued, and
\* while a handler is being called nobody else can be in its mediums.
MediumsHeld ==
    /\ \A d \in engaged \ Doomed : \A m \in Mediums(d) : m_directivesBeingHandled[m] = d
    /\ procPc = "handling" =>
         /\ current \in handled
         /\ \A m \in Mediums(current) : m_directivesBeingHandled[m] \in {current, NoDirective}
    /\ procPc # "canceling" => batch = {}

\* Tickets count the push_backs.
TicketsBounded == \A d \in Directives : ticket[d] =< pushes

\* After shutdown's second block nothing is wanted, and a round of the loop that
\* did nothing has seen both queues empty without releasing m_mutex.
NothingAfterShutdown ==
    /\ m_isShuttingDown => Wanted = {}
    /\ procPc = "exited" => m_isShuttingDown /\ m_cancelingQueue = {}
    /\ procPc = "canceling" => cancelHandled
    /\ procPc = "handling" => queuedHandled
    /\ procPc = "handle" /\ ~cancelHandled /\ ~queuedHandled => m_cancelingQueue = {}

-----------------------------------------------------------------------------
(* The processor implements the life cycle of directives *)

\* How far a directive has come, read off the places it can be in.
StageOf(d) ==
    IF d \notin delivered THEN "expected"
    ELSE IF d \in cancelled THEN "cancelled"
    ELSE IF d \in Doomed THEN "condemned"
    ELSE IF d = m_directiveBeingPreHandled THEN "preHandling"
    ELSE IF d \in m_handlingQueue THEN "queued"
    ELSE IF d \in Occupants(m_directivesBeingHandled) THEN "handling"
    ELSE "left"

Lifecycle == INSTANCE DirectiveLifecycle WITH
    stage <- [d \in Directives |-> StageOf(d)],
    needs <- [d \in Directives |-> Mediums(d)]

\* Whatever threads, reports, cancellations and dialog changes do to the queues,
\* each directive goes through the stages of its life once and in order, and is
\* started only when its mediums are free of all that is being handled.
LifecycleKept == Lifecycle!Spec
=============================================================================
