--------------------------- MODULE DirectiveSequencer ---------------------------
(***************************************************************************)
(* The directive sequencer (adsl/DirectiveSequencer.cpp) around the        *)
(* processor: directives that the message interpreter delivers are queued, *)
(* the receiving thread takes them one by one to the processor's           *)
(* onDirective, and what the processor does not take is reported to AVS    *)
(* with an ExceptionEncountered event.  disable and enable change both     *)
(* components under the sequencer's m_mutex; doShutdown joins the          *)
(* receiving thread, then shuts the processor and the router down.         *)
(* addDirectiveHandler goes through to the router.                         *)
(*                                                                         *)
(* The processor's state and steps are those of DirectiveProcessor.  The   *)
(* sequencer's m_isShuttingDown, m_isEnabled and m_mutex have the prefix   *)
(* seq_ here.  The build does not define                                   *)
(* DIALOG_REQUEST_ID_IN_ALL_RESPONSE_DIRECTIVES.                           *)
(***************************************************************************)
EXTENDS DirectiveProcessor, Sequences

VARIABLES
    seq_isShuttingDown, seq_isEnabled,
    seq_disabling,      \* disable() holds m_mutex between its two processor calls
    m_receivingQueue,
    loopPc, loopDirective,  \* receivingLoop
    shutPc,                 \* doShutdown
    adding,             \* addDirectiveHandler holds the router's m_mutex
    arrived,            \* history: directives offered to onDirective, in order
    accepted,           \* history: those for which it returned true
    exceptions          \* history: those an ExceptionEncountered was sent for

seqFlagVars == <<seq_isShuttingDown, seq_isEnabled, seq_disabling>>
loopVars    == <<loopPc, loopDirective>>
seqHistVars == <<arrived, accepted, exceptions>>
downVars    == <<shutPc, adding>>
seqVars == <<seqFlagVars, m_receivingQueue, loopVars, downVars, seqHistVars>>

allVars == <<vars, seqVars>>

-----------------------------------------------------------------------------
(* Helpers *)

SeqMutexFree == ~seq_disabling

\* The mutex of the router's RequiresShutdown, which shutdown() holds until it
\* returns and isShutdown() waits for.
RouterShutdownMutexFree == shutPc \notin {"router", "releasing"}

Elements(s) == {s[i] : i \in 1..Len(s)}

\* m_wakeReceivingLoop.notify_one()
NotifyLoop == loopPc' = IF loopPc = "sleeping" THEN "woken" ELSE loopPc

\* Mutant: the newest directive is put in front.
PushedInFront(d) == <<d>> \o m_receivingQueue

\* m_receivingQueue.push_back(directive)
Pushed(d) == Append(m_receivingQueue, d)

\* m_receivingQueue.pop_front()
Popped == Tail(m_receivingQueue)

\* Mutant: the predicate forgets the shutdown.
loopWakeQueueOnly == m_receivingQueue # <<>>

\* Mutant: the predicate forgets the queue.
loopWakeShutdownOnly == seq_isShuttingDown

\* The predicate of m_wakeReceivingLoop.wait in receivingLoop.
loopWake == m_receivingQueue # <<>> \/ seq_isShuttingDown

-----------------------------------------------------------------------------
(* DirectiveSequencer(exceptionSender, metricRecorder) *)

SeqInit ==
    /\ Init
    /\ seq_isShuttingDown = FALSE
    /\ seq_isEnabled = TRUE
    /\ seq_disabling = FALSE
    /\ m_receivingQueue = <<>>
    /\ loopPc = "woken"
    /\ loopDirective = NoDirective
    /\ shutPc = "running"
    /\ adding = FALSE
    /\ arrived = <<>>
    /\ accepted = {}
    /\ exceptions = {}

-----------------------------------------------------------------------------
(* onDirective, called by MessageInterpreter::receive, which ignores what it *)
(* returns                                                                   *)

seqOnDirective(d) ==
    /\ SeqMutexFree
    /\ d \notin Elements(arrived)
    /\ ~seq_isShuttingDown /\ seq_isEnabled
    /\ m_receivingQueue' = Pushed(d)
    /\ NotifyLoop
    /\ arrived' = Append(arrived, d)
    /\ accepted' = accepted \cup {d}
    /\ UNCHANGED <<vars, seqFlagVars, loopDirective, downVars, exceptions>>

seqOnDirectiveIgnored(d) ==
    /\ SeqMutexFree
    /\ d \notin Elements(arrived)
    /\ seq_isShuttingDown \/ ~seq_isEnabled
    /\ arrived' = Append(arrived, d)
    /\ UNCHANGED <<vars, seqFlagVars, m_receivingQueue, loopVars, downVars, accepted,
                   exceptions>>

-----------------------------------------------------------------------------
(* The receiving thread: receivingLoop *)

\* The thread has m_mutex and finds nothing to do.
LoopSleeps ==
    /\ loopPc = "woken" /\ SeqMutexFree
    /\ ~loopWake
    /\ loopPc' = "sleeping"
    /\ UNCHANGED <<vars, seqFlagVars, m_receivingQueue, loopDirective, downVars,
                   seqHistVars>>

LoopSpuriousWakeup ==
    /\ loopPc = "sleeping"
    /\ loopPc' = "woken"
    /\ UNCHANGED <<vars, seqFlagVars, m_receivingQueue, loopDirective, downVars,
                   seqHistVars>>

\* Shutting down: what is left in m_receivingQueue stays there.
LoopExits ==
    /\ loopPc = "woken" /\ SeqMutexFree
    /\ loopWake /\ seq_isShuttingDown
    /\ loopPc' = "exited"
    /\ UNCHANGED <<vars, seqFlagVars, m_receivingQueue, loopDirective, downVars,
                   seqHistVars>>

\* receiveDirectiveLocked takes the first directive and releases m_mutex.
receiveDirectiveLocked ==
    /\ loopPc = "woken" /\ SeqMutexFree
    /\ loopWake /\ ~seq_isShuttingDown
    /\ m_receivingQueue # <<>>
    /\ loopDirective' = Head(m_receivingQueue)
    /\ m_receivingQueue' = Popped
    /\ loopPc' = "received"
    /\ UNCHANGED <<vars, seqFlagVars, downVars, seqHistVars>>

\* handled = m_directiveProcessor->onDirective(directive)
LoopCallsProcessor ==
    /\ loopPc = "received"
    /\ \/ onDirectiveRefused(loopDirective)
       \/ onDirectiveDropped(loopDirective)
       \/ onDirective(loopDirective)
    /\ loopPc' = "calling"
    /\ UNCHANGED <<seqFlagVars, m_receivingQueue, loopDirective, downVars, seqHistVars>>

\* Mutant: the exception is sent for the directives the processor took.
RejectedInverted == recvResult

\* if (!handled)
Rejected == ~recvResult

\* onDirective returned: an exception is sent for a directive it did not take.
LoopReturns ==
    /\ loopPc = "calling"
    /\ exceptions' = IF Rejected THEN exceptions \cup {loopDirective} ELSE exceptions
    /\ onDirectiveReturn
    /\ loopPc' = "woken"
    /\ loopDirective' = NoDirective
    /\ UNCHANGED <<seqFlagVars, m_receivingQueue, downVars, arrived, accepted>>

-----------------------------------------------------------------------------
(* Clients *)

\* setDialogRequestId passes through; so do the handlers' reports.
seqSetDialogRequestId(id) == setDialogRequestId(id) /\ UNCHANGED seqVars

\* disable, up to the return of m_directiveProcessor->setDialogRequestId(""),
\* which ignores an id that is already empty.
seqDisable ==
    /\ SeqMutexFree
    /\ seq_isEnabled' = FALSE
    /\ seq_disabling' = TRUE
    /\ \/ setDialogRequestId(NoId)
       \/ LockFree /\ m_dialogRequestId = NoId /\ UNCHANGED vars
    /\ UNCHANGED <<seq_isShuttingDown, m_receivingQueue, loopVars, downVars, seqHistVars>>

\* disable: m_directiveProcessor->disable(), and m_mutex is released.
seqDisableProcessor ==
    /\ seq_disabling
    /\ seq_disabling' = FALSE
    /\ disable
    /\ NotifyLoop
    /\ UNCHANGED <<seq_isShuttingDown, seq_isEnabled, m_receivingQueue, loopDirective,
                   downVars, seqHistVars>>

seqEnable ==
    /\ SeqMutexFree
    /\ seq_isEnabled' = TRUE
    /\ enable
    /\ NotifyLoop
    /\ UNCHANGED <<seq_isShuttingDown, seq_disabling, m_receivingQueue, loopDirective,
                   downVars, seqHistVars>>

\* doShutdown, under m_mutex.
doShutdown ==
    /\ shutPc = "running" /\ SeqMutexFree
    /\ seq_isShuttingDown' = TRUE
    /\ NotifyLoop
    /\ shutPc' = "joining"
    /\ UNCHANGED <<vars, seq_isEnabled, seq_disabling, m_receivingQueue, loopDirective,
                   adding, seqHistVars>>

\* Mutant: the thread is not waited for.
doShutdownDetaches ==
    /\ shutPc = "joining"
    /\ shutPc' = "processor"
    /\ UNCHANGED <<vars, seqFlagVars, m_receivingQueue, loopVars, adding, seqHistVars>>

\* m_receivingThread.join()
doShutdownJoins ==
    /\ shutPc = "joining" /\ loopPc = "exited"
    /\ shutPc' = "processor"
    /\ UNCHANGED <<vars, seqFlagVars, m_receivingQueue, loopVars, adding, seqHistVars>>

\* m_directiveProcessor->shutdown()
doShutdownProcessor ==
    /\ shutPc = "processor"
    /\ Shutdown
    /\ UNCHANGED seqVars

\* m_directiveRouter.shutdown() takes the mutex of RequiresShutdown.
doShutdownRouter ==
    /\ shutPc = "processor" /\ clientPc = "done"
    /\ shutPc' = "router"
    /\ UNCHANGED <<vars, seqFlagVars, m_receivingQueue, loopVars, adding, seqHistVars>>

\* The router's doShutdown takes its m_mutex, removes the handlers and releases it.
doShutdownRouterRemoves ==
    /\ shutPc = "router" /\ ~adding
    /\ shutPc' = "releasing"
    /\ UNCHANGED <<vars, seqFlagVars, m_receivingQueue, loopVars, adding, seqHistVars>>

\* The handlers were told; the router's shutdown returns; m_exceptionSender.reset().
doShutdownReturns ==
    /\ shutPc = "releasing"
    /\ shutPc' = "done"
    /\ UNCHANGED <<vars, seqFlagVars, m_receivingQueue, loopVars, adding, seqHistVars>>

-----------------------------------------------------------------------------
(* addDirectiveHandler.  What it registers is in DirectiveRouter; here it    *)
(* matters that it holds the router's m_mutex while it asks isShutdown().    *)
(* The processor's calls of the router take that mutex too, but no shutdown  *)
(* of the router is under way then, so they only wait for a moment.          *)

\* A call matters only if it is under way when the router is shut down: begun
\* earlier, it changes nothing else here, so calls begin once the receiving thread
\* has been joined.
seqAddDirectiveHandler ==
    /\ ~adding /\ shutPc \notin {"running", "joining"}
    /\ adding' = TRUE
    /\ UNCHANGED <<vars, seqFlagVars, m_receivingQueue, loopVars, shutPc, seqHistVars>>

\* isShutdown() got its mutex; addDirectiveHandler returns.
seqAddDirectiveHandlerReturns ==
    /\ adding /\ RouterShutdownMutexFree
    /\ adding' = FALSE
    /\ UNCHANGED <<vars, seqFlagVars, m_receivingQueue, loopVars, shutPc, seqHistVars>>

-----------------------------------------------------------------------------
(* Next *)

ReceivingLoop ==
    LoopSleeps \/ LoopExits \/ receiveDirectiveLocked \/ LoopCallsProcessor \/ LoopReturns

ShuttingDown ==
    doShutdownJoins \/ doShutdownProcessor \/ doShutdownRouter \/ doShutdownRouterRemoves
        \/ doShutdownReturns

\* The processor's own threads and the handlers' reports.
Within ==
    /\ Receiving \/ Processing \/ SpuriousWakeup \/ \E d \in Directives : Reports(d)
    /\ UNCHANGED seqVars

SeqNext ==
    \/ \E d \in Directives : seqOnDirective(d) \/ seqOnDirectiveIgnored(d)
    \/ ReceivingLoop \/ LoopSpuriousWakeup
    \/ \E id \in DialogIds \cup {NoId} : seqSetDialogRequestId(id)
    \/ seqDisable \/ seqDisableProcessor \/ seqEnable
    \/ seqAddDirectiveHandler \/ seqAddDirectiveHandlerReturns
    \/ doShutdown \/ ShuttingDown
    \/ Within

SeqSpec == SeqInit /\ [][SeqNext]_allVars

\* Threads that wait for a mutex get it, and calls of handlers return.
SeqFairness ==
    /\ SF_allVars(ReceivingLoop)
    /\ WF_allVars(Processing /\ UNCHANGED seqVars)
    /\ SF_allVars(Receiving /\ UNCHANGED seqVars)
    /\ SF_allVars(seqDisableProcessor)
    /\ SF_allVars(ShuttingDown)
    /\ WF_allVars(seqAddDirectiveHandlerReturns)

SeqFairSpec == SeqSpec /\ SeqFairness

-----------------------------------------------------------------------------
(* Properties *)

\* The sequencer's members are well formed, and the receiving thread has a
\* directive in hand exactly while it works on one.
SeqTypeOK ==
    /\ seq_isShuttingDown \in BOOLEAN /\ seq_isEnabled \in BOOLEAN
    /\ seq_disabling \in BOOLEAN
    /\ m_receivingQueue \in Seq(Directives) /\ arrived \in Seq(Directives)
    /\ loopPc \in {"woken", "sleeping", "received", "calling", "exited"}
    /\ loopDirective \in Directives \cup {NoDirective}
    /\ loopDirective # NoDirective <=> loopPc \in {"received", "calling"}
    /\ loopPc = "calling" <=> recvPc # "idle"
    /\ shutPc \in {"running", "joining", "processor", "router", "releasing", "done"}
    /\ adding \in BOOLEAN
    /\ accepted \subseteq Directives /\ exceptions \subseteq Directives

\* Directives are handled in the order in which they arrived: the two queues and
\* the thread between them keep it.
ArrivalOrder ==
    \A i, j \in 1..Len(arrived) :
        i < j /\ ticket[arrived[i]] > 0 /\ ticket[arrived[j]] > 0
            => ticket[arrived[i]] < ticket[arrived[j]]

\* Every directive that was accepted is in the queue, in the hands of the
\* receiving thread or with the processor, and never in two of them.
NothingLostOnTheWay ==
    /\ accepted = Elements(m_receivingQueue) \cup ({loopDirective} \ {NoDirective})
                    \cup delivered
    /\ Elements(m_receivingQueue) \cap ({loopDirective} \cup delivered) = {}
    /\ loopPc = "received" => loopDirective \notin delivered

\* AVS is never told that a directive is unsupported that a handler was given to
\* handle, or still may be.
ExceptionMeansUnhandled ==
    exceptions \cap (handled \cup m_handlingQueue) = {}

\* After disable() has returned and until enable() nothing waits and nothing
\* occupies a medium, although the receiving thread may have been in the middle
\* of the processor's onDirective.
DisabledMeansIdle == SeqMutexFree /\ ~seq_isEnabled => Wanted = {}

\* doShutdown stops its threads in the right order: no call of onDirective is under
\* way when the processor is shut down, and the processor's thread has ended and
\* left nothing behind before the handlers are taken from the router.
ShutdownLeavesNothing ==
    shutPc \in {"processor", "router", "releasing", "done"} =>
        /\ recvPc = "idle"
        /\ shutPc # "processor" => procPc = "exited" /\ Wanted \cup Doomed = {}

\* Every accepted directive reaches the processor unless the sequencer shuts down:
\* again and again none is on its way.
AcceptedIsDelivered == []<>(accepted \subseteq delivered \/ seq_isShuttingDown)

\* addDirectiveHandler holds the router's m_mutex and waits for the mutex of
\* RequiresShutdown; the router's shutdown() holds that one and waits for m_mutex.
LockOrderHang == adding /\ shutPc = "router"

\* doShutdown returns, whatever the receiving thread, the processing thread and
\* disable are doing when it starts, unless a call of addDirectiveHandler comes
\* upon m_directiveRouter.shutdown() with the locks in the other order: nothing
\* else makes it hang.
SeqShutdownReturns == []<>(shutPc \in {"running", "done"} \/ LockOrderHang)
=============================================================================
