------------------------ MODULE DirectiveSequencerProofs ------------------------
(***************************************************************************)
(* Proofs about DirectiveSequencer.  It uses the processor the way         *)
(* DirectiveProcessor allows, so whatever is proved of the processor holds *)
(* inside the sequencer; on top of that come the properties that need both *)
(* components.                                                             *)
(***************************************************************************)
EXTENDS DirectiveSequencer, DirectiveProcessorProofs

USE DirectivesAssumption, IdsAssumption

-----------------------------------------------------------------------------
(* What the processor's own threads leave alone *)

ProcessorThreads ==
    Receiving \/ Processing \/ SpuriousWakeup \/ \E d \in Directives : Reports(d)

\* They change no flag, start and end no call of onDirective and no shutdown.
LEMMA ThreadsKeep ==
    ASSUME ThreadTypes, ProcessorThreads
    PROVE  /\ UNCHANGED <<m_isEnabled, m_isShuttingDown, clientPc, recvDirective, delivered>>
           /\ recvPc' = "idle" <=> recvPc = "idle"
           /\ procPc = "exited" => procPc' = "exited"
<1> USE DEF queueVars, flagVars, procVars, recvVars, pairVars, histVars
<1>1. CASE Receiving
  BY <1>1 DEF Receiving, RouterPreHandle, onDirectiveUnrouted, onDirectiveGone,
     onDirectiveQueued, Notify
<1>2. CASE Processing \/ SpuriousWakeup
  BY <1>2 DEF Processing, SpuriousWakeup, Relock, WaitForWork,
     processCancelingQueueLocked, CancelingDone, CancelDirective,
     handleQueuedDirectivesLocked, HandleDirectiveSucceeded, HandleDirectiveFailed,
     RoundDone
<1>3. ASSUME NEW d \in Directives, Reports(d)
      PROVE  /\ UNCHANGED <<m_isEnabled, m_isShuttingDown, clientPc, recvDirective, delivered>>
             /\ recvPc' = "idle" <=> recvPc = "idle"
             /\ procPc = "exited" => procPc' = "exited"
  BY <1>3 DEF Reports, setCompleted, setFailed, ReportIgnored, Notify
<1> QED BY <1>1, <1>2, <1>3 DEF ProcessorThreads

\* The steps of the router's shutdown and of addDirectiveHandler, which leave the
\* processor and the queues alone.
RouterDown ==
    doShutdownRouter \/ doShutdownRouterRemoves \/ doShutdownReturns
        \/ seqAddDirectiveHandler \/ seqAddDirectiveHandlerReturns

\* The calls that the clients make do not touch onDirective.
LEMMA ClientsKeep ==
    ASSUME \/ \E id \in DialogIds \cup {NoId} : setDialogRequestId(id)
           \/ disable \/ enable \/ Shutdown
    PROVE  /\ UNCHANGED <<recvPc, recvDirective, recvResult, delivered>>
           /\ procPc = "exited" => procPc' = "exited"
<1> USE DEF queueVars, flagVars, procVars, recvVars, pairVars, histVars
<1>1. ASSUME NEW id \in DialogIds \cup {NoId}, setDialogRequestId(id)
      PROVE  /\ UNCHANGED <<recvPc, recvDirective, recvResult, delivered>>
             /\ procPc = "exited" => procPc' = "exited"
  BY <1>1 DEF setDialogRequestId, Notify
<1>2. CASE disable \/ enable
  BY <1>2 DEF disable, enable, Notify
<1>3. CASE Shutdown
  BY <1>3 DEF Shutdown, shutdownUnregister, shutdownCancelAll, shutdownJoin, Notify
<1> QED BY <1>1, <1>2, <1>3

-----------------------------------------------------------------------------
(* Types *)

\* Every step of the sequencer keeps its types.
LEMMA SeqTypeNext ==
    ThreadTypes /\ SeqTypeOK /\ [SeqNext]_allVars => SeqTypeOK'
<1> SUFFICES ASSUME ThreadTypes, SeqTypeOK, [SeqNext]_allVars PROVE SeqTypeOK'
  OBVIOUS
<1> USE DEF seqFlagVars, loopVars, downVars, seqHistVars, seqVars
<1>1. ASSUME NEW d \in Directives, seqOnDirective(d) \/ seqOnDirectiveIgnored(d)
      PROVE  SeqTypeOK'
  <2>1. recvPc' = recvPc /\ UNCHANGED <<seqFlagVars, loopDirective, downVars, exceptions>>
    BY <1>1 DEF seqOnDirective, seqOnDirectiveIgnored, vars, recvVars
  <2>2. arrived' = Append(arrived, d)
    BY <1>1 DEF seqOnDirective, seqOnDirectiveIgnored
  <2>3. arrived' \in Seq(Directives)
    BY <2>2 DEF SeqTypeOK
  <2>4. m_receivingQueue' \in Seq(Directives)
    <3>1. m_receivingQueue' \in {m_receivingQueue, Append(m_receivingQueue, d)}
      BY <1>1 DEF seqOnDirective, seqOnDirectiveIgnored, Pushed
    <3>2. m_receivingQueue \in Seq(Directives)
      BY DEF SeqTypeOK
    <3> QED BY <3>1, <3>2
  <2>5. accepted' \subseteq Directives
    BY <1>1 DEF seqOnDirective, seqOnDirectiveIgnored, SeqTypeOK
  <2>6. loopPc' = loopPc \/ (loopPc = "sleeping" /\ loopPc' = "woken")
    BY <1>1 DEF seqOnDirective, seqOnDirectiveIgnored, NotifyLoop
  <2> QED BY <2>1, <2>3, <2>4, <2>5, <2>6 DEF SeqTypeOK
<1>2. CASE LoopSleeps \/ LoopExits \/ LoopSpuriousWakeup
  <2>1. recvPc' = recvPc
    BY <1>2 DEF LoopSleeps, LoopExits, LoopSpuriousWakeup, vars, recvVars
  <2> QED BY <1>2, <2>1 DEF LoopSleeps, LoopExits, LoopSpuriousWakeup, SeqTypeOK
<1>3. CASE receiveDirectiveLocked
  <2>1. recvPc' = recvPc
    BY <1>3 DEF receiveDirectiveLocked, vars, recvVars
  <2>2. m_receivingQueue' \in Seq(Directives) /\ loopDirective' \in Directives
    BY <1>3 DEF receiveDirectiveLocked, Popped, SeqTypeOK
  <2> QED BY <1>3, <2>1, <2>2 DEF receiveDirectiveLocked, SeqTypeOK
<1>4. CASE LoopCallsProcessor
  <2>1. recvPc' # "idle"
    BY <1>4 DEF LoopCallsProcessor, onDirectiveRefused, onDirectiveDropped, onDirective
  <2> QED BY <1>4, <2>1 DEF LoopCallsProcessor, SeqTypeOK
<1>5. CASE LoopReturns
  <2>1. recvPc' = "idle" /\ exceptions' \subseteq Directives
    BY <1>5 DEF LoopReturns, onDirectiveReturn, SeqTypeOK
  <2> QED BY <1>5, <2>1 DEF LoopReturns, SeqTypeOK
<1>6. ASSUME NEW id \in DialogIds \cup {NoId}, seqSetDialogRequestId(id) PROVE SeqTypeOK'
  BY <1>6, ClientsKeep DEF seqSetDialogRequestId, SeqTypeOK
<1>7. CASE seqDisable
  <2>1. recvPc' = recvPc
    BY <1>7, ClientsKeep DEF seqDisable, vars, recvVars
  <2> QED BY <1>7, <2>1 DEF seqDisable, SeqTypeOK
<1>8. CASE seqDisableProcessor \/ seqEnable
  <2>1. recvPc' = recvPc
    BY <1>8, ClientsKeep DEF seqDisableProcessor, seqEnable
  <2> QED BY <1>8, <2>1 DEF seqDisableProcessor, seqEnable, NotifyLoop, SeqTypeOK
<1>9. CASE doShutdown \/ doShutdownJoins \/ RouterDown
  <2>1. recvPc' = recvPc
    BY <1>9 DEF doShutdown, doShutdownJoins, RouterDown, doShutdownRouter,
     doShutdownRouterRemoves, doShutdownReturns, seqAddDirectiveHandler,
     seqAddDirectiveHandlerReturns, vars, recvVars
  <2> QED BY <1>9, <2>1 DEF doShutdown, doShutdownJoins, RouterDown, doShutdownRouter,
     doShutdownRouterRemoves, doShutdownReturns, seqAddDirectiveHandler,
     seqAddDirectiveHandlerReturns, NotifyLoop, SeqTypeOK
<1>10. CASE doShutdownProcessor
  BY <1>10, ClientsKeep DEF doShutdownProcessor, SeqTypeOK
<1>11. CASE Within
  BY <1>11, ThreadsKeep DEF Within, ProcessorThreads, SeqTypeOK
<1>12. CASE UNCHANGED allVars
  BY <1>12 DEF allVars, vars, recvVars, SeqTypeOK
<1> QED
  BY <1>1, <1>2, <1>3, <1>4, <1>5, <1>6, <1>7, <1>8, <1>9, <1>10, <1>11, <1>12
  DEF SeqNext, ReceivingLoop, ShuttingDown, RouterDown

-----------------------------------------------------------------------------
(* The sequencer implements a client of the processor *)

\* A step of the sequencer is a step of the processor, or leaves it alone.
LEMMA SeqStepIsProcessorStep ==
    SeqTypeOK /\ [SeqNext]_allVars => [Next]_vars
<1> SUFFICES ASSUME SeqTypeOK, [SeqNext]_allVars PROVE [Next]_vars
  OBVIOUS
<1>1. CASE \E d \in Directives : seqOnDirective(d) \/ seqOnDirectiveIgnored(d)
  BY <1>1 DEF seqOnDirective, seqOnDirectiveIgnored
<1>2. CASE LoopSleeps \/ LoopExits \/ receiveDirectiveLocked \/ LoopSpuriousWakeup
  BY <1>2 DEF LoopSleeps, LoopExits, receiveDirectiveLocked, LoopSpuriousWakeup
<1>3. CASE LoopCallsProcessor
  <2>1. loopDirective \in Directives
    BY <1>3 DEF LoopCallsProcessor, SeqTypeOK
  <2> QED BY <1>3, <2>1 DEF LoopCallsProcessor, Next
<1>4. CASE LoopReturns
  BY <1>4 DEF LoopReturns, Next
<1>5. ASSUME NEW id \in DialogIds \cup {NoId}, seqSetDialogRequestId(id) PROVE [Next]_vars
  BY <1>5 DEF seqSetDialogRequestId, Next
<1>6. CASE seqDisable
  BY <1>6 DEF seqDisable, Next
<1>7. CASE seqDisableProcessor \/ seqEnable
  BY <1>7 DEF seqDisableProcessor, seqEnable, Next
<1>8. CASE doShutdown \/ doShutdownJoins \/ RouterDown
  BY <1>8 DEF doShutdown, doShutdownJoins, RouterDown, doShutdownRouter,
     doShutdownRouterRemoves, doShutdownReturns, seqAddDirectiveHandler,
     seqAddDirectiveHandlerReturns
<1>9. CASE doShutdownProcessor
  BY <1>9 DEF doShutdownProcessor, Next
<1>10. CASE Within
  BY <1>10 DEF Within, Next
<1>11. CASE UNCHANGED allVars
  BY <1>11 DEF allVars
<1> QED
  BY <1>1, <1>2, <1>3, <1>4, <1>5, <1>6, <1>7, <1>8, <1>9, <1>10, <1>11
  DEF SeqNext, ReceivingLoop, ShuttingDown, RouterDown

\* In the beginning both components are in their initial state.
LEMMA SeqInitType == SeqInit => SeqTypeOK /\ Init /\ TypeOK
<1> SUFFICES ASSUME SeqInit PROVE SeqTypeOK /\ Init /\ TypeOK
  OBVIOUS
<1>1. Init
  BY DEF SeqInit
<1>2. TypeOK
  BY <1>1, TypeInit
<1>3. recvPc = "idle"
  BY <1>1 DEF Init
<1>4. m_receivingQueue \in Seq(Directives) /\ arrived \in Seq(Directives)
  BY DEF SeqInit
<1>5. loopDirective = NoDirective /\ loopPc = "woken"
  BY DEF SeqInit
<1>6. SeqTypeOK
  BY <1>3, <1>4, <1>5 DEF SeqInit, SeqTypeOK
<1> QED BY <1>1, <1>2, <1>6

\* The sequencer keeps its own types and the processor's, and only makes calls
\* that DirectiveProcessor allows: it never calls onDirective from two threads and
\* never starts a second shutdown.
LEMMA SeqTypeAlways == SeqSpec => [](SeqTypeOK /\ TypeOK)
<1>1. SeqTypeOK /\ TypeOK /\ [SeqNext]_allVars => (SeqTypeOK /\ TypeOK)'
  BY SeqTypeNext, SeqStepIsProcessorStep, FlagTypesNext, PlaceTypesNext, ThreadTypesNext
     DEF TypeOK
<1> QED BY <1>1, SeqInitType, PTL DEF SeqSpec

\* The sequencer's members and its receiving thread stay in step.
THEOREM SeqTypeCorrect == SeqSpec => []SeqTypeOK
BY SeqTypeAlways, PTL

\* The sequencer implements the processor's specification: every theorem about
\* the processor alone holds of the processor inside the sequencer.
THEOREM SequencerImplementsProcessor == SeqSpec => Spec
<1>1. SeqInit => Init
  BY DEF SeqInit
<1> QED BY <1>1, SeqStepIsProcessorStep, SeqTypeAlways, PTL DEF SeqSpec, Spec

-----------------------------------------------------------------------------
(* disable *)

\* The processor is disabled with the sequencer, and holds nothing then.
Disabled ==
    /\ ~m_isEnabled => Wanted = {}
    /\ SeqMutexFree => (seq_isEnabled <=> m_isEnabled)
    /\ seq_disabling => ~seq_isEnabled

\* Every step keeps it.
LEMMA DisabledNext ==
    TypeOK /\ SeqTypeOK /\ Disabled /\ [SeqNext]_allVars => Disabled'
<1> SUFFICES ASSUME TypeOK, SeqTypeOK, Disabled, [SeqNext]_allVars, Moves PROVE Disabled'
  BY SeqStepIsProcessorStep, MovesNext DEF TypeOK
<1> USE DEF seqFlagVars, loopVars, downVars, seqHistVars, seqVars
<1>1. ASSUME UNCHANGED <<m_isEnabled, seq_isEnabled, seq_disabling>> PROVE Disabled'
  <2>1. ~m_isEnabled' => Wanted' = {}
    BY <1>1 DEF Moves, Disabled
  <2> QED BY <1>1, <2>1 DEF Disabled, SeqMutexFree
<1>2. CASE \E d \in Directives : seqOnDirective(d) \/ seqOnDirectiveIgnored(d)
  BY <1>1, <1>2 DEF seqOnDirective, seqOnDirectiveIgnored, vars
<1>3. CASE LoopSleeps \/ LoopExits \/ receiveDirectiveLocked \/ LoopSpuriousWakeup
  BY <1>1, <1>3 DEF LoopSleeps, LoopExits, receiveDirectiveLocked, LoopSpuriousWakeup,
     vars
<1>4. CASE LoopCallsProcessor
  BY <1>1, <1>4 DEF LoopCallsProcessor, onDirectiveRefused, onDirectiveDropped,
     onDirective, flagVars
<1>5. CASE LoopReturns
  BY <1>1, <1>5 DEF LoopReturns, onDirectiveReturn, flagVars
<1>6. ASSUME NEW id \in DialogIds \cup {NoId}, seqSetDialogRequestId(id) PROVE Disabled'
  BY <1>1, <1>6 DEF seqSetDialogRequestId, setDialogRequestId, flagVars
<1>7. CASE seqDisable
  <2>1. m_isEnabled' = m_isEnabled
    BY <1>7 DEF seqDisable, setDialogRequestId, flagVars, vars
  <2>2. ~m_isEnabled' => Wanted' = {}
    BY <2>1 DEF Moves, Disabled
  <2> QED BY <1>7, <2>2 DEF seqDisable, Disabled, SeqMutexFree
<1>8. CASE seqDisableProcessor
  <2>1. Wanted' = {} /\ ~m_isEnabled'
    BY <1>8, QueueAllMoves DEF seqDisableProcessor, disable, TypeOK
  <2> QED BY <1>8, <2>1 DEF seqDisableProcessor, Disabled, SeqMutexFree
<1>9. CASE seqEnable
  BY <1>9 DEF seqEnable, enable, Disabled, SeqMutexFree
<1>10. CASE doShutdown \/ doShutdownJoins \/ RouterDown
  BY <1>1, <1>10 DEF doShutdown, doShutdownJoins, RouterDown, doShutdownRouter,
     doShutdownRouterRemoves, doShutdownReturns, seqAddDirectiveHandler,
     seqAddDirectiveHandlerReturns, vars
<1>11. CASE doShutdownProcessor
  BY <1>1, <1>11 DEF doShutdownProcessor, Shutdown, shutdownUnregister,
     shutdownCancelAll, shutdownJoin, flagVars
<1>12. CASE Within
  BY <1>1, <1>12, ThreadsKeep DEF Within, ProcessorThreads, TypeOK
<1>13. CASE UNCHANGED allVars
  BY <1>1, <1>13 DEF allVars, vars
<1> QED
  BY <1>2, <1>3, <1>4, <1>5, <1>6, <1>7, <1>8, <1>9, <1>10, <1>11, <1>12, <1>13
  DEF SeqNext, ReceivingLoop, ShuttingDown, RouterDown

\* Between the return of disable() and enable() no directive waits and none
\* occupies a medium, even one whose pre-handling was under way.
THEOREM DisabledSafety == SeqSpec => []DisabledMeansIdle
<1>1. SeqInit => Disabled
  BY DEF SeqInit, Init, Disabled, Wanted, Occupants
<1>2. Disabled => DisabledMeansIdle
  BY DEF Disabled, DisabledMeansIdle
<1> QED BY <1>1, <1>2, DisabledNext, SeqTypeAlways, PTL DEF SeqSpec

-----------------------------------------------------------------------------
(* doShutdown *)

\* doShutdown goes on only when the thread it waits for has ended.
Joined ==
    /\ shutPc \in {"processor", "router", "releasing", "done"} => loopPc = "exited"
    /\ clientPc = "done" => procPc = "exited"
    /\ shutPc \in {"router", "releasing", "done"} => clientPc = "done"

\* Every step keeps it.
LEMMA JoinedNext ==
    TypeOK /\ SeqTypeOK /\ Joined /\ [SeqNext]_allVars => Joined'
<1> SUFFICES ASSUME TypeOK, SeqTypeOK, Joined, [SeqNext]_allVars PROVE Joined'
  OBVIOUS
<1> USE DEF seqFlagVars, loopVars, downVars, seqHistVars, seqVars
<1>1. CASE \E d \in Directives : seqOnDirective(d) \/ seqOnDirectiveIgnored(d)
  BY <1>1 DEF seqOnDirective, seqOnDirectiveIgnored, NotifyLoop, vars, Joined
<1>2. CASE LoopSleeps \/ LoopExits \/ receiveDirectiveLocked \/ LoopSpuriousWakeup
  BY <1>2 DEF LoopSleeps, LoopExits, receiveDirectiveLocked, LoopSpuriousWakeup, vars,
     Joined
<1>3. CASE LoopCallsProcessor
  BY <1>3 DEF LoopCallsProcessor, onDirectiveRefused, onDirectiveDropped, onDirective,
     Joined
<1>4. CASE LoopReturns
  BY <1>4 DEF LoopReturns, onDirectiveReturn, Joined
<1>5. ASSUME NEW id \in DialogIds \cup {NoId}, seqSetDialogRequestId(id) PROVE Joined'
  <2>1. clientPc' = clientPc
    BY <1>5 DEF seqSetDialogRequestId, setDialogRequestId
  <2>2. procPc = "exited" => procPc' = "exited"
    BY <1>5, ClientsKeep DEF seqSetDialogRequestId
  <2> QED BY <1>5, <2>1, <2>2 DEF seqSetDialogRequestId, Joined
<1>6. CASE seqDisable \/ seqDisableProcessor \/ seqEnable
  <2>1. clientPc' = clientPc
    BY <1>6 DEF seqDisable, seqDisableProcessor, seqEnable, setDialogRequestId, disable,
       enable, vars
  <2>2. procPc = "exited" => procPc' = "exited"
    BY <1>6, ClientsKeep DEF seqDisable, seqDisableProcessor, seqEnable, vars
  <2> QED BY <1>6, <2>1, <2>2 DEF seqDisable, seqDisableProcessor, seqEnable, NotifyLoop,
                               Joined
<1>7. CASE doShutdown \/ doShutdownJoins \/ RouterDown
  BY <1>7 DEF doShutdown, doShutdownJoins, RouterDown, doShutdownRouter,
     doShutdownRouterRemoves, doShutdownReturns, seqAddDirectiveHandler,
     seqAddDirectiveHandlerReturns, NotifyLoop, vars, Joined
<1>8. CASE doShutdownProcessor
  <2>1. procPc = "exited" => procPc' = "exited"
    BY <1>8, ClientsKeep DEF doShutdownProcessor
  <2>2. clientPc' = "done" => procPc = "exited"
    BY <1>8 DEF doShutdownProcessor, Shutdown, shutdownUnregister, shutdownCancelAll,
       shutdownJoin
  <2> QED BY <1>8, <2>1, <2>2 DEF doShutdownProcessor, Joined
<1>9. CASE Within
  BY <1>9, ThreadsKeep DEF Within, ProcessorThreads, TypeOK, Joined
<1>10. CASE UNCHANGED allVars
  BY <1>10 DEF allVars, vars, Joined
<1> QED
  BY <1>1, <1>2, <1>3, <1>4, <1>5, <1>6, <1>7, <1>8, <1>9, <1>10
  DEF SeqNext, ReceivingLoop, ShuttingDown, RouterDown

\* doShutdown stops its threads in order: the receiving thread is out of onDirective
\* before the processor is shut down, and the processor is empty and its thread has
\* ended before the router loses its handlers, and so when doShutdown returns.
THEOREM SeqShutdownSafety == SeqSpec => []ShutdownLeavesNothing
<1>1. SeqInit => Joined
  BY DEF SeqInit, Init, Joined
<1>2. SeqTypeOK /\ Joined /\ CleanExit => ShutdownLeavesNothing
  BY DEF SeqTypeOK, Joined, CleanExit, ShutdownLeavesNothing
<1>3. SeqSpec => []CleanExit
  BY SequencerImplementsProcessor, ExitSafety, PTL
<1> QED BY <1>1, <1>2, <1>3, JoinedNext, SeqTypeAlways, PTL DEF SeqSpec
-----------------------------------------------------------------------------
(* The way of a directive *)

\* push_back adds one element.
LEMMA ElementsAppend ==
    ASSUME NEW s \in Seq(Directives), NEW d \in Directives
    PROVE  Elements(Append(s, d)) = Elements(s) \cup {d}
<1>1. Len(Append(s, d)) = Len(s) + 1 /\ Len(s) \in Nat
  OBVIOUS
<1>2. \A i \in 1..Len(s) : Append(s, d)[i] = s[i]
  OBVIOUS
<1>3. Append(s, d)[Len(s) + 1] = d
  OBVIOUS
<1>4. 1..(Len(s) + 1) = 1..Len(s) \cup {Len(s) + 1}
  BY <1>1
<1> QED BY <1>1, <1>2, <1>3, <1>4 DEF Elements

\* No directive is twice in s.
Distinct(s) == \A k, l \in 1..Len(s) : k # l => s[k] # s[l]

\* pop_front takes the first element, and all of it.
LEMMA ElementsTail ==
    ASSUME NEW s \in Seq(Directives), s # <<>>, Distinct(s)
    PROVE  /\ Head(s) \in Directives
           /\ Elements(s) = Elements(Tail(s)) \cup {Head(s)}
           /\ Head(s) \notin Elements(Tail(s))
           /\ Distinct(Tail(s))
           /\ Len(Tail(s)) = Len(s) - 1
           /\ \A k \in 1..Len(Tail(s)) : k + 1 \in 1..Len(s) /\ Tail(s)[k] = s[k + 1]
<1>1. Len(s) \in Nat \ {0} /\ Len(Tail(s)) = Len(s) - 1 /\ Head(s) = s[1]
  OBVIOUS
<1>2. \A k \in 1..Len(Tail(s)) : k + 1 \in 1..Len(s) /\ Tail(s)[k] = s[k + 1]
  BY <1>1
<1>3. Head(s) \in Directives
  OBVIOUS
<1>4. Elements(Tail(s)) \subseteq Elements(s)
  BY <1>2 DEF Elements
<1>5. Head(s) \in Elements(s)
  BY <1>1 DEF Elements
<1>6. ASSUME NEW i \in 1..Len(s) PROVE s[i] \in Elements(Tail(s)) \cup {Head(s)}
  <2>1. CASE i = 1
    BY <1>1, <2>1
  <2>2. CASE i # 1
    <3>1. i - 1 \in 1..Len(Tail(s)) /\ (i - 1) + 1 = i
      BY <1>1, <2>2
    <3>2. Tail(s)[i - 1] = s[i]
      BY <1>2, <3>1
    <3> QED BY <3>1, <3>2 DEF Elements
  <2> QED BY <2>1, <2>2
<1>7. Head(s) \notin Elements(Tail(s))
  <2> SUFFICES ASSUME NEW k \in 1..Len(Tail(s)) PROVE Tail(s)[k] # s[1]
    BY <1>1 DEF Elements
  <2>1. k + 1 \in 1..Len(s) /\ k + 1 # 1 /\ 1 \in 1..Len(s)
    BY <1>1, <1>2
  <2> QED BY <1>2, <2>1 DEF Distinct
<1>8. Distinct(Tail(s))
  <2> SUFFICES ASSUME NEW k \in 1..Len(Tail(s)), NEW l \in 1..Len(Tail(s)), k # l
               PROVE  Tail(s)[k] # Tail(s)[l]
    BY DEF Distinct
  <2>1. k + 1 # l + 1
    OBVIOUS
  <2> QED BY <1>2, <2>1 DEF Distinct
<1>9. Elements(s) \subseteq Elements(Tail(s)) \cup {Head(s)}
  BY <1>6 DEF Elements
<1> QED BY <1>1, <1>2, <1>3, <1>4, <1>5, <1>7, <1>8, <1>9

\* The three places a directive passes through, the queue without repetition; the
\* processor works on the directive that the receiving thread has in hand.
OnTheWay ==
    /\ NothingLostOnTheWay
    /\ loopPc = "calling" => loopDirective \in delivered /\ recvDirective = loopDirective
    /\ accepted \subseteq Elements(arrived)
    /\ Distinct(m_receivingQueue)

\* A step of the processor's own threads or of a client's call leaves the way alone.
LEMMA OnTheWayKept ==
    ASSUME SeqTypeOK, OnTheWay, loopPc' = loopPc \/ (loopPc = "sleeping" /\ loopPc' = "woken")
                       \/ (loopPc = "woken" /\ loopPc' \in {"sleeping", "exited"}),
           UNCHANGED <<recvDirective, delivered, loopDirective, m_receivingQueue, accepted, arrived>>
    PROVE  OnTheWay'
BY DEF SeqTypeOK, OnTheWay, NothingLostOnTheWay, Elements, Distinct

\* Every step keeps it.
LEMMA OnTheWayNext ==
    TypeOK /\ SeqTypeOK /\ OnTheWay /\ [SeqNext]_allVars => OnTheWay'
<1> SUFFICES ASSUME TypeOK, SeqTypeOK, OnTheWay, [SeqNext]_allVars PROVE OnTheWay'
  OBVIOUS
<1> USE DEF seqFlagVars, loopVars, downVars, seqHistVars, seqVars
<1>1. ASSUME NEW d \in Directives, seqOnDirective(d) PROVE OnTheWay'
  <2>1. /\ m_receivingQueue' = Append(m_receivingQueue, d)
        /\ arrived' = Append(arrived, d) /\ accepted' = accepted \cup {d}
        /\ d \notin Elements(arrived)
        /\ UNCHANGED <<loopDirective, delivered, recvDirective>>
    BY <1>1 DEF seqOnDirective, Pushed, vars, recvVars, histVars
  <2>2. loopPc' = loopPc \/ (loopPc = "sleeping" /\ loopPc' = "woken")
    BY <1>1 DEF seqOnDirective, NotifyLoop
  <2>3. /\ Elements(m_receivingQueue') = Elements(m_receivingQueue) \cup {d}
        /\ Elements(arrived') = Elements(arrived) \cup {d}
    BY <2>1, ElementsAppend DEF SeqTypeOK
  <2>4. d \notin accepted /\ d # NoDirective
    BY <2>1 DEF OnTheWay
  <2>5. d \notin Elements(m_receivingQueue) \cup {loopDirective} \cup delivered
    BY <2>4 DEF OnTheWay, NothingLostOnTheWay
  <2>6. Distinct(m_receivingQueue')
    <3>1. Len(m_receivingQueue') = Len(m_receivingQueue) + 1 /\ Len(m_receivingQueue) \in Nat
      BY <2>1 DEF SeqTypeOK
    <3>2. \A i \in 1..Len(m_receivingQueue) : /\ m_receivingQueue'[i] = m_receivingQueue[i]
                                              /\ m_receivingQueue[i] # d
      BY <2>1, <2>5 DEF SeqTypeOK, Elements
    <3>3. m_receivingQueue'[Len(m_receivingQueue) + 1] = d
      BY <2>1 DEF SeqTypeOK
    <3>4. \A k \in 1..Len(m_receivingQueue') :
             k \in 1..Len(m_receivingQueue) \/ k = Len(m_receivingQueue) + 1
      BY <3>1
    <3> QED BY <3>2, <3>3, <3>4 DEF OnTheWay, Distinct
  <2>7. NothingLostOnTheWay'
    BY <2>1, <2>2, <2>3, <2>4, <2>5 DEF OnTheWay, NothingLostOnTheWay
  <2> QED BY <2>1, <2>2, <2>3, <2>6, <2>7 DEF OnTheWay
<1>2. ASSUME NEW d \in Directives, seqOnDirectiveIgnored(d) PROVE OnTheWay'
  <2>1. /\ arrived' = Append(arrived, d)
        /\ UNCHANGED <<recvDirective, delivered, loopPc, loopDirective, m_receivingQueue, accepted>>
    BY <1>2 DEF seqOnDirectiveIgnored, vars, recvVars, histVars
  <2>2. Elements(arrived') = Elements(arrived) \cup {d}
    BY <2>1, ElementsAppend DEF SeqTypeOK
  <2> QED BY <2>1, <2>2 DEF OnTheWay, NothingLostOnTheWay, Distinct, Elements
<1>3. CASE LoopSleeps \/ LoopExits \/ LoopSpuriousWakeup
  BY <1>3, OnTheWayKept DEF LoopSleeps, LoopExits, LoopSpuriousWakeup, vars, recvVars, histVars
<1>4. CASE receiveDirectiveLocked
  <2> DEFINE q == m_receivingQueue
  <2>1. /\ q # <<>> /\ q \in Seq(Directives) /\ Distinct(q)
        /\ loopDirective' = Head(q) /\ m_receivingQueue' = Tail(q)
        /\ loopPc = "woken" /\ loopPc' = "received"
        /\ UNCHANGED <<delivered, accepted, arrived>>
    BY <1>4 DEF receiveDirectiveLocked, Popped, vars, histVars, SeqTypeOK, OnTheWay
  <2>2. /\ Head(q) \in Directives /\ Distinct(Tail(q))
        /\ Elements(q) = Elements(Tail(q)) \cup {Head(q)}
        /\ Head(q) \notin Elements(Tail(q))
    BY <2>1, ElementsTail
  <2>3. loopDirective = NoDirective
    BY <2>1 DEF SeqTypeOK
  <2>4. Elements(arrived)' = Elements(arrived) /\ Elements(q)' = Elements(Tail(q))
    BY <2>1 DEF Elements
  <2> HIDE DEF q
  <2>5. NothingLostOnTheWay'
    BY <2>1, <2>2, <2>3, <2>4 DEF OnTheWay, NothingLostOnTheWay, q
  <2> QED BY <2>1, <2>2, <2>4, <2>5 DEF OnTheWay, q
<1>5. CASE LoopCallsProcessor
  <2>1. /\ delivered' = delivered \cup {loopDirective} /\ recvDirective' = loopDirective
        /\ loopPc = "received" /\ loopPc' = "calling"
        /\ UNCHANGED <<m_receivingQueue, loopDirective, accepted, arrived>>
    BY <1>5 DEF LoopCallsProcessor, onDirectiveRefused, onDirectiveDropped, onDirective
  <2>2. loopDirective # NoDirective
    BY <2>1 DEF SeqTypeOK
  <2>3. Elements(m_receivingQueue)' = Elements(m_receivingQueue) /\ Elements(arrived)' = Elements(arrived)
        /\ Distinct(m_receivingQueue)' = Distinct(m_receivingQueue)
    BY <2>1 DEF Elements, Distinct
  <2> QED BY <2>1, <2>2, <2>3 DEF OnTheWay, NothingLostOnTheWay
<1>6. CASE LoopReturns
  <2>1. /\ loopPc = "calling" /\ loopPc' = "woken" /\ loopDirective' = NoDirective
        /\ UNCHANGED <<delivered, m_receivingQueue, accepted, arrived>>
    BY <1>6 DEF LoopReturns, onDirectiveReturn, histVars
  <2>2. NoDirective \notin Elements(m_receivingQueue)
    BY DEF SeqTypeOK, Elements
  <2>3. Elements(m_receivingQueue)' = Elements(m_receivingQueue) /\ Elements(arrived)' = Elements(arrived)
        /\ Distinct(m_receivingQueue)' = Distinct(m_receivingQueue)
    BY <2>1 DEF Elements, Distinct
  <2> QED BY <2>1, <2>2, <2>3 DEF OnTheWay, NothingLostOnTheWay
<1>7. ASSUME NEW id \in DialogIds \cup {NoId}, seqSetDialogRequestId(id) PROVE OnTheWay'
  BY <1>7, ClientsKeep, OnTheWayKept DEF seqSetDialogRequestId
<1>8. CASE seqDisable
  <2>1. UNCHANGED <<recvDirective, delivered>>
    BY <1>8, ClientsKeep DEF seqDisable, vars, recvVars, histVars
  <2> QED BY <1>8, <2>1, OnTheWayKept DEF seqDisable
<1>9. CASE seqDisableProcessor \/ seqEnable
  <2>1. UNCHANGED <<recvDirective, delivered>>
    BY <1>9, ClientsKeep DEF seqDisableProcessor, seqEnable
  <2> QED BY <1>9, <2>1, OnTheWayKept DEF seqDisableProcessor, seqEnable, NotifyLoop
<1>10. CASE doShutdown \/ doShutdownJoins \/ RouterDown
  BY <1>10, OnTheWayKept DEF doShutdown, doShutdownJoins, RouterDown, doShutdownRouter,
     doShutdownRouterRemoves, doShutdownReturns, seqAddDirectiveHandler,
     seqAddDirectiveHandlerReturns, NotifyLoop,
     vars, recvVars, histVars
<1>11. CASE doShutdownProcessor
  BY <1>11, ClientsKeep, OnTheWayKept DEF doShutdownProcessor
<1>12. CASE Within
  BY <1>12, ThreadsKeep, OnTheWayKept DEF Within, ProcessorThreads, TypeOK
<1>13. CASE UNCHANGED allVars
  BY <1>13, OnTheWayKept DEF allVars, vars, recvVars, histVars
<1> QED
  BY <1>1, <1>2, <1>3, <1>4, <1>5, <1>6, <1>7, <1>8, <1>9, <1>10, <1>11, <1>12, <1>13
  DEF SeqNext, ReceivingLoop, ShuttingDown, RouterDown

\* Nothing is on the way at first.
LEMMA OnTheWayInit == SeqInit => OnTheWay
<1> SUFFICES ASSUME SeqInit PROVE OnTheWay
  OBVIOUS
<1>1. m_receivingQueue = <<>> /\ arrived = <<>> /\ accepted = {} /\ delivered = {}
  BY DEF SeqInit, Init
<1>2. Elements(m_receivingQueue) = {} /\ Elements(arrived) = {} /\ Distinct(m_receivingQueue)
  BY <1>1 DEF Elements, Distinct
<1> QED BY <1>1, <1>2 DEF SeqInit, OnTheWay, NothingLostOnTheWay

\* The invariant holds for ever.
LEMMA OnTheWayAlways == SeqSpec => []OnTheWay
BY OnTheWayInit, OnTheWayNext, SeqTypeAlways, PTL DEF SeqSpec

\* Every directive that onDirective accepted is in m_receivingQueue, in the hands of
\* the receiving thread or with the processor, and never in two of them.
THEOREM WaySafety == SeqSpec => []NothingLostOnTheWay
<1>1. OnTheWay => NothingLostOnTheWay
  BY DEF OnTheWay
<1> QED BY <1>1, OnTheWayAlways, PTL

-----------------------------------------------------------------------------
(* The order of arrival *)

\* What the order of the tickets rests on: a directive arrives once; what has
\* reached the processor, what is in hand and what is queued arrived in this order.
InOrder ==
    /\ ArrivalOrder
    /\ \A d \in Directives : ticket[d] > 0 => d \in delivered
    /\ \A i, j \in 1..Len(arrived) : i < j =>
        /\ arrived[i] # arrived[j]
        /\ arrived[j] \in delivered \cup {loopDirective} =>
              arrived[i] \notin Elements(m_receivingQueue)
        /\ arrived[i] = loopDirective => arrived[j] \notin delivered
        /\ \A k, l \in 1..Len(m_receivingQueue) :
              m_receivingQueue[k] = arrived[j] /\ m_receivingQueue[l] = arrived[i] => l < k

\* Only onDirectiveQueued gives a ticket, to the directive that onDirective works on.
LEMMA TicketsGiven ==
    ASSUME PlaceTypes, ThreadTypes, [Next]_vars
    PROVE  \/ UNCHANGED ticket
           \/ /\ recvPc = "preHandling" /\ recvDirective \in Directives
              /\ ticket' = [ticket EXCEPT ![recvDirective] = pushes + 1]
              /\ UNCHANGED delivered
<1> USE DEF queueVars, flagVars, procVars, recvVars, pairVars, histVars
<1>1. CASE onDirectiveQueued
  BY <1>1 DEF onDirectiveQueued, ThreadTypes
<1>2. ASSUME NEW d \in Directives,
             onDirectiveRefused(d) \/ onDirectiveDropped(d) \/ onDirective(d) \/
             CancelDirective(d) \/ setCompleted(d) \/ setFailed(d) \/ ReportIgnored(d)
      PROVE  UNCHANGED ticket
  BY <1>2 DEF onDirectiveRefused, onDirectiveDropped, onDirective, CancelDirective,
     setCompleted, setFailed, ReportIgnored
<1>3. CASE RouterPreHandle \/ onDirectiveUnrouted \/ onDirectiveGone \/
           onDirectiveReturn \/ Relock \/ SpuriousWakeup \/ WaitForWork \/
           processCancelingQueueLocked \/ CancelingDone \/
           handleQueuedDirectivesLocked \/ HandleDirectiveSucceeded \/
           HandleDirectiveFailed \/ RoundDone \/ disable \/ enable \/
           shutdownUnregister \/ shutdownCancelAll \/ shutdownJoin
  BY <1>3 DEF RouterPreHandle, onDirectiveUnrouted, onDirectiveGone, onDirectiveReturn,
     Relock, SpuriousWakeup, WaitForWork, processCancelingQueueLocked, CancelingDone,
     handleQueuedDirectivesLocked, HandleDirectiveSucceeded, HandleDirectiveFailed,
     RoundDone, disable, enable, shutdownUnregister, shutdownCancelAll, shutdownJoin
<1>4. ASSUME NEW id \in DialogIds \cup {NoId}, setDialogRequestId(id) PROVE UNCHANGED ticket
  BY <1>4 DEF setDialogRequestId
<1>5. CASE UNCHANGED vars
  BY <1>5 DEF vars
<1> QED BY <1>1, <1>2, <1>3, <1>4, <1>5 DEF Next, Receiving, Processing, Reports, Shutdown

\* The sequencer's own variables stay, and the processor may give a ticket.
LEMMA InOrderKept ==
    ASSUME PlaceTypes, ThreadTypes, TicketsBounded, SeqTypeOK, OnTheWay, InOrder, [Next]_vars,
           UNCHANGED <<delivered, loopDirective, m_receivingQueue, arrived>>
    PROVE  InOrder'
<1>1. CASE UNCHANGED ticket
  BY <1>1 DEF InOrder, ArrivalOrder, Elements
<1>2. CASE /\ recvPc = "preHandling" /\ recvDirective \in Directives
           /\ ticket' = [ticket EXCEPT ![recvDirective] = pushes + 1]
  <2>1. recvDirective = loopDirective /\ loopDirective \in delivered
    BY <1>2 DEF SeqTypeOK, OnTheWay
  <2>2. \A d \in Directives : ticket'[d] = IF d = recvDirective THEN pushes + 1 ELSE ticket[d]
    BY <1>2 DEF PlaceTypes
  <2>3. \A d \in Directives : ticket[d] \in Nat /\ ticket[d] =< pushes /\ pushes \in Nat
    BY DEF PlaceTypes, TicketsBounded
  <2>4. ASSUME NEW i \in 1..Len(arrived), NEW j \in 1..Len(arrived), i < j,
               ticket'[arrived[i]] > 0, ticket'[arrived[j]] > 0
        PROVE  ticket'[arrived[i]] < ticket'[arrived[j]]
    <3>1. arrived[i] \in Directives /\ arrived[j] \in Directives
      BY DEF SeqTypeOK
    <3>2. arrived[i] # arrived[j] /\ (arrived[i] = loopDirective => arrived[j] \notin delivered)
      BY <2>4 DEF InOrder
    <3>3. CASE arrived[i] = recvDirective
      <4>1. ticket'[arrived[j]] = ticket[arrived[j]] /\ arrived[j] \notin delivered
        BY <2>1, <2>2, <3>1, <3>2, <3>3
      <4> QED BY <2>4, <3>1, <4>1 DEF InOrder
    <3>4. CASE arrived[j] = recvDirective
      BY <2>2, <2>3, <3>1, <3>2, <3>4
    <3>5. CASE arrived[i] # recvDirective /\ arrived[j] # recvDirective
      BY <2>2, <2>4, <3>1, <3>5 DEF InOrder, ArrivalOrder
    <3> QED BY <3>3, <3>4, <3>5
  <2>5. ArrivalOrder'
    BY <2>4 DEF ArrivalOrder
  <2>6. \A d \in Directives : ticket'[d] > 0 => d \in delivered'
    BY <2>1, <2>2 DEF InOrder
  <2> QED BY <2>5, <2>6 DEF InOrder, Elements
<1> QED BY <1>1, <1>2, TicketsGiven

\* Every step keeps the order.
LEMMA InOrderNext ==
    TypeOK /\ TicketsBounded /\ SeqTypeOK /\ OnTheWay /\ InOrder /\ [SeqNext]_allVars => InOrder'
<1> SUFFICES ASSUME TypeOK, TicketsBounded, SeqTypeOK, OnTheWay, InOrder, [SeqNext]_allVars,
                    PlaceTypes, ThreadTypes, [Next]_vars
             PROVE  InOrder'
  BY SeqStepIsProcessorStep DEF TypeOK
<1> USE DEF seqFlagVars, loopVars, downVars, seqHistVars, seqVars
<1> DEFINE q == m_receivingQueue
<1>1. ASSUME NEW d \in Directives, arrived' = Append(arrived, d), d \notin Elements(arrived),
             q' = q \/ q' = Append(q, d), UNCHANGED <<ticket, delivered, loopDirective>>
      PROVE  InOrder'
  <2>1. /\ Len(arrived') = Len(arrived) + 1 /\ Len(arrived) \in Nat
        /\ \A i \in 1..Len(arrived) : arrived'[i] = arrived[i] /\ arrived[i] # d
        /\ arrived'[Len(arrived) + 1] = d
    BY <1>1 DEF SeqTypeOK, Elements
  <2>2. \A i \in 1..Len(arrived') : i \in 1..Len(arrived) \/ i = Len(arrived) + 1
    BY <2>1
  <2>3. Len(q) \in Nat /\ \A k \in 1..Len(q) : q[k] \in Elements(q)
    BY DEF SeqTypeOK, Elements
  <2>4. /\ Elements(q) \subseteq Elements(q') /\ Elements(q') \subseteq Elements(q) \cup {d}
        /\ \A k \in 1..Len(q) : q'[k] = q[k]
        /\ \A k \in 1..Len(q') : k \in 1..Len(q) \/ (k = Len(q) + 1 /\ q'[k] = d)
    <3>1. CASE q' = q
      BY <3>1 DEF Elements
    <3>2. CASE q' = Append(q, d)
      <4>1. Elements(q') = Elements(q) \cup {d}
        BY <3>2, ElementsAppend DEF SeqTypeOK
      <4>2. Len(q') = Len(q) + 1 /\ (\A k \in 1..Len(q) : q'[k] = q[k]) /\ q'[Len(q) + 1] = d
        BY <3>2 DEF SeqTypeOK
      <4> QED BY <2>3, <4>1, <4>2
    <3> QED BY <1>1, <3>1, <3>2
  <2>5. d \notin Elements(q) \cup {loopDirective} \cup delivered
    <3>1. d \notin accepted /\ d # NoDirective
      BY <1>1 DEF OnTheWay
    <3> QED BY <3>1 DEF OnTheWay, NothingLostOnTheWay
  <2>6. ticket[d] = 0
    BY <2>5 DEF InOrder, PlaceTypes
  <2>7. ArrivalOrder'
    <3> SUFFICES ASSUME NEW i \in 1..Len(arrived'), NEW j \in 1..Len(arrived'), i < j,
                        ticket[arrived'[i]] > 0, ticket[arrived'[j]] > 0
                 PROVE  ticket[arrived'[i]] < ticket[arrived'[j]]
      BY <1>1 DEF ArrivalOrder
    <3>1. i \in 1..Len(arrived) /\ j \in 1..Len(arrived)
      BY <2>1, <2>2, <2>6
    <3> QED BY <2>1, <3>1 DEF InOrder, ArrivalOrder
  <2>8. ASSUME NEW i \in 1..Len(arrived'), NEW j \in 1..Len(arrived'), i < j
        PROVE  /\ arrived'[i] # arrived'[j]
               /\ arrived'[j] \in delivered \cup {loopDirective} => arrived'[i] \notin Elements(q')
               /\ arrived'[i] = loopDirective => arrived'[j] \notin delivered
               /\ \A k, l \in 1..Len(q') : q'[k] = arrived'[j] /\ q'[l] = arrived'[i] => l < k
    <3>1. i \in 1..Len(arrived) /\ arrived'[i] = arrived[i] /\ arrived[i] # d
      BY <2>1, <2>2, <2>8
    <3>2. CASE j = Len(arrived) + 1
      <4>1. arrived'[j] = d
        BY <2>1, <3>2
      <4>2. ASSUME NEW k \in 1..Len(q'), NEW l \in 1..Len(q'), q'[k] = d, q'[l] = arrived[i]
            PROVE  l < k
        <5>1. k = Len(q) + 1 /\ l \in 1..Len(q)
          BY <2>3, <2>4, <2>5, <3>1, <4>2
        <5> QED BY <2>3, <5>1
      <4> QED BY <2>5, <3>1, <4>1, <4>2
    <3>3. CASE j \in 1..Len(arrived)
      <4>1. arrived'[j] = arrived[j] /\ arrived[j] # d
        BY <2>1, <3>3
      <4>2. /\ arrived[i] # arrived[j]
            /\ arrived[j] \in delivered \cup {loopDirective} => arrived[i] \notin Elements(q)
            /\ arrived[i] = loopDirective => arrived[j] \notin delivered
            /\ \A k, l \in 1..Len(q) : q[k] = arrived[j] /\ q[l] = arrived[i] => l < k
        BY <2>8, <3>1, <3>3 DEF InOrder
      <4> QED BY <2>4, <3>1, <4>1, <4>2
    <3> QED BY <2>2, <3>2, <3>3
  <2> QED BY <1>1, <2>7, <2>8 DEF InOrder, ArrivalOrder
<1>2. ASSUME NEW d \in Directives, seqOnDirective(d) \/ seqOnDirectiveIgnored(d) PROVE InOrder'
  BY <1>1, <1>2 DEF seqOnDirective, seqOnDirectiveIgnored, Pushed, vars, pairVars, histVars
<1>3. CASE LoopSleeps \/ LoopExits \/ LoopSpuriousWakeup
  BY <1>3, InOrderKept DEF LoopSleeps, LoopExits, LoopSpuriousWakeup, vars, histVars
<1>4. CASE receiveDirectiveLocked
  <2>1. /\ q # <<>> /\ q \in Seq(Directives) /\ Distinct(q)
        /\ loopDirective' = Head(q) /\ q' = Tail(q)
        /\ UNCHANGED <<ticket, delivered, arrived>>
    BY <1>4 DEF receiveDirectiveLocked, Popped, vars, pairVars, histVars, SeqTypeOK, OnTheWay
  <2>2. /\ Head(q) \in Elements(q) /\ Elements(q') \subseteq Elements(q)
        /\ Head(q) \notin Elements(q')
        /\ Len(q') = Len(q) - 1
        /\ \A k \in 1..Len(q') : k + 1 \in 1..Len(q) /\ q'[k] = q[k + 1]
    BY <2>1, ElementsTail
  <2>3. Head(q) \notin delivered
    BY <2>2 DEF OnTheWay, NothingLostOnTheWay
  <2>4. Head(q) = q[1] /\ 1 \in 1..Len(q) /\ Len(q) \in Nat
    BY <2>1
  <2>5. ASSUME NEW i \in 1..Len(arrived), NEW j \in 1..Len(arrived), i < j
        PROVE  /\ arrived[i] # arrived[j]
               /\ arrived[j] \in delivered \cup {Head(q)} => arrived[i] \notin Elements(q')
               /\ arrived[i] = Head(q) => arrived[j] \notin delivered
               /\ \A k, l \in 1..Len(q') : q'[k] = arrived[j] /\ q'[l] = arrived[i] => l < k
    <3>1. /\ arrived[i] # arrived[j]
          /\ arrived[j] \in delivered \cup {loopDirective} => arrived[i] \notin Elements(q)
          /\ \A k, l \in 1..Len(q) : q[k] = arrived[j] /\ q[l] = arrived[i] => l < k
      BY <2>5 DEF InOrder
    <3>2. arrived[j] = Head(q) => arrived[i] \notin Elements(q')
      <4> SUFFICES ASSUME arrived[j] = q[1], NEW l \in 1..Len(q'), q'[l] = arrived[i]
                   PROVE  FALSE
        BY <2>4 DEF Elements
      <4>1. l + 1 \in 1..Len(q) /\ q[l + 1] = arrived[i]
        BY <2>2
      <4>2. l + 1 < 1
        BY <2>4, <3>1, <4>1
      <4> QED BY <4>2
    <3>3. arrived[j] \in delivered => arrived[i] \notin Elements(q')
      BY <2>2, <3>1
    <3>4. arrived[i] = Head(q) => arrived[j] \notin delivered
      BY <2>2, <3>1
    <3>5. ASSUME NEW k \in 1..Len(q'), NEW l \in 1..Len(q'),
                 q'[k] = arrived[j], q'[l] = arrived[i]
          PROVE  l < k
      <4>1. /\ k + 1 \in 1..Len(q) /\ l + 1 \in 1..Len(q)
            /\ q[k + 1] = arrived[j] /\ q[l + 1] = arrived[i]
        BY <2>2, <3>5
      <4>2. l + 1 < k + 1
        BY <3>1, <4>1
      <4> QED BY <2>4, <4>1, <4>2
    <3> QED BY <3>1, <3>2, <3>3, <3>4, <3>5
  <2> QED BY <2>1, <2>5 DEF InOrder, ArrivalOrder
<1>5. CASE LoopCallsProcessor
  <2>1. /\ delivered' = delivered \cup {loopDirective} /\ loopPc = "received"
        /\ UNCHANGED <<ticket, q, loopDirective, arrived>>
    BY <1>5 DEF LoopCallsProcessor, onDirectiveRefused, onDirectiveDropped, onDirective, pairVars
  <2> QED BY <2>1 DEF InOrder, ArrivalOrder, Elements
<1>6. CASE LoopReturns
  <2>1. /\ UNCHANGED <<ticket, delivered, q, arrived>>
        /\ loopDirective' = NoDirective
    BY <1>6 DEF LoopReturns, onDirectiveReturn, pairVars, histVars
  <2>2. \A i \in 1..Len(arrived) : arrived[i] # NoDirective
    BY DEF SeqTypeOK
  <2> QED BY <2>1, <2>2 DEF InOrder, ArrivalOrder, Elements
<1>7. ASSUME NEW id \in DialogIds \cup {NoId}, seqSetDialogRequestId(id) PROVE InOrder'
  BY <1>7, ClientsKeep, InOrderKept DEF seqSetDialogRequestId
<1>8. CASE seqDisable
  <2>1. UNCHANGED delivered
    BY <1>8, ClientsKeep DEF seqDisable, vars, histVars
  <2> QED BY <1>8, <2>1, InOrderKept DEF seqDisable
<1>9. CASE seqDisableProcessor \/ seqEnable
  <2>1. UNCHANGED delivered
    BY <1>9, ClientsKeep DEF seqDisableProcessor, seqEnable
  <2> QED BY <1>9, <2>1, InOrderKept DEF seqDisableProcessor, seqEnable
<1>10. CASE doShutdown \/ doShutdownJoins \/ RouterDown
  BY <1>10, InOrderKept DEF doShutdown, doShutdownJoins, RouterDown, doShutdownRouter,
     doShutdownRouterRemoves, doShutdownReturns, seqAddDirectiveHandler,
     seqAddDirectiveHandlerReturns, vars, histVars
<1>11. CASE doShutdownProcessor
  BY <1>11, ClientsKeep, InOrderKept DEF doShutdownProcessor
<1>12. CASE Within
  BY <1>12, ThreadsKeep, InOrderKept DEF Within, ProcessorThreads
<1>13. CASE UNCHANGED allVars
  BY <1>13, InOrderKept DEF allVars, vars, histVars
<1> QED
  BY <1>2, <1>3, <1>4, <1>5, <1>6, <1>7, <1>8, <1>9, <1>10, <1>11, <1>12, <1>13
  DEF SeqNext, ReceivingLoop, ShuttingDown, RouterDown

\* Directives get their tickets, and so their place among those to be handled, in the
\* order in which onDirective was called, whatever the receiving thread, the
\* processor's threads and the clients do in between.
THEOREM ArrivalSafety == SeqSpec => []ArrivalOrder
<1>1. SeqInit => InOrder /\ TicketsBounded
  <2> SUFFICES ASSUME SeqInit PROVE InOrder /\ TicketsBounded
    OBVIOUS
  <2>1. arrived = <<>> /\ pushes = 0 /\ ticket = [d \in Directives |-> 0]
    BY DEF SeqInit, Init
  <2>2. 1..Len(arrived) = {}
    BY <2>1
  <2> QED BY <2>1, <2>2 DEF InOrder, ArrivalOrder, TicketsBounded
<1>2. TypeOK /\ SeqTypeOK /\ TicketsBounded /\ [SeqNext]_allVars => TicketsBounded'
  BY SeqStepIsProcessorStep, TicketsBoundedNext DEF TypeOK
<1>3. InOrder => ArrivalOrder
  BY DEF InOrder
<1> QED BY <1>1, <1>2, <1>3, InOrderNext, OnTheWayAlways, SeqTypeAlways, PTL DEF SeqSpec

-----------------------------------------------------------------------------
(* ExceptionEncountered *)

\* The directives AVS was told about, and the one onDirective is about to reject.
TurnedDown == exceptions \cup {d \in {recvDirective} : recvPc = "returned" /\ ~recvResult}

\* They never get to m_handlingQueue, neither directly nor from the pre-handling; and
\* what is being pre-handled has not got there yet.
Refused ==
    /\ TurnedDown \subseteq delivered
    /\ TurnedDown \cap (handled \cup m_handlingQueue \cup {m_directiveBeingPreHandled}) = {}
    /\ recvPc \in {"routing", "preHandling"} =>
          recvDirective \in delivered \ (handled \cup m_handlingQueue)

\* Only the directive being pre-handled comes to m_handlingQueue, when onDirective
\* returns true, and only what is queued is handled.
LEMMA QueueFedBy ==
    ASSUME PlaceTypes, ThreadTypes, [Next]_vars,
           \A d \in Directives : ~onDirectiveRefused(d) /\ ~onDirectiveDropped(d) /\ ~onDirective(d),
           ~onDirectiveReturn
    PROVE  /\ UNCHANGED <<recvDirective, delivered>>
           /\ m_directiveBeingPreHandled' \in {m_directiveBeingPreHandled, NoDirective}
           /\ \/ /\ handled' \cup m_handlingQueue' \subseteq handled \cup m_handlingQueue
                 /\ recvPc' \in {"routing", "preHandling"} => recvPc \in {"routing", "preHandling"}
                 /\ recvPc' = "returned" /\ ~recvResult' =>
                      \/ recvPc = "returned" /\ ~recvResult
                      \/ recvPc = "routing" /\ m_directiveBeingPreHandled' = NoDirective
              \/ /\ m_directiveBeingPreHandled \in Directives
                 /\ handled' \cup m_handlingQueue' =
                      handled \cup m_handlingQueue \cup {m_directiveBeingPreHandled}
                 /\ recvPc' = "returned" /\ recvResult'
<1> USE DEF queueVars, flagVars, procVars, recvVars, pairVars, histVars
<1>1. CASE onDirectiveQueued
  BY <1>1 DEF onDirectiveQueued, ThreadTypes, PlaceTypes
<1>2. CASE RouterPreHandle \/ onDirectiveUnrouted \/ onDirectiveGone
  BY <1>2 DEF RouterPreHandle, onDirectiveUnrouted, onDirectiveGone
<1>3. CASE Relock \/ SpuriousWakeup \/ WaitForWork \/ processCancelingQueueLocked \/
           CancelingDone \/ HandleDirectiveSucceeded \/ RoundDone \/ enable \/
           shutdownUnregister \/ shutdownJoin
  BY <1>3 DEF Relock, SpuriousWakeup, WaitForWork, processCancelingQueueLocked, CancelingDone,
     HandleDirectiveSucceeded, RoundDone, enable, shutdownUnregister, shutdownJoin
<1>4. ASSUME NEW d \in Directives, CancelDirective(d) \/ setCompleted(d) \/ ReportIgnored(d)
      PROVE  /\ UNCHANGED <<recvVars, delivered>>
             /\ m_directiveBeingPreHandled' \in {m_directiveBeingPreHandled, NoDirective}
             /\ handled' \cup m_handlingQueue' \subseteq handled \cup m_handlingQueue
  BY <1>4 DEF CancelDirective, setCompleted, ReportIgnored
<1>5. ASSUME NEW d \in Directives, setFailed(d)
      PROVE  /\ UNCHANGED <<recvVars, delivered>>
             /\ m_directiveBeingPreHandled' \in {m_directiveBeingPreHandled, NoDirective}
             /\ handled' \cup m_handlingQueue' \subseteq handled \cup m_handlingQueue
  BY <1>5 DEF setFailed, scrubDialogRequestIdLocked
<1>6. CASE handleQueuedDirectivesLocked
  BY <1>6 DEF handleQueuedDirectivesLocked, getNextUnblockedDirectiveLocked
<1>7. CASE HandleDirectiveFailed
  BY <1>7 DEF HandleDirectiveFailed, scrubDialogRequestIdLocked
<1>8. ASSUME NEW id \in DialogIds \cup {NoId}, setDialogRequestId(id)
      PROVE  /\ UNCHANGED <<recvVars, delivered>>
             /\ m_directiveBeingPreHandled' \in {m_directiveBeingPreHandled, NoDirective}
             /\ handled' \cup m_handlingQueue' \subseteq handled \cup m_handlingQueue
  BY <1>8 DEF setDialogRequestId, scrubDialogRequestIdLocked
<1>9. CASE disable \/ shutdownCancelAll
  <2>1. UNCHANGED <<recvVars, delivered, handled>>
    BY <1>9 DEF disable, shutdownCancelAll
  <2>2. m_directiveBeingPreHandled' = NoDirective /\ m_handlingQueue' = {}
    BY <1>9 DEF disable, shutdownCancelAll, queueAllDirectivesForCancellationLocked
  <2> QED BY <2>1, <2>2
<1>10. CASE UNCHANGED vars
  BY <1>10 DEF vars
<1> QED
  BY <1>1, <1>2, <1>3, <1>4, <1>5, <1>6, <1>7, <1>8, <1>9, <1>10
  DEF Next, Receiving, Processing, Reports, Shutdown

\* A step inside the processor turns down only what it does not take.
LEMMA RefusedKept ==
    ASSUME PlaceTypes, ThreadTypes, Refused, [Next]_vars, exceptions' = exceptions,
           \A d \in Directives : ~onDirectiveRefused(d) /\ ~onDirectiveDropped(d) /\ ~onDirective(d),
           ~onDirectiveReturn
    PROVE  Refused'
<1>1. CASE /\ handled' \cup m_handlingQueue' \subseteq handled \cup m_handlingQueue
           /\ recvPc' \in {"routing", "preHandling"} => recvPc \in {"routing", "preHandling"}
           /\ recvPc' = "returned" /\ ~recvResult' =>
                \/ recvPc = "returned" /\ ~recvResult
                \/ recvPc = "routing" /\ m_directiveBeingPreHandled' = NoDirective
  <2>1. /\ UNCHANGED <<recvDirective, delivered>>
        /\ m_directiveBeingPreHandled' \in {m_directiveBeingPreHandled, NoDirective}
    BY QueueFedBy
  <2>2. TurnedDown' \subseteq TurnedDown \cup {d \in {recvDirective} : recvPc = "routing"
                                                 /\ m_directiveBeingPreHandled' = NoDirective}
    BY <1>1, <2>1 DEF TurnedDown
  <2>3. NoDirective \notin delivered
    BY DEF PlaceTypes
  <2> QED BY <1>1, <2>1, <2>2, <2>3 DEF Refused
<1>2. CASE /\ m_directiveBeingPreHandled \in Directives
           /\ handled' \cup m_handlingQueue' =
                handled \cup m_handlingQueue \cup {m_directiveBeingPreHandled}
           /\ recvPc' = "returned" /\ recvResult'
  <2>1. /\ UNCHANGED <<recvDirective, delivered>>
        /\ m_directiveBeingPreHandled' \in {m_directiveBeingPreHandled, NoDirective}
    BY QueueFedBy
  <2>2. TurnedDown' \subseteq TurnedDown
    BY <1>2 DEF TurnedDown
  <2>3. NoDirective \notin delivered
    BY DEF PlaceTypes
  <2> QED BY <1>2, <2>1, <2>2, <2>3 DEF Refused
<1> QED BY <1>1, <1>2, QueueFedBy

\* Every step keeps it.
LEMMA RefusedNext ==
    TypeOK /\ Received /\ SeqTypeOK /\ OnTheWay /\ Refused /\ [SeqNext]_allVars => Refused'
<1> SUFFICES ASSUME TypeOK, Received, SeqTypeOK, OnTheWay, Refused, [SeqNext]_allVars,
                    PlaceTypes, ThreadTypes, [Next]_vars
             PROVE  Refused'
  BY SeqStepIsProcessorStep DEF TypeOK
<1> USE DEF seqFlagVars, loopVars, downVars, seqHistVars, seqVars
<1>1. ASSUME UNCHANGED <<recvPc, delivered, exceptions>> PROVE Refused'
  <2>1. \A d \in Directives : ~onDirectiveRefused(d) /\ ~onDirectiveDropped(d) /\ ~onDirective(d)
    BY <1>1 DEF onDirectiveRefused, onDirectiveDropped, onDirective
  <2>2. ~onDirectiveReturn
    BY <1>1 DEF onDirectiveReturn
  <2> QED BY <1>1, <2>1, <2>2, RefusedKept
<1>2. CASE \E d \in Directives : seqOnDirective(d) \/ seqOnDirectiveIgnored(d)
  BY <1>1, <1>2 DEF seqOnDirective, seqOnDirectiveIgnored, vars, recvVars, histVars
<1>3. CASE LoopSleeps \/ LoopExits \/ receiveDirectiveLocked \/ LoopSpuriousWakeup
  BY <1>1, <1>3 DEF LoopSleeps, LoopExits, receiveDirectiveLocked, LoopSpuriousWakeup, vars,
     recvVars, histVars
<1>4. CASE LoopCallsProcessor
  <2> DEFINE d == loopDirective
  <2>1. /\ recvPc = "idle" /\ d \notin delivered /\ d \in Directives
        /\ delivered' = delivered \cup {d} /\ recvDirective' = d
        /\ UNCHANGED <<m_handlingQueue, handled, exceptions>>
    BY <1>4 DEF LoopCallsProcessor, onDirectiveRefused, onDirectiveDropped, onDirective,
       queueVars, histVars, SeqTypeOK
  <2>2. d \notin handled \cup m_handlingQueue \cup {m_directiveBeingPreHandled}
    BY <2>1 DEF Received, Wanted
  <2>3. exceptions \subseteq delivered
        /\ exceptions \cap (handled \cup m_handlingQueue \cup {m_directiveBeingPreHandled}) = {}
    BY DEF Refused, TurnedDown
  <2>4. CASE onDirectiveRefused(d) \/ onDirectiveDropped(d)
    <3>1. UNCHANGED m_directiveBeingPreHandled /\ recvPc' = "returned"
      BY <2>4 DEF onDirectiveRefused, onDirectiveDropped, queueVars
    <3>2. TurnedDown' \subseteq exceptions \cup {d}
      BY <2>1 DEF TurnedDown
    <3> QED BY <2>1, <2>2, <2>3, <3>1, <3>2 DEF Refused
  <2>5. CASE onDirective(d)
    <3>1. m_directiveBeingPreHandled' = d /\ recvPc' = "routing"
      BY <2>5 DEF onDirective
    <3>2. TurnedDown' = exceptions
      BY <2>1, <3>1 DEF TurnedDown
    <3> QED BY <2>1, <2>2, <2>3, <3>1, <3>2 DEF Refused
  <2> QED BY <1>4, <2>4, <2>5 DEF LoopCallsProcessor
<1>5. CASE LoopReturns
  <2>1. /\ recvPc = "returned" /\ recvPc' = "idle" /\ recvDirective = loopDirective
        /\ exceptions' = IF ~recvResult THEN exceptions \cup {loopDirective} ELSE exceptions
        /\ UNCHANGED <<delivered, handled, m_handlingQueue, m_directiveBeingPreHandled>>
    BY <1>5 DEF LoopReturns, Rejected, onDirectiveReturn, queueVars, histVars, OnTheWay
  <2>2. TurnedDown' = TurnedDown
    BY <2>1 DEF TurnedDown
  <2> QED BY <2>1, <2>2 DEF Refused
<1>6. ASSUME NEW id \in DialogIds \cup {NoId}, seqSetDialogRequestId(id) PROVE Refused'
  BY <1>1, <1>6, ClientsKeep DEF seqSetDialogRequestId
<1>7. CASE seqDisable
  <2>1. UNCHANGED <<recvPc, delivered>>
    BY <1>7, ClientsKeep DEF seqDisable, vars, recvVars, histVars
  <2> QED BY <1>1, <1>7, <2>1 DEF seqDisable
<1>8. CASE seqDisableProcessor \/ seqEnable
  <2>1. UNCHANGED <<recvPc, delivered>>
    BY <1>8, ClientsKeep DEF seqDisableProcessor, seqEnable
  <2> QED BY <1>1, <1>8, <2>1 DEF seqDisableProcessor, seqEnable
<1>9. CASE doShutdown \/ doShutdownJoins \/ RouterDown
  BY <1>1, <1>9 DEF doShutdown, doShutdownJoins, RouterDown, doShutdownRouter,
     doShutdownRouterRemoves, doShutdownReturns, seqAddDirectiveHandler,
     seqAddDirectiveHandlerReturns, vars, recvVars, histVars
<1>10. CASE doShutdownProcessor
  BY <1>1, <1>10, ClientsKeep DEF doShutdownProcessor
<1>11. CASE Within
  <2>1. /\ UNCHANGED <<delivered, exceptions>>
        /\ recvPc' = "idle" <=> recvPc = "idle"
    BY <1>11, ThreadsKeep DEF Within, ProcessorThreads
  <2>2. \A d \in Directives : ~onDirectiveRefused(d) /\ ~onDirectiveDropped(d) /\ ~onDirective(d)
    BY <2>1 DEF onDirectiveRefused, onDirectiveDropped, onDirective
  <2>3. ~onDirectiveReturn
    BY <2>1 DEF onDirectiveReturn
  <2> QED BY <2>1, <2>2, <2>3, RefusedKept
<1>12. CASE UNCHANGED allVars
  BY <1>1, <1>12 DEF allVars, vars, recvVars, histVars
<1> QED
  BY <1>2, <1>3, <1>4, <1>5, <1>6, <1>7, <1>8, <1>9, <1>10, <1>11, <1>12
  DEF SeqNext, ReceivingLoop, ShuttingDown, RouterDown

\* An ExceptionEncountered is sent only for directives that no handler was given to
\* handle and none ever will be: onDirective's result cannot be overtaken by the
\* processing thread, by a cancellation or by a handler's report.
THEOREM ExceptionSafety == SeqSpec => []ExceptionMeansUnhandled
<1>1. SeqInit => Refused /\ Received
  <2>1. SeqInit => Refused
    BY DEF SeqInit, Init, Refused, TurnedDown
  <2> QED BY <2>1, PlacesInit DEF SeqInit
<1>2. TypeOK /\ SeqTypeOK /\ Received /\ [SeqNext]_allVars => Received'
  BY SeqStepIsProcessorStep, ReceivedNext DEF TypeOK
<1>3. Refused => ExceptionMeansUnhandled
  BY DEF Refused, TurnedDown, ExceptionMeansUnhandled
<1> QED BY <1>1, <1>2, <1>3, RefusedNext, OnTheWayAlways, SeqTypeAlways, PTL DEF SeqSpec

=============================================================================
