----------------------- MODULE DirectiveProcessorProofs -----------------------
(***************************************************************************)
(* Proofs about DirectiveProcessor, for any set of directives, dialogs and *)
(* policies: types and places; what its threads do to each other (mediums  *)
(* are exclusive, blocking directives are not overtaken, no wake-up is     *)
(* lost, nothing is left behind at the end); and that it implements the    *)
(* life of a directive that DirectiveLifecycle states.                     *)
(***************************************************************************)
EXTENDS DirectiveProcessor, TLAPS

USE DirectivesAssumption, IdsAssumption, PoliciesAssumption

\* What a scrub moves is a set of directives.
LEMMA ScrubSetType ==
    ASSUME NEW id, NEW pre \in Directives \cup {NoDirective},
           NEW slots \in [Medium -> Directives \cup {NoDirective}],
           NEW queue, queue \subseteq Directives
    PROVE  ScrubSet(id, pre, slots, queue) \subseteq Directives
BY DEF ScrubSet, Occupants

\* Taking directives out of the slots leaves slots.
LEMMA WithoutType ==
    ASSUME NEW slots \in [Medium -> Directives \cup {NoDirective}], NEW S
    PROVE  Without(slots, S) \in [Medium -> Directives \cup {NoDirective}]
BY DEF Without

\* queueAllDirectivesForCancellationLocked empties the places of the processor.
AllQueued ==
    /\ m_dialogRequestId = NoId
    /\ m_directiveBeingPreHandled = NoDirective
    /\ m_directivesBeingHandled = [m \in Medium |-> NoDirective]
    /\ m_handlingQueue = {}
    /\ m_cancelingQueue \subseteq Directives

\* The directives it moves to m_cancelingQueue are directives.
LEMMA QueueAllType ==
    ASSUME PlaceTypes, queueAllDirectivesForCancellationLocked
    PROVE  AllQueued'
BY DEF queueAllDirectivesForCancellationLocked, AllQueued, Occupants, PlaceTypes

-----------------------------------------------------------------------------
(* Types *)

\* The flags stay Boolean.
LEMMA FlagTypesNext == FlagTypes /\ [Next]_vars => FlagTypes'
<1> SUFFICES ASSUME FlagTypes, [Next]_vars PROVE FlagTypes'
  OBVIOUS
<1> USE DEF queueVars, flagVars, procVars, recvVars, pairVars, histVars
<1>1. ASSUME NEW d \in Directives, onDirectiveRefused(d) \/
             onDirectiveDropped(d) \/ onDirective(d) \/ CancelDirective(d) \/
             setCompleted(d) \/ setFailed(d) \/ ReportIgnored(d)
      PROVE  FlagTypes'
  BY <1>1 DEF onDirectiveRefused, onDirectiveDropped, onDirective,
     CancelDirective, setCompleted, setFailed, ReportIgnored, FlagTypes
<1>2. CASE RouterPreHandle \/ onDirectiveUnrouted \/ onDirectiveGone \/
            onDirectiveQueued \/ onDirectiveReturn \/ Relock \/ SpuriousWakeup \/
            WaitForWork \/ processCancelingQueueLocked \/ CancelingDone \/
            handleQueuedDirectivesLocked \/ HandleDirectiveSucceeded \/
            HandleDirectiveFailed \/ RoundDone \/ disable \/ enable \/
            shutdownUnregister \/ shutdownCancelAll \/ shutdownJoin
  BY <1>2 DEF RouterPreHandle, onDirectiveUnrouted, onDirectiveGone,
     onDirectiveQueued, onDirectiveReturn, Relock, SpuriousWakeup, WaitForWork,
     processCancelingQueueLocked, CancelingDone, handleQueuedDirectivesLocked,
     HandleDirectiveSucceeded, HandleDirectiveFailed, RoundDone, disable, enable,
     shutdownUnregister, shutdownCancelAll, shutdownJoin, FlagTypes
<1>3. ASSUME NEW id \in DialogIds \cup {NoId}, setDialogRequestId(id) PROVE FlagTypes'
  BY <1>3 DEF setDialogRequestId, FlagTypes
<1>4. CASE UNCHANGED vars
  BY <1>4 DEF vars, FlagTypes
<1> QED
  BY <1>1, <1>2, <1>3, <1>4
  DEF Next, Receiving, Processing, Reports, Shutdown

\* Every place keeps holding directives.
LEMMA PlaceTypesNext ==
    PlaceTypes /\ ThreadTypes /\ [Next]_vars => PlaceTypes'
<1> SUFFICES ASSUME PlaceTypes, ThreadTypes, [Next]_vars PROVE PlaceTypes'
  OBVIOUS
<1> USE DEF queueVars, flagVars, procVars, recvVars, pairVars, histVars
<1>1. ASSUME NEW d \in Directives, onDirectiveRefused(d) \/
             onDirectiveDropped(d) \/ onDirective(d) \/ CancelDirective(d) \/
             ReportIgnored(d)
      PROVE  PlaceTypes'
  BY <1>1 DEF onDirectiveRefused, onDirectiveDropped, onDirective,
     CancelDirective, ReportIgnored, PlaceTypes
<1>2. CASE onDirectiveUnrouted \/ onDirectiveGone \/ onDirectiveReturn \/
            Relock \/ SpuriousWakeup \/ WaitForWork \/
            processCancelingQueueLocked \/ CancelingDone \/ RoundDone \/ enable \/
            shutdownUnregister \/ shutdownJoin
  BY <1>2 DEF onDirectiveUnrouted, onDirectiveGone, onDirectiveReturn, Relock,
     SpuriousWakeup, WaitForWork, processCancelingQueueLocked, CancelingDone,
     RoundDone, enable, shutdownUnregister, shutdownJoin, PlaceTypes
<1>3. CASE RouterPreHandle
  BY <1>3 DEF RouterPreHandle, PlaceTypes, ThreadTypes
<1>4. CASE onDirectiveQueued
  <2>1. recvDirective \in Directives
    BY <1>4 DEF onDirectiveQueued, ThreadTypes
  <2>2. pushes' \in Nat /\ ticket' \in [Directives -> Nat]
    BY <1>4, <2>1 DEF onDirectiveQueued, PlaceTypes
  <2> QED BY <1>4, <2>1, <2>2 DEF onDirectiveQueued, PlaceTypes
<1>5. CASE handleQueuedDirectivesLocked
  BY <1>5 DEF handleQueuedDirectivesLocked, getNextUnblockedDirectiveLocked, PlaceTypes
<1>6. CASE HandleDirectiveSucceeded
  BY <1>6 DEF HandleDirectiveSucceeded, SlotsAfterClear, PlaceTypes
<1>7. CASE HandleDirectiveFailed
  <2>1. SlotsAfterClear(current) \in [Medium -> Directives \cup {NoDirective}]
    BY DEF SlotsAfterClear, PlaceTypes
  <2> QED BY <1>7, <2>1, ScrubSetType, WithoutType
          DEF HandleDirectiveFailed, scrubDialogRequestIdLocked, IdAfterScrub,
              PlaceTypes
<1>8. ASSUME NEW d \in Directives, setCompleted(d) PROVE PlaceTypes'
  BY <1>8, WithoutType DEF setCompleted, PlaceTypes
<1>9. ASSUME NEW d \in Directives, setFailed(d) PROVE PlaceTypes'
  <2>1. Without(m_directivesBeingHandled, {d})
          \in [Medium -> Directives \cup {NoDirective}]
    BY WithoutType DEF PlaceTypes
  <2> QED BY <1>9, <2>1, ScrubSetType, WithoutType
          DEF setFailed, scrubDialogRequestIdLocked, IdAfterScrub, PlaceTypes
<1>10. ASSUME NEW id \in DialogIds \cup {NoId}, setDialogRequestId(id) PROVE PlaceTypes'
  BY <1>10, ScrubSetType, WithoutType
     DEF setDialogRequestId, scrubDialogRequestIdLocked, PlaceTypes
<1>11. CASE disable
  <2>1. AllQueued'
    BY <1>11, QueueAllType DEF disable
  <2> QED BY <1>11, <2>1 DEF disable, AllQueued, PlaceTypes
<1>12. CASE shutdownCancelAll
  <2>1. AllQueued'
    BY <1>12, QueueAllType DEF shutdownCancelAll
  <2> QED BY <1>12, <2>1 DEF shutdownCancelAll, AllQueued, PlaceTypes
<1>13. CASE UNCHANGED vars
  BY <1>13 DEF vars, PlaceTypes
<1> QED
  BY <1>1, <1>2, <1>3, <1>4, <1>5, <1>6, <1>7, <1>8, <1>9, <1>10, <1>11, <1>12,
     <1>13
  DEF Next, Receiving, Processing, Reports, Shutdown

\* The program counters and the directives the threads work on stay in step.
LEMMA ThreadTypesNext ==
    PlaceTypes /\ ThreadTypes /\ [Next]_vars => ThreadTypes'
<1> SUFFICES ASSUME PlaceTypes, ThreadTypes, [Next]_vars PROVE ThreadTypes'
  OBVIOUS
<1> USE DEF queueVars, flagVars, procVars, recvVars, pairVars, histVars
<1> USE DEF ProcPcs, RecvPcs
<1>1. ASSUME NEW d \in Directives, onDirectiveRefused(d) \/
             onDirectiveDropped(d) \/ onDirective(d) \/ CancelDirective(d) \/
             ReportIgnored(d)
      PROVE  ThreadTypes'
  BY <1>1 DEF onDirectiveRefused, onDirectiveDropped, onDirective,
     CancelDirective, ReportIgnored, ThreadTypes
<1>2. CASE RouterPreHandle \/ onDirectiveUnrouted \/ onDirectiveGone \/
            onDirectiveReturn \/ Relock \/ SpuriousWakeup \/ WaitForWork \/
            processCancelingQueueLocked \/ CancelingDone \/
            HandleDirectiveSucceeded \/ RoundDone \/ enable \/
            shutdownUnregister \/ shutdownJoin
  BY <1>2 DEF RouterPreHandle, onDirectiveUnrouted, onDirectiveGone,
     onDirectiveReturn, Relock, SpuriousWakeup, WaitForWork,
     processCancelingQueueLocked, CancelingDone, HandleDirectiveSucceeded,
     RoundDone, enable, shutdownUnregister, shutdownJoin, ThreadTypes
<1>3. CASE onDirectiveQueued
  BY <1>3 DEF onDirectiveQueued, Notify, ThreadTypes
<1>4. CASE handleQueuedDirectivesLocked
  BY <1>4 DEF handleQueuedDirectivesLocked, getNextUnblockedDirectiveLocked, PlaceTypes,
            ThreadTypes
<1>5. CASE HandleDirectiveFailed
  BY <1>5 DEF HandleDirectiveFailed, scrubDialogRequestIdLocked, ThreadTypes
<1>6. ASSUME NEW d \in Directives, setCompleted(d) PROVE ThreadTypes'
  BY <1>6 DEF setCompleted, Notify, ThreadTypes
<1>7. ASSUME NEW d \in Directives, setFailed(d) PROVE ThreadTypes'
  BY <1>7 DEF setFailed, scrubDialogRequestIdLocked, Notify, ThreadTypes
<1>8. ASSUME NEW id \in DialogIds \cup {NoId}, setDialogRequestId(id) PROVE ThreadTypes'
  BY <1>8 DEF setDialogRequestId, scrubDialogRequestIdLocked, Notify, ThreadTypes
<1>9. CASE disable
  BY <1>9 DEF disable, queueAllDirectivesForCancellationLocked, Notify, ThreadTypes
<1>10. CASE shutdownCancelAll
  BY <1>10 DEF shutdownCancelAll, queueAllDirectivesForCancellationLocked, Notify,
            ThreadTypes
<1>11. CASE UNCHANGED vars
  BY <1>11 DEF vars, ThreadTypes
<1> QED
  BY <1>1, <1>2, <1>3, <1>4, <1>5, <1>6, <1>7, <1>8, <1>9, <1>10, <1>11
  DEF Next, Receiving, Processing, Reports, Shutdown

\* The initial state is well typed.
LEMMA TypeInit == Init => TypeOK
<1> SUFFICES ASSUME Init PROVE TypeOK
  OBVIOUS
<1>1. FlagTypes
  BY DEF Init, FlagTypes
<1>2. policy \in [Directives -> Policy]
  BY DEF Init, DefaultPolicy, Policy
<1>3. PlaceTypes
  BY <1>2 DEF Init, PlaceTypes
<1>4. ThreadTypes
  BY DEF Init, ThreadTypes, ProcPcs, RecvPcs
<1> QED BY <1>1, <1>3, <1>4 DEF TypeOK

\* The processor's state is always well typed (DirectiveProcessor.h's members and
\* the progress of its threads).
THEOREM TypeCorrect == Spec => []TypeOK
<1>1. TypeOK /\ [Next]_vars => TypeOK'
  BY FlagTypesNext, PlaceTypesNext, ThreadTypesNext DEF TypeOK
<1> QED BY <1>1, TypeInit, PTL DEF Spec

-----------------------------------------------------------------------------
(* Dialogs *)

\* Clearing slots empties them of exactly the directives cleared.
LEMMA OccupantsWithout ==
    ASSUME NEW slots \in [Medium -> Directives \cup {NoDirective}], NEW S
    PROVE  Occupants(Without(slots, S)) = Occupants(slots) \ S
BY DEF Occupants, Without

\* clearDirectiveBeingHandledLocked(policy) adds nobody.
LEMMA OccupantsAfterClear ==
    ASSUME PlaceTypes, NEW d
    PROVE  /\ SlotsAfterClear(d) \in [Medium -> Directives \cup {NoDirective}]
           /\ Occupants(SlotsAfterClear(d)) \subseteq Occupants(m_directivesBeingHandled)
BY DEF SlotsAfterClear, Occupants, PlaceTypes

\* Every step leaves only directives of the current dialog, or of none.
LEMMA CurrentDialogOnlyNext ==
    PlaceTypes /\ ThreadTypes /\ CurrentDialogOnly /\ [Next]_vars => CurrentDialogOnly'
<1> SUFFICES ASSUME PlaceTypes, ThreadTypes, CurrentDialogOnly, [Next]_vars PROVE CurrentDialogOnly'
  OBVIOUS
<1> USE DEF queueVars, flagVars, procVars, recvVars, pairVars, histVars
<1>1. ASSUME NEW d \in Directives, onDirectiveRefused(d) \/
             onDirectiveDropped(d) \/ onDirective(d) \/ CancelDirective(d) \/
             ReportIgnored(d)
      PROVE  CurrentDialogOnly'
  BY <1>1 DEF onDirectiveRefused, onDirectiveDropped, onDirective,
     CancelDirective, ReportIgnored, CurrentDialogOnly, Wanted
<1>2. CASE RouterPreHandle \/ onDirectiveUnrouted \/ onDirectiveGone \/
            onDirectiveReturn \/ Relock \/ SpuriousWakeup \/ WaitForWork \/
            processCancelingQueueLocked \/ CancelingDone \/ RoundDone \/ enable \/
            shutdownUnregister \/ shutdownJoin
  BY <1>2 DEF RouterPreHandle, onDirectiveUnrouted, onDirectiveGone,
     onDirectiveReturn, Relock, SpuriousWakeup, WaitForWork,
     processCancelingQueueLocked, CancelingDone, RoundDone, enable,
     shutdownUnregister, shutdownJoin, CurrentDialogOnly, Wanted
<1>3. CASE onDirectiveQueued
  BY <1>3 DEF onDirectiveQueued, CurrentDialogOnly, Wanted, ThreadTypes
<1>4. CASE handleQueuedDirectivesLocked
  BY <1>4 DEF handleQueuedDirectivesLocked, getNextUnblockedDirectiveLocked,
            CurrentDialogOnly, Wanted, Occupants
<1>5. CASE HandleDirectiveSucceeded
  BY <1>5, OccupantsAfterClear DEF HandleDirectiveSucceeded, CurrentDialogOnly, Wanted
<1>6. CASE HandleDirectiveFailed
  <2> DEFINE slots == SlotsAfterClear(current)
             S == ScrubSet(IdOf[current], m_directiveBeingPreHandled, slots,
                           m_handlingQueue)
  <2>1. /\ slots \in [Medium -> Directives \cup {NoDirective}]
        /\ Occupants(slots) \subseteq Occupants(m_directivesBeingHandled)
    BY OccupantsAfterClear
  <2>2. Occupants(Without(slots, S)) = Occupants(slots) \ S
    BY <2>1, OccupantsWithout
  <2>3. Wanted' \subseteq Wanted \ S
    BY <1>6, <2>1, <2>2 DEF HandleDirectiveFailed, scrubDialogRequestIdLocked, Wanted
  <2>4. \A d \in Wanted' : d \notin S /\ d \in {m_directiveBeingPreHandled}
                            \cup Occupants(slots) \cup m_handlingQueue
    BY <1>6, <2>2, <2>3 DEF HandleDirectiveFailed, scrubDialogRequestIdLocked, Wanted
  <2> QED BY <1>6, <2>3, <2>4 DEF HandleDirectiveFailed, IdAfterScrub, ScrubSet,
                                CurrentDialogOnly, Wanted
<1>7. ASSUME NEW d \in Directives, setCompleted(d) PROVE CurrentDialogOnly'
  BY <1>7, OccupantsWithout DEF setCompleted, CurrentDialogOnly, Wanted, PlaceTypes
<1>8. ASSUME NEW d \in Directives, setFailed(d) PROVE CurrentDialogOnly'
  <2> DEFINE pre   == IF m_directiveBeingPreHandled = d THEN NoDirective
                      ELSE m_directiveBeingPreHandled
             slots == Without(m_directivesBeingHandled, {d})
             queue == m_handlingQueue \ {d}
             S     == ScrubSet(IdOf[d], pre, slots, queue)
  <2>1. /\ slots \in [Medium -> Directives \cup {NoDirective}]
        /\ Occupants(slots) = Occupants(m_directivesBeingHandled) \ {d}
    BY WithoutType, OccupantsWithout DEF PlaceTypes
  <2>2. Occupants(Without(slots, S)) = Occupants(slots) \ S
    BY <2>1, OccupantsWithout
  <2>3. Wanted' \subseteq Wanted \ S
    BY <1>8, <2>1, <2>2 DEF setFailed, scrubDialogRequestIdLocked, Wanted
  <2>4. \A e \in Wanted' : e \in {pre} \cup Occupants(slots) \cup queue
    BY <1>8, <2>2 DEF setFailed, scrubDialogRequestIdLocked, Wanted
  <2> QED BY <1>8, <2>3, <2>4 DEF setFailed, IdAfterScrub, ScrubSet,
                                CurrentDialogOnly, Wanted
<1>9. ASSUME NEW id \in DialogIds \cup {NoId}, setDialogRequestId(id) PROVE CurrentDialogOnly'
  <2> DEFINE S == ScrubSet(m_dialogRequestId, m_directiveBeingPreHandled,
                           m_directivesBeingHandled, m_handlingQueue)
  <2>1. Occupants(Without(m_directivesBeingHandled, S))
          = Occupants(m_directivesBeingHandled) \ S
    BY OccupantsWithout DEF PlaceTypes
  <2>2. Wanted' = Wanted \ S
    BY <1>9, <2>1 DEF setDialogRequestId, scrubDialogRequestIdLocked, Wanted
  <2>3. \A d \in Wanted \ S : IdOf[d] = NoId
    BY DEF ScrubSet, CurrentDialogOnly, Wanted
  <2> QED BY <1>9, <2>2, <2>3 DEF setDialogRequestId, CurrentDialogOnly
<1>10. CASE disable
  BY <1>10 DEF disable, queueAllDirectivesForCancellationLocked, CurrentDialogOnly,
            Wanted, Occupants
<1>11. CASE shutdownCancelAll
  BY <1>11 DEF shutdownCancelAll, queueAllDirectivesForCancellationLocked,
            CurrentDialogOnly, Wanted, Occupants
<1>12. CASE UNCHANGED vars
  BY <1>12 DEF vars, CurrentDialogOnly, Wanted
<1> QED
  BY <1>1, <1>2, <1>3, <1>4, <1>5, <1>6, <1>7, <1>8, <1>9, <1>10, <1>11, <1>12
  DEF Next, Receiving, Processing, Reports, Shutdown

\* No directive of a finished dialog is ever waiting to be handled or occupies a
\* medium: onDirective's check is not undone by any later change of
\* m_dialogRequestId, whichever thread makes it.
THEOREM DialogSafety == Spec => []CurrentDialogOnly
<1>1. Init => CurrentDialogOnly
  BY DEF Init, CurrentDialogOnly, Wanted, Occupants
<1>2. TypeOK /\ CurrentDialogOnly /\ [Next]_vars => CurrentDialogOnly'
  BY CurrentDialogOnlyNext DEF TypeOK
<1> QED BY <1>1, <1>2, TypeCorrect, PTL DEF Spec

-----------------------------------------------------------------------------
(* Places *)

\* Every step only moves directives that were received.
LEMMA ReceivedNext ==
    PlaceTypes /\ ThreadTypes /\ Received /\ [Next]_vars => Received'
<1> SUFFICES ASSUME PlaceTypes, ThreadTypes, Received, [Next]_vars PROVE Received'
  OBVIOUS
<1> USE DEF queueVars, flagVars, procVars, recvVars, pairVars, histVars
<1>1. ASSUME NEW d \in Directives, onDirectiveRefused(d) \/
             onDirectiveDropped(d) \/ onDirective(d) \/ CancelDirective(d) \/
             ReportIgnored(d)
      PROVE  Received'
  BY <1>1 DEF onDirectiveRefused, onDirectiveDropped, onDirective,
     CancelDirective, ReportIgnored, Received, Wanted, Doomed
<1>2. CASE RouterPreHandle \/ onDirectiveUnrouted \/ onDirectiveGone \/
            onDirectiveReturn \/ Relock \/ SpuriousWakeup \/ WaitForWork \/
            processCancelingQueueLocked \/ CancelingDone \/ RoundDone \/ enable \/
            shutdownUnregister \/ shutdownJoin
  BY <1>2 DEF RouterPreHandle, onDirectiveUnrouted, onDirectiveGone,
     onDirectiveReturn, Relock, SpuriousWakeup, WaitForWork,
     processCancelingQueueLocked, CancelingDone, RoundDone, enable,
     shutdownUnregister, shutdownJoin, Received, Wanted, Doomed
<1>3. CASE onDirectiveQueued
  BY <1>3 DEF onDirectiveQueued, ThreadTypes, Received, Wanted, Doomed
<1>4. CASE handleQueuedDirectivesLocked
  <2>1. PICK d \in m_handlingQueue :
          /\ m_directivesBeingHandled' = [m \in Medium |->
               IF m \in Mediums(d) THEN d ELSE m_directivesBeingHandled[m]]
          /\ m_handlingQueue' = m_handlingQueue \ {d}
          /\ handled' = handled \cup {d}
          /\ engaged' = engaged \cup {d}
    BY <1>4 DEF handleQueuedDirectivesLocked, getNextUnblockedDirectiveLocked
  <2>2. d \in Wanted
    BY DEF PlaceTypes, Wanted
  <2>3. Occupants(m_directivesBeingHandled')
          \subseteq Occupants(m_directivesBeingHandled) \cup {d}
    BY <2>1 DEF Occupants
  <2>4. Wanted' \subseteq Wanted
    BY <1>4, <2>1, <2>2, <2>3 DEF handleQueuedDirectivesLocked, Wanted
  <2> QED BY <1>4, <2>1, <2>2, <2>4 DEF handleQueuedDirectivesLocked, Received, Doomed
<1>5. CASE HandleDirectiveSucceeded
  BY <1>5, OccupantsAfterClear DEF HandleDirectiveSucceeded, Received, Wanted, Doomed
<1>6. CASE HandleDirectiveFailed
  <2> DEFINE slots == SlotsAfterClear(current)
             S == ScrubSet(IdOf[current], m_directiveBeingPreHandled, slots,
                           m_handlingQueue)
  <2>1. /\ slots \in [Medium -> Directives \cup {NoDirective}]
        /\ Occupants(slots) \subseteq Occupants(m_directivesBeingHandled)
    BY OccupantsAfterClear
  <2>2. Occupants(Without(slots, S)) = Occupants(slots) \ S
    BY <2>1, OccupantsWithout
  <2>3. S \subseteq Wanted
    BY <2>1 DEF ScrubSet, Wanted
  <2> QED BY <1>6, <2>1, <2>2, <2>3
          DEF HandleDirectiveFailed, scrubDialogRequestIdLocked, Received, Wanted, Doomed
<1>7. ASSUME NEW d \in Directives, setCompleted(d) PROVE Received'
  BY <1>7, OccupantsWithout DEF setCompleted, PlaceTypes, Received, Wanted, Doomed
<1>8. ASSUME NEW d \in Directives, setFailed(d) PROVE Received'
  <2> DEFINE pre   == IF m_directiveBeingPreHandled = d THEN NoDirective
                      ELSE m_directiveBeingPreHandled
             slots == Without(m_directivesBeingHandled, {d})
             queue == m_handlingQueue \ {d}
             S     == ScrubSet(IdOf[d], pre, slots, queue)
  <2>1. /\ slots \in [Medium -> Directives \cup {NoDirective}]
        /\ Occupants(slots) = Occupants(m_directivesBeingHandled) \ {d}
    BY WithoutType, OccupantsWithout DEF PlaceTypes
  <2>2. Occupants(Without(slots, S)) = Occupants(slots) \ S
    BY <2>1, OccupantsWithout
  <2>3. S \subseteq Wanted
    BY <2>1 DEF ScrubSet, Wanted
  <2>4. scrubDialogRequestIdLocked(IdOf[d], pre, slots, queue, m_cancelingQueue \ {d})
    BY <1>8 DEF setFailed
  <2>5. Wanted' \subseteq Wanted
    BY <2>1, <2>2, <2>4 DEF scrubDialogRequestIdLocked, Wanted
  <2>6. Doomed' \subseteq Doomed \cup Wanted
    BY <1>8, <2>3, <2>4 DEF setFailed, scrubDialogRequestIdLocked, Doomed
  <2> QED BY <1>8, <2>5, <2>6 DEF setFailed, Received
<1>9. ASSUME NEW id \in DialogIds \cup {NoId}, setDialogRequestId(id) PROVE Received'
  <2> DEFINE S == ScrubSet(m_dialogRequestId, m_directiveBeingPreHandled,
                           m_directivesBeingHandled, m_handlingQueue)
  <2>1. Occupants(Without(m_directivesBeingHandled, S))
          = Occupants(m_directivesBeingHandled) \ S
    BY OccupantsWithout DEF PlaceTypes
  <2>3. S \subseteq Wanted
    BY DEF ScrubSet, Wanted
  <2> QED BY <1>9, <2>1, <2>3
          DEF setDialogRequestId, scrubDialogRequestIdLocked, Received, Wanted, Doomed
<1>10. CASE disable
  <2>1. queueAllDirectivesForCancellationLocked
    BY <1>10 DEF disable
  <2>2. Occupants(m_directivesBeingHandled') = {}
    BY <2>1 DEF queueAllDirectivesForCancellationLocked, Occupants
  <2>3. Wanted' = {}
    BY <2>1, <2>2 DEF queueAllDirectivesForCancellationLocked, Wanted
  <2>4. Doomed' \subseteq Doomed \cup Wanted
    BY <1>10, <2>1 DEF disable, queueAllDirectivesForCancellationLocked, PlaceTypes,
       Doomed, Wanted, Occupants
  <2> QED BY <1>10, <2>3, <2>4 DEF disable, Received
<1>11. CASE shutdownCancelAll
  <2>1. queueAllDirectivesForCancellationLocked
    BY <1>11 DEF shutdownCancelAll
  <2>2. Occupants(m_directivesBeingHandled') = {}
    BY <2>1 DEF queueAllDirectivesForCancellationLocked, Occupants
  <2>3. Wanted' = {}
    BY <2>1, <2>2 DEF queueAllDirectivesForCancellationLocked, Wanted
  <2>4. Doomed' \subseteq Doomed \cup Wanted
    BY <1>11, <2>1 DEF shutdownCancelAll, queueAllDirectivesForCancellationLocked, PlaceTypes,
       Doomed, Wanted, Occupants
  <2> QED BY <1>11, <2>3, <2>4 DEF shutdownCancelAll, Received
<1>12. CASE UNCHANGED vars
  BY <1>12 DEF vars, Received, Wanted, Doomed
<1> QED
  BY <1>1, <1>2, <1>3, <1>4, <1>5, <1>6, <1>7, <1>8, <1>9, <1>10, <1>11, <1>12
  DEF Next, Receiving, Processing, Reports, Shutdown

\* Every step keeps every directive in one place.
LEMMA OnePlaceNext ==
    PlaceTypes /\ ThreadTypes /\ Received /\ OnePlace /\ [Next]_vars => OnePlace'
<1> SUFFICES ASSUME PlaceTypes, ThreadTypes, Received, OnePlace, [Next]_vars PROVE OnePlace'
  OBVIOUS
<1> USE DEF queueVars, flagVars, procVars, recvVars, pairVars, histVars
<1>1. ASSUME NEW d \in Directives, onDirectiveRefused(d) \/
             onDirectiveDropped(d) \/ CancelDirective(d) \/ ReportIgnored(d)
      PROVE  OnePlace'
  BY <1>1 DEF onDirectiveRefused, onDirectiveDropped, CancelDirective,
     ReportIgnored, OnePlace, Wanted, Doomed
<1>2. CASE RouterPreHandle \/ onDirectiveGone \/ onDirectiveReturn \/ Relock \/
            SpuriousWakeup \/ WaitForWork \/ processCancelingQueueLocked \/
            CancelingDone \/ RoundDone \/ enable \/ shutdownUnregister \/
            shutdownJoin
  BY <1>2 DEF RouterPreHandle, onDirectiveGone, onDirectiveReturn, Relock,
     SpuriousWakeup, WaitForWork, processCancelingQueueLocked, CancelingDone,
     RoundDone, enable, shutdownUnregister, shutdownJoin, OnePlace, Wanted, Doomed
<1>3. ASSUME NEW d \in Directives, onDirective(d) PROVE OnePlace'
  BY <1>3 DEF onDirective, Received, PlaceTypes, OnePlace, Wanted, Doomed
<1>4. CASE onDirectiveUnrouted
  BY <1>4 DEF onDirectiveUnrouted, PlaceTypes, OnePlace, Wanted, Doomed
<1>5. CASE onDirectiveQueued
  BY <1>5 DEF onDirectiveQueued, ThreadTypes, PlaceTypes, OnePlace, Wanted, Doomed
<1>6. CASE handleQueuedDirectivesLocked
  BY <1>6 DEF handleQueuedDirectivesLocked, getNextUnblockedDirectiveLocked, Occupants,
            PlaceTypes, OnePlace, Wanted, Doomed
<1>7. CASE HandleDirectiveSucceeded
  BY <1>7, OccupantsAfterClear DEF HandleDirectiveSucceeded, OnePlace, Wanted, Doomed
<1>8. CASE HandleDirectiveFailed
  <2> DEFINE slots == SlotsAfterClear(current)
             S == ScrubSet(IdOf[current], m_directiveBeingPreHandled, slots,
                           m_handlingQueue)
  <2>1. /\ slots \in [Medium -> Directives \cup {NoDirective}]
        /\ Occupants(slots) \subseteq Occupants(m_directivesBeingHandled)
    BY OccupantsAfterClear
  <2>2. Occupants(Without(slots, S)) = Occupants(slots) \ S
    BY <2>1, OccupantsWithout
  <2>3. S \subseteq Wanted
    BY <2>1 DEF ScrubSet, Wanted
  <2> QED BY <1>8, <2>1, <2>2, <2>3
          DEF HandleDirectiveFailed, scrubDialogRequestIdLocked, PlaceTypes, OnePlace, Wanted, Doomed
<1>9. ASSUME NEW d \in Directives, setCompleted(d) PROVE OnePlace'
  BY <1>9, OccupantsWithout DEF setCompleted, PlaceTypes, OnePlace, Wanted, Doomed
<1>10. ASSUME NEW d \in Directives, setFailed(d) PROVE OnePlace'
  <2> DEFINE pre   == IF m_directiveBeingPreHandled = d THEN NoDirective
                      ELSE m_directiveBeingPreHandled
             slots == Without(m_directivesBeingHandled, {d})
             queue == m_handlingQueue \ {d}
             S     == ScrubSet(IdOf[d], pre, slots, queue)
  <2>1. /\ slots \in [Medium -> Directives \cup {NoDirective}]
        /\ Occupants(slots) = Occupants(m_directivesBeingHandled) \ {d}
    BY WithoutType, OccupantsWithout DEF PlaceTypes
  <2>2. Occupants(Without(slots, S)) = Occupants(slots) \ S
    BY <2>1, OccupantsWithout
  <2>3. S \subseteq Wanted
    BY <2>1 DEF ScrubSet, Wanted
  <2>4. scrubDialogRequestIdLocked(IdOf[d], pre, slots, queue, m_cancelingQueue \ {d})
    BY <1>10 DEF setFailed
  <2>5. Wanted' \subseteq Wanted \ S
    BY <2>1, <2>2, <2>4 DEF scrubDialogRequestIdLocked, Wanted
  <2>6. Doomed' \subseteq Doomed \cup S
    BY <1>10, <2>4 DEF setFailed, scrubDialogRequestIdLocked, Doomed
  <2>7. /\ m_cancelingQueue' \subseteq m_cancelingQueue \cup S
        /\ m_handlingQueue' \subseteq m_handlingQueue
        /\ m_directiveBeingPreHandled' \in {m_directiveBeingPreHandled, NoDirective}
        /\ Occupants(m_directivesBeingHandled') \subseteq Occupants(m_directivesBeingHandled)
    BY <2>1, <2>2, <2>4 DEF scrubDialogRequestIdLocked
  <2>8. batch' = batch /\ handled' = handled /\ cancelled' = cancelled
    BY <1>10 DEF setFailed
  <2> QED BY <2>3, <2>5, <2>6, <2>7, <2>8 DEF PlaceTypes, OnePlace, Doomed
<1>11. ASSUME NEW id \in DialogIds \cup {NoId}, setDialogRequestId(id) PROVE OnePlace'
  <2> DEFINE S == ScrubSet(m_dialogRequestId, m_directiveBeingPreHandled,
                           m_directivesBeingHandled, m_handlingQueue)
  <2>1. Occupants(Without(m_directivesBeingHandled, S))
          = Occupants(m_directivesBeingHandled) \ S
    BY OccupantsWithout DEF PlaceTypes
  <2>3. S \subseteq Wanted
    BY DEF ScrubSet, Wanted
  <2> QED BY <1>11, <2>1, <2>3
          DEF setDialogRequestId, scrubDialogRequestIdLocked, PlaceTypes, OnePlace, Wanted, Doomed
<1>12. CASE disable
  <2>1. queueAllDirectivesForCancellationLocked
    BY <1>12 DEF disable
  <2>2. Occupants(m_directivesBeingHandled') = {}
    BY <2>1 DEF queueAllDirectivesForCancellationLocked, Occupants
  <2> QED BY <1>12, <2>1, <2>2 DEF disable, queueAllDirectivesForCancellationLocked,
                                PlaceTypes, OnePlace, Wanted, Doomed
<1>13. CASE shutdownCancelAll
  <2>1. queueAllDirectivesForCancellationLocked
    BY <1>13 DEF shutdownCancelAll
  <2>2. Occupants(m_directivesBeingHandled') = {}
    BY <2>1 DEF queueAllDirectivesForCancellationLocked, Occupants
  <2> QED BY <1>13, <2>1, <2>2 DEF shutdownCancelAll, queueAllDirectivesForCancellationLocked,
                                PlaceTypes, OnePlace, Wanted, Doomed
<1>14. CASE UNCHANGED vars
  BY <1>14 DEF vars, OnePlace, Wanted, Doomed
<1> QED
  BY <1>1, <1>2, <1>3, <1>4, <1>5, <1>6, <1>7, <1>8, <1>9, <1>10, <1>11, <1>12,
     <1>13, <1>14
  DEF Next, Receiving, Processing, Reports, Shutdown

\* Nothing has been received before the first step.
LEMMA PlacesInit == Init => Received /\ OnePlace
BY DEF Init, Received, OnePlace, Wanted, Doomed, Occupants

\* A directive is handled at most once, cancelled at most once, and never handled
\* after its cancellation was queued, whatever its handler's reports, the
\* cancellations and the processing thread do to each other.
THEOREM PlaceSafety == Spec => []OnePlace
<1>1. TypeOK /\ Received /\ OnePlace /\ [Next]_vars => Received' /\ OnePlace'
  BY ReceivedNext, OnePlaceNext DEF TypeOK
<1> QED BY <1>1, PlacesInit, TypeCorrect, PTL DEF Spec

-----------------------------------------------------------------------------
(* Where directives can go *)

\* Only onDirective, when enabled and not shutting down, brings a directive in,
\* and only what was wanted is queued for cancellation.
Moves ==
    /\ Wanted' \subseteq Wanted \/ (m_isEnabled /\ ~m_isShuttingDown /\ UNCHANGED flagVars)
    /\ m_cancelingQueue' \subseteq m_cancelingQueue \cup Wanted

\* A scrub moves wanted directives to m_cancelingQueue and brings nothing in.
LEMMA ScrubMoves ==
    ASSUME PlaceTypes, NEW id,
           NEW pre, pre \in {m_directiveBeingPreHandled, NoDirective},
           NEW slots, slots \in [Medium -> Directives \cup {NoDirective}],
           Occupants(slots) \subseteq Occupants(m_directivesBeingHandled),
           NEW queue, queue \subseteq m_handlingQueue,
           NEW canceling, canceling \subseteq m_cancelingQueue,
           scrubDialogRequestIdLocked(id, pre, slots, queue, canceling)
    PROVE  /\ Wanted' \subseteq Wanted
           /\ m_cancelingQueue' \subseteq m_cancelingQueue \cup Wanted
           /\ ScrubSet(id, pre, slots, queue) \subseteq Wanted
<1> DEFINE S == ScrubSet(id, pre, slots, queue)
<1>1. S \subseteq Wanted
  BY DEF ScrubSet, Wanted, PlaceTypes
<1>2. Occupants(Without(slots, S)) = Occupants(slots) \ S
  BY OccupantsWithout
<1>3. Wanted' \subseteq Wanted
  BY <1>2 DEF scrubDialogRequestIdLocked, Wanted
<1> QED BY <1>1, <1>3 DEF scrubDialogRequestIdLocked

\* queueAllDirectivesForCancellationLocked moves everything that was wanted.
LEMMA QueueAllMoves ==
    ASSUME PlaceTypes, queueAllDirectivesForCancellationLocked
    PROVE  /\ Wanted' = {}
           /\ m_cancelingQueue' = m_cancelingQueue \cup Wanted
<1>1. Occupants(m_directivesBeingHandled') = {}
  BY DEF queueAllDirectivesForCancellationLocked, Occupants
<1>2. Wanted' = {}
  BY <1>1 DEF queueAllDirectivesForCancellationLocked, Wanted
<1>3. m_cancelingQueue' = m_cancelingQueue \cup Wanted
  <2>1. NoDirective \notin Occupants(m_directivesBeingHandled)
    BY DEF Occupants
  <2>2. NoDirective \notin m_handlingQueue
    BY DEF PlaceTypes
  <2> QED BY <2>1, <2>2 DEF queueAllDirectivesForCancellationLocked, Wanted
<1> QED BY <1>2, <1>3

\* Every step moves directives this way.
LEMMA MovesNext == ASSUME PlaceTypes, ThreadTypes, [Next]_vars PROVE Moves
<1> USE DEF queueVars, flagVars, procVars, recvVars, pairVars, histVars
<1>1. ASSUME NEW d \in Directives, onDirectiveRefused(d) \/
             onDirectiveDropped(d) \/ CancelDirective(d) \/ ReportIgnored(d)
      PROVE  Moves
  BY <1>1 DEF onDirectiveRefused, onDirectiveDropped, CancelDirective,
     ReportIgnored, Moves, Wanted
<1>2. CASE RouterPreHandle \/ onDirectiveUnrouted \/ onDirectiveGone \/
            onDirectiveReturn \/ Relock \/ SpuriousWakeup \/ WaitForWork \/
            processCancelingQueueLocked \/ CancelingDone \/ RoundDone \/ enable \/
            shutdownUnregister \/ shutdownJoin
  BY <1>2 DEF RouterPreHandle, onDirectiveUnrouted, onDirectiveGone,
     onDirectiveReturn, Relock, SpuriousWakeup, WaitForWork,
     processCancelingQueueLocked, CancelingDone, RoundDone, enable,
     shutdownUnregister, shutdownJoin, Moves, Wanted
<1>3. ASSUME NEW d \in Directives, onDirective(d) PROVE Moves
  <2>1. m_isEnabled /\ ~m_isShuttingDown /\ UNCHANGED flagVars
    BY <1>3 DEF onDirective
  <2>2. m_cancelingQueue' = m_cancelingQueue
    BY <1>3 DEF onDirective
  <2> QED BY <2>1, <2>2 DEF Moves
<1>4. CASE onDirectiveQueued
  <2>1. recvDirective = m_directiveBeingPreHandled
    BY <1>4 DEF onDirectiveQueued, ThreadTypes
  <2>2. Wanted' \subseteq Wanted
    BY <1>4, <2>1 DEF onDirectiveQueued, Wanted
  <2> QED BY <1>4, <2>2 DEF onDirectiveQueued, Moves
<1>5. CASE handleQueuedDirectivesLocked
  <2>1. PICK d \in m_handlingQueue :
          /\ m_directivesBeingHandled' = [m \in Medium |->
               IF m \in Mediums(d) THEN d ELSE m_directivesBeingHandled[m]]
          /\ m_handlingQueue' = m_handlingQueue \ {d}
    BY <1>5 DEF handleQueuedDirectivesLocked, getNextUnblockedDirectiveLocked
  <2>2. Occupants(m_directivesBeingHandled')
          \subseteq Occupants(m_directivesBeingHandled) \cup {d}
    BY <2>1 DEF Occupants
  <2>3. Wanted' \subseteq Wanted
    BY <1>5, <2>1, <2>2 DEF handleQueuedDirectivesLocked, Wanted, PlaceTypes
  <2> QED BY <1>5, <2>3 DEF handleQueuedDirectivesLocked, Moves
<1>6. CASE HandleDirectiveSucceeded
  <2>1. Occupants(m_directivesBeingHandled') \subseteq Occupants(m_directivesBeingHandled)
    BY <1>6, OccupantsAfterClear DEF HandleDirectiveSucceeded
  <2>2. Wanted' \subseteq Wanted
    BY <1>6, <2>1 DEF HandleDirectiveSucceeded, Wanted
  <2> QED BY <1>6, <2>2 DEF HandleDirectiveSucceeded, Moves
<1>7. CASE HandleDirectiveFailed
  <2>1. scrubDialogRequestIdLocked(IdOf[current], m_directiveBeingPreHandled,
           SlotsAfterClear(current), m_handlingQueue, m_cancelingQueue)
    BY <1>7 DEF HandleDirectiveFailed
  <2> QED BY <2>1, OccupantsAfterClear, ScrubMoves DEF Moves
<1>8. ASSUME NEW d \in Directives, setCompleted(d) PROVE Moves
  <2>1. Occupants(m_directivesBeingHandled') \subseteq Occupants(m_directivesBeingHandled)
    BY <1>8, OccupantsWithout DEF setCompleted, PlaceTypes
  <2>2. Wanted' \subseteq Wanted
    BY <1>8, <2>1 DEF setCompleted, Wanted
  <2> QED BY <1>8, <2>2 DEF setCompleted, Moves
<1>9. ASSUME NEW d \in Directives, setFailed(d) PROVE Moves
  <2> DEFINE pre   == IF m_directiveBeingPreHandled = d THEN NoDirective
                      ELSE m_directiveBeingPreHandled
             slots == Without(m_directivesBeingHandled, {d})
             queue == m_handlingQueue \ {d}
  <2>1. /\ slots \in [Medium -> Directives \cup {NoDirective}]
        /\ Occupants(slots) = Occupants(m_directivesBeingHandled) \ {d}
    BY WithoutType, OccupantsWithout DEF PlaceTypes
  <2>2. scrubDialogRequestIdLocked(IdOf[d], pre, slots, queue, m_cancelingQueue \ {d})
    BY <1>9 DEF setFailed
  <2>3. pre \in {m_directiveBeingPreHandled, NoDirective}
    OBVIOUS
  <2> QED BY <2>1, <2>2, <2>3, ScrubMoves DEF Moves
<1>10. ASSUME NEW id \in DialogIds \cup {NoId}, setDialogRequestId(id) PROVE Moves
  <2>1. scrubDialogRequestIdLocked(m_dialogRequestId, m_directiveBeingPreHandled,
           m_directivesBeingHandled, m_handlingQueue, m_cancelingQueue)
    BY <1>10 DEF setDialogRequestId
  <2> QED BY <2>1, ScrubMoves DEF Moves, PlaceTypes
<1>11. CASE disable
  BY <1>11, QueueAllMoves DEF disable, Moves
<1>12. CASE shutdownCancelAll
  BY <1>12, QueueAllMoves DEF shutdownCancelAll, Moves
<1>13. CASE UNCHANGED vars
  BY <1>13 DEF vars, Moves, Wanted
<1> QED
  BY <1>1, <1>2, <1>3, <1>4, <1>5, <1>6, <1>7, <1>8, <1>9, <1>10, <1>11, <1>12,
     <1>13
  DEF Next, Receiving, Processing, Reports, Shutdown

-----------------------------------------------------------------------------
(* Mediums *)

\* When directives lose their slots because they left or their cancellation is
\* queued, the handlers at work keep theirs.
LEMMA SlotsLostSafe ==
    ASSUME PlaceTypes, MediumsHeld, NEW T,
           m_directivesBeingHandled' = Without(m_directivesBeingHandled, T),
           engaged' \subseteq engaged,
           \A e \in engaged' : e \in Doomed \cup T => e \in m_cancelingQueue' \cup batch',
           procPc' \in {procPc, "woken"}, procPc = "canceling" => procPc' = "canceling",
           policy' = policy, batch' = batch, current' = current, handled' = handled
    PROVE  MediumsHeld'
<1>1. \A e \in engaged' : e \in Directives /\ Mediums(e) \subseteq Medium
  BY DEF PlaceTypes, Mediums, Policy
<1>2. \A e \in Directives : Mediums(e)' = Mediums(e)
  BY DEF Mediums
<1>3. ASSUME NEW e \in engaged' \ Doomed', NEW m \in Mediums(e)'
      PROVE  m_directivesBeingHandled'[m] = e
  <2>1. e \in engaged \ Doomed /\ e \notin T /\ m \in Mediums(e) /\ m \in Medium
    BY <1>1, <1>2 DEF Doomed
  <2>2. m_directivesBeingHandled[m] = e
    BY <2>1 DEF MediumsHeld
  <2> QED BY <2>1, <2>2 DEF Without
<1>4. ASSUME procPc' = "handling", NEW m \in Mediums(current)'
      PROVE  m_directivesBeingHandled'[m] \in {current, NoDirective}
  <2>1. procPc = "handling" /\ current \in handled /\ current \in Directives
    BY <1>4 DEF MediumsHeld, PlaceTypes
  <2>2. m \in Mediums(current) /\ m \in Medium
    BY <1>4, <2>1 DEF Mediums, PlaceTypes, Policy
  <2>3. m_directivesBeingHandled[m] \in {current, NoDirective}
    BY <2>1, <2>2 DEF MediumsHeld
  <2> QED BY <2>2, <2>3 DEF Without
<1>5. procPc' # "canceling" => batch' = {}
  BY DEF MediumsHeld
<1>6. procPc' = "handling" => current' \in handled'
  BY DEF MediumsHeld
<1> QED BY <1>3, <1>4, <1>5, <1>6 DEF MediumsHeld

\* Every step keeps the mediums of the handlers at work.
LEMMA MediumsHeldNext ==
    PlaceTypes /\ ThreadTypes /\ Received /\ MediumsHeld /\ [Next]_vars => MediumsHeld'
<1> SUFFICES ASSUME PlaceTypes, ThreadTypes, Received, MediumsHeld, [Next]_vars
             PROVE MediumsHeld'
  OBVIOUS
<1> USE DEF queueVars, flagVars, procVars, recvVars, pairVars, histVars
<1>1. ASSUME NEW d \in Directives, onDirectiveRefused(d) \/
             onDirectiveDropped(d) \/ CancelDirective(d) \/ ReportIgnored(d)
      PROVE  MediumsHeld'
  BY <1>1 DEF onDirectiveRefused, onDirectiveDropped, CancelDirective,
     ReportIgnored, MediumsHeld, Mediums, Doomed
<1>2. CASE RouterPreHandle \/ onDirectiveUnrouted \/ onDirectiveGone \/
            onDirectiveReturn \/ Relock \/ SpuriousWakeup \/
            processCancelingQueueLocked \/ CancelingDone \/ enable \/
            shutdownUnregister \/ shutdownJoin
  BY <1>2 DEF RouterPreHandle, onDirectiveUnrouted, onDirectiveGone,
     onDirectiveReturn, Relock, SpuriousWakeup, processCancelingQueueLocked,
     CancelingDone, enable, shutdownUnregister, shutdownJoin,
     MediumsHeld, Mediums, Doomed
<1>3. ASSUME NEW d \in Directives, onDirective(d) PROVE MediumsHeld'
  <2>1. d \notin delivered /\ d \notin engaged
    BY <1>3 DEF onDirective, Received
  <2>2. \A e \in Directives \ {d} : policy'[e] = policy[e]
    BY <1>3 DEF onDirective, PlaceTypes
  <2>3. procPc = "handling" => current # d /\ current \in Directives
    BY <2>1 DEF MediumsHeld, Received, PlaceTypes
  <2>4. \A e \in engaged : e \in Directives \ {d}
    BY <2>1 DEF PlaceTypes
  <2> QED BY <1>3, <2>2, <2>3, <2>4 DEF onDirective, MediumsHeld, Mediums, Doomed
<1>4. CASE onDirectiveQueued
  BY <1>4 DEF onDirectiveQueued, Notify, MediumsHeld, Mediums, Doomed
<1>5. CASE WaitForWork
  <2>1. procPc = "check" /\ procPc' \in {"cancel", "sleeping"}
    BY <1>5 DEF WaitForWork
  <2> QED BY <1>5, <2>1 DEF WaitForWork, MediumsHeld, Mediums, Doomed
<1>6. CASE handleQueuedDirectivesLocked
  <2>1. PICK d \in m_handlingQueue :
          /\ ~Blocked(d)
          /\ m_directivesBeingHandled' = [m \in Medium |->
               IF m \in Mediums(d) THEN d ELSE m_directivesBeingHandled[m]]
          /\ current' = d
          /\ handled' = handled \cup {d}
          /\ engaged' = engaged \cup {d}
    BY <1>6 DEF handleQueuedDirectivesLocked, getNextUnblockedDirectiveLocked
  <2>2. /\ procPc = "handle" /\ procPc' = "handling"
        /\ policy' = policy /\ batch' = batch /\ m_cancelingQueue' = m_cancelingQueue
    BY <1>6 DEF handleQueuedDirectivesLocked
  <2>3. d \in Directives /\ Mediums(d) \subseteq Medium
    BY DEF PlaceTypes, Mediums, Policy
  <2>4. \A m \in Mediums(d) : m_directivesBeingHandled[m] = NoDirective
    BY <2>1, <2>3 DEF Blocked, blockedMediums
  <2>5. ASSUME NEW e \in engaged \ Doomed, NEW m \in Mediums(e)
        PROVE  m \notin Mediums(d) /\ m_directivesBeingHandled[m] = e
    <3>1. m_directivesBeingHandled[m] = e
      BY DEF MediumsHeld
    <3>2. e # NoDirective
      BY DEF PlaceTypes
    <3> QED BY <3>1, <3>2, <2>4
  <2>6. \A e \in engaged : e \in Directives /\ Mediums(e) \subseteq Medium
    BY DEF PlaceTypes, Mediums, Policy
  <2>7. Doomed' = Doomed /\ \A e \in Directives : Mediums(e)' = Mediums(e)
    BY <2>2 DEF Doomed, Mediums
  <2>8. \A m \in Mediums(d) : m_directivesBeingHandled'[m] = d
    BY <2>1, <2>3
  <2>9. ASSUME NEW e \in engaged' \ Doomed', NEW m \in Mediums(e)'
        PROVE  m_directivesBeingHandled'[m] = e
    <3>1. CASE e = d
      BY <3>1, <2>8, <2>7, <2>3
    <3>2. CASE e # d
      <4>1. e \in engaged \ Doomed /\ m \in Mediums(e)
        BY <3>2, <2>1, <2>6, <2>7
      <4> QED BY <4>1, <2>5, <2>6, <2>1
    <3> QED BY <3>1, <3>2
  <2>10. batch' = {}
    BY <2>2 DEF MediumsHeld
  <2> QED BY <2>1, <2>2, <2>3, <2>7, <2>8, <2>9, <2>10 DEF MediumsHeld
<1>7. CASE HandleDirectiveSucceeded
  <2>1. /\ procPc = "handling" /\ procPc' = "handle"
        /\ policy' = policy /\ batch' = batch /\ m_cancelingQueue' = m_cancelingQueue
    BY <1>7 DEF HandleDirectiveSucceeded
  <2>2. Doomed' = Doomed /\ \A e \in Directives : Mediums(e)' = Mediums(e)
    BY <2>1 DEF Doomed, Mediums
  <2>3. \A e \in engaged : e \in Directives /\ Mediums(e) \subseteq Medium
    BY DEF PlaceTypes, Mediums, Policy
  <2>4. ASSUME NEW e \in engaged' \ Doomed', NEW m \in Mediums(e)'
        PROVE  m_directivesBeingHandled'[m] = e
    <3>1. e \in engaged \ Doomed /\ m \in Mediums(e) /\ m \in Medium /\ e \in Directives
      BY <1>7, <2>2, <2>3 DEF HandleDirectiveSucceeded
    <3>2. m_directivesBeingHandled[m] = e
      BY <3>1 DEF MediumsHeld
    <3>3. CASE KeepsMediums(current)
      BY <1>7, <3>2, <3>3 DEF HandleDirectiveSucceeded
    <3>4. CASE ~KeepsMediums(current)
      <4>1. e # current
        BY <1>7, <3>4 DEF HandleDirectiveSucceeded, KeepsMediums
      <4>2. \A n \in Mediums(current) : m_directivesBeingHandled[n] \in {current, NoDirective}
        BY <2>1 DEF MediumsHeld
      <4>3. m \notin Mediums(current)
        BY <3>1, <3>2, <4>1, <4>2
      <4> QED BY <1>7, <3>1, <3>2, <3>4, <4>3 DEF HandleDirectiveSucceeded, SlotsAfterClear
    <3> QED BY <3>3, <3>4
  <2> QED BY <2>1, <2>4 DEF MediumsHeld
<1>8. CASE HandleDirectiveFailed
  <2> DEFINE slots == SlotsAfterClear(current)
             S == ScrubSet(IdOf[current], m_directiveBeingPreHandled, slots,
                           m_handlingQueue)
  <2>1. /\ procPc = "handling" /\ procPc' = "handle"
        /\ policy' = policy /\ batch' = batch
        /\ m_cancelingQueue' = m_cancelingQueue \cup S
        /\ m_directivesBeingHandled' = Without(slots, S)
        /\ engaged' = engaged \ {current}
    BY <1>8 DEF HandleDirectiveFailed, scrubDialogRequestIdLocked
  <2>2. Doomed' = Doomed \cup S /\ \A e \in Directives : Mediums(e)' = Mediums(e)
    BY <2>1 DEF Doomed, Mediums
  <2>3. \A e \in engaged : e \in Directives /\ Mediums(e) \subseteq Medium
    BY DEF PlaceTypes, Mediums, Policy
  <2>4. ASSUME NEW e \in engaged' \ Doomed', NEW m \in Mediums(e)'
        PROVE  m_directivesBeingHandled'[m] = e
    <3>1. /\ e \in engaged \ Doomed /\ m \in Mediums(e) /\ m \in Medium /\ e \in Directives
          /\ e # current /\ e \notin S
      BY <2>1, <2>2, <2>3
    <3>2. m_directivesBeingHandled[m] = e
      BY <3>1 DEF MediumsHeld
    <3>3. \A n \in Mediums(current) : m_directivesBeingHandled[n] \in {current, NoDirective}
      BY <2>1 DEF MediumsHeld
    <3>4. m \notin Mediums(current)
      BY <3>1, <3>2, <3>3
    <3>5. slots[m] = e
      BY <3>1, <3>2, <3>4 DEF SlotsAfterClear
    <3> QED BY <2>1, <3>1, <3>5 DEF Without
  <2> QED BY <2>1, <2>4 DEF MediumsHeld
<1>9. CASE RoundDone
  <2>1. procPc = "handle" /\ procPc' \in {"cancel", "exited", "check"}
    BY <1>9 DEF RoundDone
  <2> QED BY <1>9, <2>1 DEF RoundDone, MediumsHeld, Mediums, Doomed
<1>10. ASSUME NEW d \in Directives, setCompleted(d) PROVE MediumsHeld'
  <2>1. /\ procPc' \in {procPc, "woken"} /\ LockFree
        /\ policy' = policy /\ batch' = batch
        /\ m_cancelingQueue' = m_cancelingQueue \ {d}
        /\ m_directivesBeingHandled' = Without(m_directivesBeingHandled, {d})
        /\ engaged' = engaged \ {d} /\ current' = current /\ handled' = handled
        /\ procPc = "canceling" => procPc' = "canceling"
    BY <1>10 DEF setCompleted, Notify
  <2>2. \A e \in engaged' : e \in Doomed \cup ({d}) => e \in m_cancelingQueue' \cup batch'
    BY <2>1 DEF Doomed
  <2>3. m_directivesBeingHandled' = Without(m_directivesBeingHandled, {d})
    BY <2>1
  <2>4. engaged' \subseteq engaged
    BY <2>1
  <2> QED BY <2>1, <2>2, <2>3, <2>4, SlotsLostSafe
<1>11. ASSUME NEW d \in Directives, setFailed(d) PROVE MediumsHeld'
  <2> DEFINE pre   == IF m_directiveBeingPreHandled = d THEN NoDirective
                      ELSE m_directiveBeingPreHandled
             slots == Without(m_directivesBeingHandled, {d})
             queue == m_handlingQueue \ {d}
             S     == ScrubSet(IdOf[d], pre, slots, queue)
  <2>1. /\ procPc' \in {procPc, "woken"}
        /\ policy' = policy /\ batch' = batch
        /\ m_cancelingQueue' = (m_cancelingQueue \ {d}) \cup S
        /\ m_directivesBeingHandled' = Without(slots, S)
        /\ engaged' = engaged \ {d} /\ current' = current /\ handled' = handled
        /\ procPc = "canceling" => procPc' = "canceling"
    BY <1>11 DEF setFailed, scrubDialogRequestIdLocked, Notify
  <2>2. Without(slots, S) = Without(m_directivesBeingHandled, {d} \cup S)
    BY DEF Without, PlaceTypes
  <2>3. \A e \in engaged' : e \in Doomed \cup ({d} \cup S) => e \in m_cancelingQueue' \cup batch'
    BY <2>1 DEF Doomed
  <2>4. m_directivesBeingHandled' = Without(m_directivesBeingHandled, {d} \cup S)
    BY <2>1, <2>2
  <2>5. engaged' \subseteq engaged
    BY <2>1
  <2> QED BY <2>1, <2>3, <2>4, <2>5, SlotsLostSafe
<1>12. ASSUME NEW id \in DialogIds \cup {NoId}, setDialogRequestId(id) PROVE MediumsHeld'
  <2> DEFINE S == ScrubSet(m_dialogRequestId, m_directiveBeingPreHandled,
                           m_directivesBeingHandled, m_handlingQueue)
  <2>1. /\ procPc' \in {procPc, "woken"}
        /\ policy' = policy /\ batch' = batch
        /\ m_cancelingQueue' = m_cancelingQueue \cup S
        /\ m_directivesBeingHandled' = Without(m_directivesBeingHandled, S)
        /\ engaged' = engaged /\ current' = current /\ handled' = handled
        /\ procPc = "canceling" => procPc' = "canceling"
    BY <1>12 DEF setDialogRequestId, scrubDialogRequestIdLocked, Notify
  <2>2. \A e \in engaged' : e \in Doomed \cup (S) => e \in m_cancelingQueue' \cup batch'
    BY <2>1 DEF Doomed
  <2>3. m_directivesBeingHandled' = Without(m_directivesBeingHandled, S)
    BY <2>1
  <2>4. engaged' \subseteq engaged
    BY <2>1
  <2> QED BY <2>1, <2>2, <2>3, <2>4, SlotsLostSafe
<1>13. CASE disable
  <2> DEFINE S == Occupants(m_directivesBeingHandled)
  <2>1. /\ procPc' \in {procPc, "woken"}
        /\ policy' = policy /\ batch' = batch
        /\ m_cancelingQueue \cup S \subseteq m_cancelingQueue'
        /\ m_directivesBeingHandled' = [m \in Medium |-> NoDirective]
        /\ engaged' = engaged /\ current' = current /\ handled' = handled
        /\ procPc = "canceling" => procPc' = "canceling"
    BY <1>13 DEF disable, queueAllDirectivesForCancellationLocked, Notify
  <2>2. Without(m_directivesBeingHandled, S) = [m \in Medium |-> NoDirective]
    BY DEF Without, PlaceTypes, Occupants
  <2>3. \A e \in engaged' : e \in Doomed \cup (S) => e \in m_cancelingQueue' \cup batch'
    BY <2>1 DEF Doomed
  <2>4. m_directivesBeingHandled' = Without(m_directivesBeingHandled, S)
    BY <2>1, <2>2
  <2>5. engaged' \subseteq engaged
    BY <2>1
  <2> QED BY <2>1, <2>3, <2>4, <2>5, SlotsLostSafe
<1>14. CASE shutdownCancelAll
  <2> DEFINE S == Occupants(m_directivesBeingHandled)
  <2>1. /\ procPc' \in {procPc, "woken"}
        /\ policy' = policy /\ batch' = batch
        /\ m_cancelingQueue \cup S \subseteq m_cancelingQueue'
        /\ m_directivesBeingHandled' = [m \in Medium |-> NoDirective]
        /\ engaged' = engaged /\ current' = current /\ handled' = handled
        /\ procPc = "canceling" => procPc' = "canceling"
    BY <1>14 DEF shutdownCancelAll, queueAllDirectivesForCancellationLocked, Notify
  <2>2. Without(m_directivesBeingHandled, S) = [m \in Medium |-> NoDirective]
    BY DEF Without, PlaceTypes, Occupants
  <2>3. \A e \in engaged' : e \in Doomed \cup (S) => e \in m_cancelingQueue' \cup batch'
    BY <2>1 DEF Doomed
  <2>4. m_directivesBeingHandled' = Without(m_directivesBeingHandled, S)
    BY <2>1, <2>2
  <2>5. engaged' \subseteq engaged
    BY <2>1
  <2> QED BY <2>1, <2>3, <2>4, <2>5, SlotsLostSafe
<1>15. CASE UNCHANGED vars
  BY <1>15 DEF vars, MediumsHeld, Mediums, Doomed
<1> QED
  BY <1>1, <1>2, <1>3, <1>4, <1>5, <1>6, <1>7, <1>8, <1>9, <1>10, <1>11, <1>12,
     <1>13, <1>14, <1>15
  DEF Next, Receiving, Processing, Reports, Shutdown

\* MediumsHeld is what makes mediums exclusive.
LEMMA HeldIsExclusive == PlaceTypes /\ MediumsHeld => MediumExclusion
<1> SUFFICES ASSUME PlaceTypes, MediumsHeld,
                    NEW d \in engaged, NEW e \in engaged, Share(d, e),
                    d \notin Doomed, e \notin Doomed
             PROVE  d = e
  BY DEF MediumExclusion
<1>1. PICK m : m \in Mediums(d) /\ m \in Mediums(e)
  BY DEF Share
<1> QED BY <1>1 DEF MediumsHeld

\* What the theorems below rest on.
Held == Received /\ OnePlace /\ MediumsHeld

\* It holds all along.
LEMMA HeldAlways == Spec => [](TypeOK /\ Held)
<1>1. Init => Held
  BY PlacesInit DEF Held, Init, MediumsHeld
<1>2. TypeOK /\ Held /\ [Next]_vars => Held'
  BY ReceivedNext, OnePlaceNext, MediumsHeldNext DEF TypeOK, Held
<1> QED BY <1>1, <1>2, TypeCorrect, PTL DEF Spec

\* Two handlers never work on one medium, unless the cancellation of one of them
\* is on its way: no thread frees a medium that another directive occupies.
THEOREM MediumSafety == Spec => []MediumExclusion
<1>1. TypeOK /\ Held => MediumExclusion
  BY HeldIsExclusive DEF TypeOK, Held
<1> QED BY <1>1, HeldAlways, PTL

-----------------------------------------------------------------------------
(* Order *)

\* Every step keeps the tickets below the number of push_backs.
LEMMA TicketsBoundedNext ==
    PlaceTypes /\ ThreadTypes /\ TicketsBounded /\ [Next]_vars => TicketsBounded'
<1> SUFFICES ASSUME PlaceTypes, ThreadTypes, TicketsBounded, [Next]_vars
             PROVE TicketsBounded'
  OBVIOUS
<1> USE DEF queueVars, flagVars, procVars, recvVars, pairVars, histVars
<1>1. ASSUME NEW d \in Directives, onDirectiveRefused(d) \/
             onDirectiveDropped(d) \/ onDirective(d) \/ CancelDirective(d) \/
             setCompleted(d) \/ setFailed(d) \/ ReportIgnored(d)
      PROVE  TicketsBounded'
  BY <1>1 DEF onDirectiveRefused, onDirectiveDropped, onDirective,
     CancelDirective, setCompleted, setFailed, ReportIgnored, TicketsBounded
<1>2. CASE RouterPreHandle \/ onDirectiveUnrouted \/ onDirectiveGone \/
            onDirectiveReturn \/ Relock \/ SpuriousWakeup \/ WaitForWork \/
            processCancelingQueueLocked \/ CancelingDone \/
            handleQueuedDirectivesLocked \/ HandleDirectiveSucceeded \/
            HandleDirectiveFailed \/ RoundDone \/ disable \/ enable \/
            shutdownUnregister \/ shutdownCancelAll \/ shutdownJoin
  BY <1>2 DEF RouterPreHandle, onDirectiveUnrouted, onDirectiveGone,
     onDirectiveReturn, Relock, SpuriousWakeup, WaitForWork,
     processCancelingQueueLocked, CancelingDone, handleQueuedDirectivesLocked,
     HandleDirectiveSucceeded, HandleDirectiveFailed, RoundDone, disable, enable,
     shutdownUnregister, shutdownCancelAll, shutdownJoin, TicketsBounded
<1>3. CASE onDirectiveQueued
  <2>1. recvDirective \in Directives /\ pushes' = pushes + 1
    BY <1>3 DEF onDirectiveQueued, ThreadTypes
  <2>2. \A d \in Directives : ticket'[d] = IF d = recvDirective THEN pushes + 1 ELSE ticket[d]
    BY <1>3, <2>1 DEF onDirectiveQueued, PlaceTypes
  <2>3. pushes \in Nat /\ \A d \in Directives : ticket[d] \in Nat
    BY DEF PlaceTypes
  <2> QED BY <2>1, <2>2, <2>3 DEF TicketsBounded
<1>4. ASSUME NEW id \in DialogIds \cup {NoId}, setDialogRequestId(id) PROVE TicketsBounded'
  BY <1>4 DEF setDialogRequestId, TicketsBounded
<1>5. CASE UNCHANGED vars
  BY <1>5 DEF vars, TicketsBounded
<1> QED
  BY <1>1, <1>2, <1>3, <1>4, <1>5
  DEF Next, Receiving, Processing, Reports, Shutdown

\* Every step keeps the order.
LEMMA NoOvertakingNext ==
    PlaceTypes /\ ThreadTypes /\ Held /\ TicketsBounded /\ NoOvertaking /\ [Next]_vars
        => NoOvertaking'
<1> SUFFICES ASSUME PlaceTypes, ThreadTypes, Held, TicketsBounded, NoOvertaking, [Next]_vars
             PROVE NoOvertaking'
  OBVIOUS
<1> USE DEF queueVars, flagVars, procVars, recvVars, pairVars, histVars
<1>1. ASSUME NEW d \in Directives, onDirectiveRefused(d) \/
             onDirectiveDropped(d) \/ CancelDirective(d) \/ ReportIgnored(d)
      PROVE  NoOvertaking'
  BY <1>1 DEF onDirectiveRefused, onDirectiveDropped, CancelDirective,
     ReportIgnored, NoOvertaking, Earlier, Share, Mediums, IsBlocking
<1>2. CASE RouterPreHandle \/ onDirectiveUnrouted \/ onDirectiveGone \/
            onDirectiveReturn \/ Relock \/ SpuriousWakeup \/ WaitForWork \/
            processCancelingQueueLocked \/ CancelingDone \/
            HandleDirectiveSucceeded \/ RoundDone \/ enable \/
            shutdownUnregister \/ shutdownJoin
  BY <1>2 DEF RouterPreHandle, onDirectiveUnrouted, onDirectiveGone,
     onDirectiveReturn, Relock, SpuriousWakeup, WaitForWork,
     processCancelingQueueLocked, CancelingDone, HandleDirectiveSucceeded,
     RoundDone, enable, shutdownUnregister, shutdownJoin,
     NoOvertaking, Earlier, Share, Mediums, IsBlocking
<1>3. ASSUME NEW d \in Directives, onDirective(d) PROVE NoOvertaking'
  <2>1. /\ d \notin m_handlingQueue /\ d \notin handled
        /\ m_handlingQueue' = m_handlingQueue /\ handled' = handled /\ ticket' = ticket
    BY <1>3 DEF onDirective, Held, Received, Wanted, PlaceTypes
  <2>2. \A e \in Directives \ {d} : policy'[e] = policy[e]
    BY <1>3 DEF onDirective, PlaceTypes
  <2>3. \A e \in m_handlingQueue \cup handled : e \in Directives \ {d}
    BY <2>1 DEF PlaceTypes
  <2> QED BY <2>1, <2>2, <2>3 DEF NoOvertaking, Earlier, Share, Mediums, IsBlocking
<1>4. CASE onDirectiveQueued
  <2>1. /\ recvDirective \in Directives /\ recvDirective \notin handled
        /\ m_handlingQueue' = m_handlingQueue \cup {recvDirective}
        /\ handled' = handled /\ policy' = policy
    BY <1>4 DEF onDirectiveQueued, ThreadTypes, Held, OnePlace
  <2>2. \A d \in Directives : ticket'[d] = IF d = recvDirective THEN pushes + 1 ELSE ticket[d]
    BY <1>4, <2>1 DEF onDirectiveQueued, PlaceTypes
  <2>3. ASSUME NEW e \in handled
        PROVE  e \in Directives /\ e # recvDirective /\ ~(ticket'[recvDirective] < ticket'[e])
    <3>1. e \in Directives /\ e # recvDirective
      BY <2>1 DEF PlaceTypes
    <3>2. ticket'[e] = ticket[e] /\ ticket'[recvDirective] = pushes + 1
      BY <2>1, <2>2, <3>1
    <3>3. ticket[e] =< pushes /\ ticket[e] \in Nat /\ pushes \in Nat
      BY <3>1 DEF TicketsBounded, PlaceTypes
    <3> QED BY <3>1, <3>2, <3>3
  <2>4. \A d \in m_handlingQueue : d \in Directives
    BY DEF PlaceTypes
  <2>5. ASSUME NEW d \in m_handlingQueue', NEW e \in handled',
               IsBlocking(d)', Earlier(d, e)'
        PROVE  ~Share(d, e)'
    <3>1. d # recvDirective /\ d \in m_handlingQueue /\ e \in handled /\ e # recvDirective
      BY <2>1, <2>3, <2>5 DEF Earlier
    <3>2. ticket'[d] = ticket[d] /\ ticket'[e] = ticket[e]
      BY <2>2, <2>3, <2>4, <3>1
    <3>3. Earlier(d, e) /\ IsBlocking(d)
      BY <2>1, <2>5, <3>2 DEF Earlier, IsBlocking
    <3> QED BY <2>1, <3>1, <3>3 DEF NoOvertaking, Share, Mediums
  <2> QED BY <2>5 DEF NoOvertaking
<1>5. CASE handleQueuedDirectivesLocked
  <2>1. PICK x \in m_handlingQueue :
          /\ ~Blocked(x)
          /\ m_handlingQueue' = m_handlingQueue \ {x}
          /\ handled' = handled \cup {x}
    BY <1>5 DEF handleQueuedDirectivesLocked, getNextUnblockedDirectiveLocked
  <2>2. policy' = policy /\ ticket' = ticket
    BY <1>5 DEF handleQueuedDirectivesLocked
  <2>3. ASSUME NEW d \in m_handlingQueue, IsBlocking(d), Earlier(d, x) PROVE ~Share(d, x)
    <3>1. Mediums(d) \subseteq blockedMediums(x)
      BY <2>3 DEF blockedMediums
    <3> QED BY <2>1, <3>1 DEF Blocked, Share
  <2> QED BY <2>1, <2>2, <2>3 DEF NoOvertaking, Earlier, Share, Mediums, IsBlocking
<1>6. CASE HandleDirectiveFailed
  <2>1. m_handlingQueue' \subseteq m_handlingQueue /\ handled' = handled
    BY <1>6 DEF HandleDirectiveFailed, scrubDialogRequestIdLocked
  <2>2. policy' = policy /\ ticket' = ticket
    BY <1>6 DEF HandleDirectiveFailed
  <2> QED BY <2>1, <2>2 DEF NoOvertaking, Earlier, Share, Mediums, IsBlocking
<1>7. ASSUME NEW d \in Directives, setCompleted(d) PROVE NoOvertaking'
  <2>1. m_handlingQueue' \subseteq m_handlingQueue /\ handled' = handled
    BY <1>7 DEF setCompleted, scrubDialogRequestIdLocked
  <2>2. policy' = policy /\ ticket' = ticket
    BY <1>7 DEF setCompleted
  <2> QED BY <2>1, <2>2 DEF NoOvertaking, Earlier, Share, Mediums, IsBlocking
<1>8. ASSUME NEW d \in Directives, setFailed(d) PROVE NoOvertaking'
  <2>1. m_handlingQueue' \subseteq m_handlingQueue /\ handled' = handled
    BY <1>8 DEF setFailed, scrubDialogRequestIdLocked
  <2>2. policy' = policy /\ ticket' = ticket
    BY <1>8 DEF setFailed
  <2> QED BY <2>1, <2>2 DEF NoOvertaking, Earlier, Share, Mediums, IsBlocking
<1>9. ASSUME NEW id \in DialogIds \cup {NoId}, setDialogRequestId(id) PROVE NoOvertaking'
  <2>1. m_handlingQueue' \subseteq m_handlingQueue /\ handled' = handled
    BY <1>9 DEF setDialogRequestId, scrubDialogRequestIdLocked
  <2>2. policy' = policy /\ ticket' = ticket
    BY <1>9 DEF setDialogRequestId
  <2> QED BY <2>1, <2>2 DEF NoOvertaking, Earlier, Share, Mediums, IsBlocking
<1>10. CASE disable
  <2>1. m_handlingQueue' = {}
    BY <1>10 DEF disable, queueAllDirectivesForCancellationLocked
  <2> QED BY <2>1 DEF NoOvertaking
<1>11. CASE shutdownCancelAll
  <2>1. m_handlingQueue' = {}
    BY <1>11 DEF shutdownCancelAll, queueAllDirectivesForCancellationLocked
  <2> QED BY <2>1 DEF NoOvertaking
<1>12. CASE UNCHANGED vars
  BY <1>12 DEF vars, NoOvertaking, Earlier, Share, Mediums, IsBlocking
<1> QED
  BY <1>1, <1>2, <1>3, <1>4, <1>5, <1>6, <1>7, <1>8, <1>9, <1>10, <1>11, <1>12
  DEF Next, Receiving, Processing, Reports, Shutdown

\* No directive is handled before an earlier blocking one that waits for one of the
\* same mediums, whatever is completed, failed or cancelled in between.
THEOREM OrderSafety == Spec => []NoOvertaking
<1>1. Init => TicketsBounded /\ NoOvertaking
  BY DEF Init, TicketsBounded, NoOvertaking
<1>2. TypeOK /\ Held /\ TicketsBounded /\ NoOvertaking /\ [Next]_vars
        => TicketsBounded' /\ NoOvertaking'
  BY TicketsBoundedNext, NoOvertakingNext DEF TypeOK
<1> QED BY <1>1, <1>2, HeldAlways, PTL DEF Spec

-----------------------------------------------------------------------------
(* Wake-ups *)

\* The predicate depends on the queues, the slots, the tickets and the policies
\* of what is queued.
LEMMA WakeUnchanged ==
    ASSUME PlaceTypes, UNCHANGED <<m_cancelingQueue, m_handlingQueue,
                                   m_directivesBeingHandled, ticket, m_isShuttingDown>>,
           \A d \in m_handlingQueue : policy'[d] = policy[d]
    PROVE  wake' <=> wake
<1>1. \A d \in m_handlingQueue : blockedMediums(d)' = blockedMediums(d)
  BY DEF blockedMediums, Earlier, IsBlocking, Mediums
<1>2. \A d \in m_handlingQueue : Blocked(d)' <=> Blocked(d)
  BY <1>1 DEF Blocked, Mediums
<1>3. getNextUnblockedDirectiveLocked' = getNextUnblockedDirectiveLocked
  BY <1>2 DEF getNextUnblockedDirectiveLocked, Earlier
<1> QED BY <1>3 DEF wake

\* Empty queues wake nobody.
LEMMA NothingToWakeFor ==
    ASSUME m_cancelingQueue' = {}, m_handlingQueue' = {}, ~m_isShuttingDown'
    PROVE  ~wake'
BY DEF wake, getNextUnblockedDirectiveLocked

\* Every step that makes work while the processing thread sleeps wakes it.
LEMMA NoLostWakeupNext ==
    PlaceTypes /\ ThreadTypes /\ Received /\ NoLostWakeup /\ [Next]_vars => NoLostWakeup'
<1> SUFFICES ASSUME PlaceTypes, ThreadTypes, Received, NoLostWakeup, [Next]_vars,
                    procPc' = "sleeping"
             PROVE ~wake'
  BY DEF NoLostWakeup
<1> USE DEF queueVars, flagVars, procVars, recvVars, pairVars, histVars
<1>1. ASSUME NEW d \in Directives, onDirectiveRefused(d) \/
             onDirectiveDropped(d) \/ CancelDirective(d) \/ ReportIgnored(d)
      PROVE  ~wake'
  BY <1>1, WakeUnchanged DEF onDirectiveRefused, onDirectiveDropped,
     CancelDirective, ReportIgnored, NoLostWakeup
<1>2. CASE RouterPreHandle \/ onDirectiveUnrouted \/ onDirectiveGone \/
            onDirectiveReturn \/ enable \/ shutdownUnregister \/ shutdownJoin
  BY <1>2, WakeUnchanged DEF RouterPreHandle, onDirectiveUnrouted,
     onDirectiveGone, onDirectiveReturn, enable, shutdownUnregister, shutdownJoin,
     NoLostWakeup
<1>3. ASSUME NEW d \in Directives, onDirective(d) PROVE ~wake'
  <2>1. UNCHANGED <<procPc, m_cancelingQueue, m_handlingQueue, m_directivesBeingHandled,
                     ticket, m_isShuttingDown>>
    BY <1>3 DEF onDirective
  <2>2. d \notin m_handlingQueue
    BY <1>3 DEF onDirective, Received, Wanted, PlaceTypes
  <2>3. \A e \in m_handlingQueue : policy'[e] = policy[e]
    BY <1>3, <2>2 DEF onDirective, PlaceTypes
  <2> QED BY <2>1, <2>3, WakeUnchanged DEF NoLostWakeup
<1>4. CASE onDirectiveQueued
  <2>1. procPc' # "sleeping"
    BY <1>4 DEF onDirectiveQueued, Notify, LockFree
  <2> QED BY <2>1
<1>5. CASE Relock
  <2>1. procPc' # "sleeping"
    BY <1>5 DEF Relock, Notify, LockFree
  <2> QED BY <2>1
<1>6. CASE SpuriousWakeup
  <2>1. procPc' # "sleeping"
    BY <1>6 DEF SpuriousWakeup, Notify, LockFree
  <2> QED BY <2>1
<1>7. CASE WaitForWork
  <2>1. ~wake
    BY <1>7 DEF WaitForWork
  <2>2. UNCHANGED <<m_cancelingQueue, m_handlingQueue, m_directivesBeingHandled,
                     ticket, policy, m_isShuttingDown>>
    BY <1>7 DEF WaitForWork
  <2> QED BY <2>1, <2>2, WakeUnchanged
<1>8. CASE processCancelingQueueLocked
  <2>1. procPc' # "sleeping"
    BY <1>8 DEF processCancelingQueueLocked, Notify, LockFree
  <2> QED BY <2>1
<1>9. CASE CancelingDone
  <2>1. procPc' # "sleeping"
    BY <1>9 DEF CancelingDone, Notify, LockFree
  <2> QED BY <2>1
<1>10. CASE handleQueuedDirectivesLocked
  <2>1. procPc' # "sleeping"
    BY <1>10 DEF handleQueuedDirectivesLocked, Notify, LockFree
  <2> QED BY <2>1
<1>11. CASE HandleDirectiveSucceeded
  <2>1. procPc' # "sleeping"
    BY <1>11 DEF HandleDirectiveSucceeded, Notify, LockFree
  <2> QED BY <2>1
<1>12. CASE HandleDirectiveFailed
  <2>1. procPc' # "sleeping"
    BY <1>12 DEF HandleDirectiveFailed, Notify, LockFree
  <2> QED BY <2>1
<1>13. CASE RoundDone
  <2>1. procPc' # "sleeping"
    BY <1>13 DEF RoundDone, Notify, LockFree
  <2> QED BY <2>1
<1>14. ASSUME NEW d \in Directives, setCompleted(d) PROVE ~wake'
  <2>1. procPc = "sleeping" /\ ~LeftInQueues(m_cancelingQueue', m_handlingQueue')
    BY <1>14 DEF setCompleted, Notify
  <2>2. ~m_isShuttingDown'
    BY <1>14, <2>1 DEF setCompleted, NoLostWakeup, wake
  <2> QED BY <2>1, <2>2, NothingToWakeFor DEF LeftInQueues
<1>15. ASSUME NEW d \in Directives, setFailed(d) PROVE ~wake'
  <2> DEFINE pre   == IF m_directiveBeingPreHandled = d THEN NoDirective
                      ELSE m_directiveBeingPreHandled
             slots == Without(m_directivesBeingHandled, {d})
             queue == m_handlingQueue \ {d}
             S     == ScrubSet(IdOf[d], pre, slots, queue)
  <2>1. procPc = "sleeping" /\ ~LeftInQueues(m_cancelingQueue \ {d}, queue) /\ S = {}
    BY <1>15 DEF setFailed, Notify
  <2>2. ~m_isShuttingDown'
    BY <1>15, <2>1 DEF setFailed, NoLostWakeup, wake
  <2>3. m_cancelingQueue' = (m_cancelingQueue \ {d}) \cup S /\ m_handlingQueue' = queue \ S
    BY <1>15 DEF setFailed, scrubDialogRequestIdLocked
  <2>4. m_cancelingQueue' = {} /\ m_handlingQueue' = {}
    BY <2>1, <2>3 DEF LeftInQueues
  <2> QED BY <2>2, <2>4, NothingToWakeFor
<1>16. ASSUME NEW id \in DialogIds \cup {NoId}, setDialogRequestId(id) PROVE ~wake'
  <2> DEFINE S == ScrubSet(m_dialogRequestId, m_directiveBeingPreHandled,
                           m_directivesBeingHandled, m_handlingQueue)
  <2>1. procPc = "sleeping" /\ S = {}
    BY <1>16 DEF setDialogRequestId, Notify
  <2>2. /\ m_cancelingQueue' = m_cancelingQueue \cup S
        /\ m_handlingQueue' = m_handlingQueue \ S
        /\ m_directivesBeingHandled' = Without(m_directivesBeingHandled, S)
        /\ UNCHANGED <<ticket, policy, m_isShuttingDown>>
    BY <1>16 DEF setDialogRequestId, scrubDialogRequestIdLocked
  <2>3. Without(m_directivesBeingHandled, {}) = m_directivesBeingHandled
    BY DEF Without, PlaceTypes
  <2> QED BY <2>1, <2>2, <2>3, WakeUnchanged DEF NoLostWakeup
<1>17. CASE disable
  <2>1. procPc' # "sleeping"
    BY <1>17 DEF disable, Notify, LockFree
  <2> QED BY <2>1
<1>18. CASE shutdownCancelAll
  <2>1. procPc' # "sleeping"
    BY <1>18 DEF shutdownCancelAll, Notify, LockFree
  <2> QED BY <2>1
<1>19. CASE UNCHANGED vars
  BY <1>19, WakeUnchanged DEF vars, NoLostWakeup
<1> QED
  BY <1>1, <1>2, <1>3, <1>4, <1>5, <1>6, <1>7, <1>8, <1>9, <1>10, <1>11, <1>12,
     <1>13, <1>14, <1>15, <1>16, <1>17, <1>18, <1>19
  DEF Next, Receiving, Processing, Reports, Shutdown

\* The processing thread never sleeps while there is something for it to do.
THEOREM WakeupSafety == Spec => []NoLostWakeup
<1>1. Init => NoLostWakeup
  BY DEF Init, NoLostWakeup
<1>2. TypeOK /\ Held /\ NoLostWakeup /\ [Next]_vars => NoLostWakeup'
  BY NoLostWakeupNext DEF TypeOK, Held
<1> QED BY <1>1, <1>2, HeldAlways, PTL DEF Spec

-----------------------------------------------------------------------------
(* The end *)

\* Only the second block of shutdown changes m_isShuttingDown.
LEMMA FlagKept ==
    ASSUME [Next]_vars, ~shutdownCancelAll PROVE m_isShuttingDown' = m_isShuttingDown
<1> USE DEF queueVars, flagVars, procVars, recvVars, pairVars, histVars
<1>1. ASSUME NEW d \in Directives, onDirectiveRefused(d) \/
             onDirectiveDropped(d) \/ onDirective(d) \/ CancelDirective(d) \/
             setCompleted(d) \/ setFailed(d) \/ ReportIgnored(d)
      PROVE  m_isShuttingDown' = m_isShuttingDown
  BY <1>1 DEF onDirectiveRefused, onDirectiveDropped, onDirective,
     CancelDirective, setCompleted, setFailed, ReportIgnored, flagVars
<1>2. CASE RouterPreHandle \/ onDirectiveUnrouted \/ onDirectiveGone \/
            onDirectiveQueued \/ onDirectiveReturn \/ Relock \/ SpuriousWakeup \/
            WaitForWork \/ processCancelingQueueLocked \/ CancelingDone \/
            handleQueuedDirectivesLocked \/ HandleDirectiveSucceeded \/
            HandleDirectiveFailed \/ RoundDone \/ disable \/ enable \/
            shutdownUnregister \/ shutdownJoin
  BY <1>2 DEF RouterPreHandle, onDirectiveUnrouted, onDirectiveGone,
     onDirectiveQueued, onDirectiveReturn, Relock, SpuriousWakeup, WaitForWork,
     processCancelingQueueLocked, CancelingDone, handleQueuedDirectivesLocked,
     HandleDirectiveSucceeded, HandleDirectiveFailed, RoundDone, disable, enable,
     shutdownUnregister, shutdownJoin, flagVars
<1>3. ASSUME NEW id \in DialogIds \cup {NoId}, setDialogRequestId(id) PROVE m_isShuttingDown' = m_isShuttingDown
  BY <1>3 DEF setDialogRequestId, flagVars
<1>4. CASE shutdownCancelAll
  BY <1>4
<1>5. CASE UNCHANGED vars
  BY <1>5 DEF vars, flagVars
<1> QED
  BY <1>1, <1>2, <1>3, <1>4, <1>5
  DEF Next, Receiving, Processing, Reports, Shutdown

\* Every step keeps what is known about the end.
LEMMA NothingAfterShutdownNext ==
    PlaceTypes /\ ThreadTypes /\ NothingAfterShutdown /\ [Next]_vars => NothingAfterShutdown'
<1> SUFFICES ASSUME PlaceTypes, ThreadTypes, NothingAfterShutdown, [Next]_vars, Moves
             PROVE NothingAfterShutdown'
  BY MovesNext
<1>0. m_isShuttingDown' => Wanted' = {}
  <2>1. CASE shutdownCancelAll
    BY <2>1, QueueAllMoves DEF shutdownCancelAll
  <2>2. CASE ~shutdownCancelAll
    <3>1. m_isShuttingDown' = m_isShuttingDown
      BY <2>2, FlagKept
    <3> QED BY <3>1 DEF Moves, NothingAfterShutdown, flagVars
  <2> QED BY <2>1, <2>2
<1> DEFINE Rest ==
       /\ procPc = "exited" => m_isShuttingDown /\ m_cancelingQueue = {}
       /\ procPc = "canceling" => cancelHandled
       /\ procPc = "handling" => queuedHandled
       /\ procPc = "handle" /\ ~cancelHandled /\ ~queuedHandled => m_cancelingQueue = {}
<1> SUFFICES Rest'
  BY <1>0 DEF NothingAfterShutdown
<1> USE DEF queueVars, flagVars, procVars, recvVars, pairVars, histVars
<1>1. ASSUME NEW d \in Directives, onDirectiveRefused(d) \/
             onDirectiveDropped(d) \/ onDirective(d) \/ CancelDirective(d) \/
             ReportIgnored(d)
      PROVE  Rest'
  BY <1>1 DEF onDirectiveRefused, onDirectiveDropped, onDirective,
     CancelDirective, ReportIgnored, NothingAfterShutdown
<1>2. CASE RouterPreHandle \/ onDirectiveUnrouted \/ onDirectiveGone \/
            onDirectiveReturn \/ Relock \/ SpuriousWakeup \/ CancelingDone \/
            enable \/ shutdownUnregister \/ shutdownJoin
  BY <1>2 DEF RouterPreHandle, onDirectiveUnrouted, onDirectiveGone,
     onDirectiveReturn, Relock, SpuriousWakeup, CancelingDone, enable,
     shutdownUnregister, shutdownJoin, NothingAfterShutdown
<1>3. CASE onDirectiveQueued
  <2>1. /\ LockFree /\ procPc' \in {procPc, "woken"}
        /\ UNCHANGED <<cancelHandled, queuedHandled>>
        /\ m_isShuttingDown => m_isShuttingDown'
    BY <1>3 DEF onDirectiveQueued, Notify
  <2> QED BY <2>1 DEF LockFree, NothingAfterShutdown, Moves
<1>4. CASE WaitForWork
  <2>1. procPc' \in {"cancel", "sleeping"}
    BY <1>4 DEF WaitForWork
  <2> QED BY <2>1
<1>5. CASE processCancelingQueueLocked
  BY <1>5 DEF processCancelingQueueLocked
<1>6. CASE handleQueuedDirectivesLocked
  <2>1. procPc' = "handling" /\ queuedHandled'
    BY <1>6 DEF handleQueuedDirectivesLocked
  <2> QED BY <2>1
<1>7. CASE HandleDirectiveSucceeded
  <2>1. procPc' = "handle" /\ queuedHandled'
    BY <1>7 DEF HandleDirectiveSucceeded, NothingAfterShutdown
  <2> QED BY <2>1
<1>8. CASE HandleDirectiveFailed
  <2>1. procPc' = "handle" /\ queuedHandled'
    BY <1>8 DEF HandleDirectiveFailed, NothingAfterShutdown
  <2> QED BY <2>1
<1>9. CASE RoundDone
  <2>1. /\ procPc = "handle" /\ UNCHANGED <<m_isShuttingDown, m_cancelingQueue>>
        /\ procPc' \in {"cancel", "exited", "check"}
        /\ procPc' = "exited" => m_isShuttingDown /\ ~cancelHandled /\ ~queuedHandled
    BY <1>9 DEF RoundDone
  <2> QED BY <2>1 DEF NothingAfterShutdown
<1>10. ASSUME NEW d \in Directives, setCompleted(d) PROVE Rest'
  <2>1. /\ LockFree /\ procPc' \in {procPc, "woken"}
        /\ UNCHANGED <<cancelHandled, queuedHandled>>
        /\ m_isShuttingDown => m_isShuttingDown'
    BY <1>10 DEF setCompleted, Notify
  <2> QED BY <2>1 DEF LockFree, NothingAfterShutdown, Moves
<1>11. ASSUME NEW d \in Directives, setFailed(d) PROVE Rest'
  <2>1. /\ LockFree /\ procPc' \in {procPc, "woken"}
        /\ UNCHANGED <<cancelHandled, queuedHandled>>
        /\ m_isShuttingDown => m_isShuttingDown'
    BY <1>11 DEF setFailed, Notify
  <2> QED BY <2>1 DEF LockFree, NothingAfterShutdown, Moves
<1>12. ASSUME NEW id \in DialogIds \cup {NoId}, setDialogRequestId(id) PROVE Rest'
  <2>1. /\ LockFree /\ procPc' \in {procPc, "woken"}
        /\ UNCHANGED <<cancelHandled, queuedHandled>>
        /\ m_isShuttingDown => m_isShuttingDown'
    BY <1>12 DEF setDialogRequestId, Notify
  <2> QED BY <2>1 DEF LockFree, NothingAfterShutdown, Moves
<1>13. CASE disable
  <2>1. /\ LockFree /\ procPc' \in {procPc, "woken"}
        /\ UNCHANGED <<cancelHandled, queuedHandled>>
        /\ m_isShuttingDown => m_isShuttingDown'
    BY <1>13 DEF disable, Notify
  <2> QED BY <2>1 DEF LockFree, NothingAfterShutdown, Moves
<1>14. CASE shutdownCancelAll
  <2>1. /\ LockFree /\ procPc' \in {procPc, "woken"}
        /\ UNCHANGED <<cancelHandled, queuedHandled>>
        /\ m_isShuttingDown => m_isShuttingDown'
    BY <1>14 DEF shutdownCancelAll, Notify
  <2> QED BY <2>1 DEF LockFree, NothingAfterShutdown, Moves
<1>15. CASE UNCHANGED vars
  BY <1>15 DEF vars, NothingAfterShutdown
<1> QED
  BY <1>1, <1>2, <1>3, <1>4, <1>5, <1>6, <1>7, <1>8, <1>9, <1>10, <1>11, <1>12,
     <1>13, <1>14, <1>15
  DEF Next, Receiving, Processing, Reports, Shutdown

\* When the processing thread has ended, everything that came in has been
\* completed or cancelled, and no handler is left at work on a medium.
THEOREM ExitSafety == Spec => []CleanExit
<1>1. Init => NothingAfterShutdown
  BY DEF Init, NothingAfterShutdown
<1>2. TypeOK /\ NothingAfterShutdown /\ [Next]_vars => NothingAfterShutdown'
  BY NothingAfterShutdownNext DEF TypeOK
<1>3. TypeOK /\ Held /\ NothingAfterShutdown => CleanExit
  <2> SUFFICES ASSUME PlaceTypes, MediumsHeld, NothingAfterShutdown, procPc = "exited"
               PROVE  /\ Wanted = {} /\ Doomed = {}
                      /\ \A d \in engaged : Mediums(d) = {}
    BY DEF TypeOK, Held, CleanExit
  <2>1. Wanted = {} /\ Doomed = {}
    BY DEF NothingAfterShutdown, MediumsHeld, Doomed
  <2>2. ASSUME NEW d \in engaged, NEW m \in Mediums(d) PROVE FALSE
    <3>1. m \in Medium /\ d \in Directives
      BY DEF PlaceTypes, Mediums, Policy
    <3>2. m_directivesBeingHandled[m] = d
      BY <2>1 DEF MediumsHeld
    <3>3. d \in Occupants(m_directivesBeingHandled)
      BY <3>1, <3>2 DEF Occupants
    <3> QED BY <2>1, <3>1, <3>3 DEF Wanted
  <2> QED BY <2>1, <2>2
<1> QED BY <1>1, <1>2, <1>3, HeldAlways, PTL DEF Spec

-----------------------------------------------------------------------------
(* The life of a directive *)

\* A directive that occupies a medium occupies those of its policy and no others.
Seated ==
    \A e \in Occupants(m_directivesBeingHandled), n \in Medium :
        m_directivesBeingHandled[n] = e <=> n \in Mediums(e)

\* Taking whole directives out of the slots leaves the others seated.
LEMMA SeatedWithout ==
    ASSUME PlaceTypes, Seated, NEW S, NEW slots \in [Medium -> Directives \cup {NoDirective}],
           \A n \in Medium : slots[n] # NoDirective => slots[n] = m_directivesBeingHandled[n],
           \A e \in Occupants(slots), n \in Medium : slots[n] = e <=> n \in Mediums(e),
           m_directivesBeingHandled' = Without(slots, S), policy' = policy
    PROVE  Seated'
<1> SUFFICES ASSUME NEW e \in Occupants(m_directivesBeingHandled'), NEW n \in Medium
             PROVE  m_directivesBeingHandled'[n] = e <=> n \in Mediums(e)'
  BY DEF Seated
<1>1. \A k \in Medium : m_directivesBeingHandled'[k] =
                          IF slots[k] \in S THEN NoDirective ELSE slots[k]
  BY DEF Without
<1>2. PICK k \in Medium : m_directivesBeingHandled'[k] = e /\ e # NoDirective
  BY DEF Occupants
<1>3. slots[k] = e /\ e \notin S /\ e \in Occupants(slots)
  BY <1>1, <1>2 DEF Occupants
<1>4. m_directivesBeingHandled'[n] = e <=> slots[n] = e
  BY <1>1, <1>2, <1>3
<1> QED BY <1>3, <1>4 DEF Mediums

\* The slots after clearDirectiveBeingHandledLocked hold whole directives, and no
\* longer the one whose handler has returned.
LEMMA SeatedAfterClear ==
    ASSUME PlaceTypes, ThreadTypes, MediumsHeld, Seated, procPc = "handling"
    PROVE  LET slots == SlotsAfterClear(current) IN
           /\ slots \in [Medium -> Directives \cup {NoDirective}]
           /\ \A n \in Medium : slots[n] # NoDirective => slots[n] = m_directivesBeingHandled[n]
           /\ \A e \in Occupants(slots), n \in Medium : slots[n] = e <=> n \in Mediums(e)
           /\ Occupants(slots) = Occupants(m_directivesBeingHandled) \ {current}
<1> DEFINE slots == SlotsAfterClear(current)
           old == m_directivesBeingHandled
<1>1. /\ slots \in [Medium -> Directives \cup {NoDirective}]
      /\ \A n \in Medium : slots[n] = IF n \in Mediums(current) THEN NoDirective ELSE old[n]
  BY DEF SlotsAfterClear, PlaceTypes
<1>2. current \in Directives /\ Mediums(current) \subseteq Medium
  BY DEF ThreadTypes, PlaceTypes, Mediums, Policy
<1>3. \A n \in Mediums(current) : old[n] \in {current, NoDirective}
  BY DEF MediumsHeld
<1>4. \A n \in Medium : old[n] = current => n \in Mediums(current)
  BY <1>2 DEF Seated, Occupants
<1>5. \A n \in Medium : slots[n] # current
  BY <1>1, <1>2, <1>4
<1>6. \A n \in Medium, e \in Directives \ {current} : slots[n] = e <=> old[n] = e
  BY <1>1, <1>3
<1>7. Occupants(slots) = Occupants(old) \ {current}
  <2>1. Occupants(slots) \subseteq Directives /\ Occupants(old) \subseteq Directives
    BY <1>1 DEF Occupants, PlaceTypes
  <2>2. \A e \in Directives \ {current} : e \in Occupants(slots) <=> e \in Occupants(old)
    BY <1>6 DEF Occupants
  <2>3. current \notin Occupants(slots)
    BY <1>5 DEF Occupants
  <2> QED BY <2>1, <2>2, <2>3
<1>8. \A e \in Occupants(slots), n \in Medium : slots[n] = e <=> n \in Mediums(e)
  <2>1. Occupants(slots) \subseteq Directives \ {current}
    BY <1>1, <1>5 DEF Occupants
  <2> QED BY <1>6, <1>7, <2>1 DEF Seated
<1>9. \A n \in Medium : slots[n] # NoDirective => slots[n] = old[n]
  BY <1>1
<1> QED BY <1>1, <1>7, <1>8, <1>9

\* The directives of S go to m_cancelingQueue and those of L leave; nothing else moves.
Parted(S, L) ==
    /\ S \subseteq Wanted /\ L \subseteq Wanted \cup m_cancelingQueue
    /\ S \cap L = {} /\ \A d, e \in L : d = e
    /\ m_directiveBeingPreHandled' = IF m_directiveBeingPreHandled \in S \cup L THEN NoDirective
                                     ELSE m_directiveBeingPreHandled
    /\ m_handlingQueue' = m_handlingQueue \ (S \cup L)
    /\ Occupants(m_directivesBeingHandled') = Occupants(m_directivesBeingHandled) \ (S \cup L)
    /\ m_cancelingQueue' = (m_cancelingQueue \ L) \cup S
    /\ Seated'
    /\ UNCHANGED <<batch, cancelled, delivered, policy>>

\* Where the parted directives are in the abstract life cycle.
LEMMA PartedIsCondemn ==
    ASSUME PlaceTypes, Received, OnePlace, NEW S, NEW L, Parted(S, L)
    PROVE  Lifecycle!Condemn(S, L) /\ S \in SUBSET Directives /\ L \in SUBSET Directives
<1>1. /\ S \subseteq Directives /\ L \subseteq Directives
      /\ Wanted \subseteq Directives /\ m_cancelingQueue \subseteq Directives
  BY DEF Parted, Wanted, Occupants, PlaceTypes
<1>2. \A d \in Wanted : StageOf(d) \in Lifecycle!Alive
  BY DEF OnePlace, Received, Wanted, StageOf, Lifecycle!Alive
<1>3. \A d \in m_cancelingQueue : StageOf(d) = "condemned" /\ d \notin batch
  BY DEF OnePlace, Received, Doomed, StageOf
<1>4. ASSUME NEW d \in Directives
      PROVE  StageOf(d)' = IF d \in S THEN "condemned" ELSE IF d \in L THEN "left" ELSE StageOf(d)
  <2>1. d # NoDirective
    OBVIOUS
  <2>2. CASE d \in S
    <3>1. d \in delivered /\ d \notin cancelled
      BY <2>2 DEF Parted, OnePlace, Received
    <3> QED BY <2>2, <3>1 DEF Parted, StageOf, Doomed
  <2>3. CASE d \in L
    <3>1. d \in delivered /\ d \notin cancelled /\ d \notin batch /\ d \notin S
      BY <2>3 DEF Parted, OnePlace, Received, Doomed
    <3>2. d \notin m_cancelingQueue' \cup batch'
      BY <2>3, <3>1 DEF Parted
    <3>3. /\ d # m_directiveBeingPreHandled' /\ d \notin m_handlingQueue'
          /\ d \notin Occupants(m_directivesBeingHandled')
      BY <2>1, <2>3 DEF Parted
    <3> QED BY <2>3, <3>1, <3>2, <3>3 DEF Parted, StageOf, Doomed
  <2>4. CASE d \notin S \cup L
    <3>1. d \in m_cancelingQueue' \cup batch' <=> d \in Doomed
      BY <2>4 DEF Parted, Doomed
    <3>2. /\ d = m_directiveBeingPreHandled' <=> d = m_directiveBeingPreHandled
          /\ d \in m_handlingQueue' <=> d \in m_handlingQueue
          /\ d \in Occupants(m_directivesBeingHandled') <=> d \in Occupants(m_directivesBeingHandled)
      BY <2>1, <2>4 DEF Parted
    <3> QED BY <2>4, <3>1, <3>2 DEF Parted, StageOf, Doomed
  <2> QED BY <2>2, <2>3, <2>4
<1>5. \A d \in Directives : Mediums(d)' = Mediums(d)
  BY DEF Parted, Mediums
<1>6. /\ \A d \in S : StageOf(d) \in Lifecycle!Alive
      /\ \A d \in L : StageOf(d) \in Lifecycle!Alive \cup {"condemned"}
  BY <1>2, <1>3 DEF Parted
<1> QED BY <1>1, <1>4, <1>5, <1>6 DEF Parted, Lifecycle!Condemn

\* A step that changes no place is a stutter, and keeps the seats.
LEMMA Unmoved ==
    ASSUME Seated,
           UNCHANGED <<m_directiveBeingPreHandled, m_handlingQueue, m_directivesBeingHandled,
                       Doomed, cancelled, delivered, policy>>
    PROVE  UNCHANGED Lifecycle!vars /\ Seated'
<1>1. \A d \in Directives : StageOf(d)' = StageOf(d) /\ Mediums(d)' = Mediums(d)
  BY DEF StageOf, Mediums
<1>2. Seated'
  BY DEF Seated, Mediums
<1> QED BY <1>1, <1>2 DEF Lifecycle!vars

\* A step is one of the life cycle's, or changes nothing of it.
LivesOn == [Lifecycle!Next]_(Lifecycle!vars) /\ Seated'

\* A step that condemns the directives in S and drops those in L is Condemn of the
\* abstract specification.
LEMMA PartedLivesOn ==
    ASSUME PlaceTypes, Received, OnePlace, NEW S, NEW L, Parted(S, L)
    PROVE  LivesOn
<1>1. Lifecycle!Condemn(S, L) /\ S \in SUBSET Directives /\ L \in SUBSET Directives
  BY PartedIsCondemn
<1>2. Lifecycle!Next
  BY <1>1 DEF Lifecycle!Next
<1>3. Seated'
  BY DEF Parted
<1> QED BY <1>2, <1>3 DEF LivesOn

\* A scrub parts the directives it moves, and the one that was taken out before it.
LEMMA ScrubParts ==
    ASSUME PlaceTypes, OnePlace, Seated, NEW id, NEW L,
           L \subseteq Wanted \cup m_cancelingQueue, \A d, e \in L : d = e,
           NEW pre, pre = IF m_directiveBeingPreHandled \in L THEN NoDirective
                          ELSE m_directiveBeingPreHandled,
           NEW slots \in [Medium -> Directives \cup {NoDirective}],
           Occupants(slots) = Occupants(m_directivesBeingHandled) \ L,
           \A n \in Medium : slots[n] # NoDirective => slots[n] = m_directivesBeingHandled[n],
           \A e \in Occupants(slots), n \in Medium : slots[n] = e <=> n \in Mediums(e),
           scrubDialogRequestIdLocked(id, pre, slots, m_handlingQueue \ L, m_cancelingQueue \ L),
           UNCHANGED <<batch, cancelled, delivered, policy>>
    PROVE  Parted(ScrubSet(id, pre, slots, m_handlingQueue \ L), L)
<1> DEFINE S == ScrubSet(id, pre, slots, m_handlingQueue \ L)
<1>1. S \subseteq Wanted /\ S \cap L = {} /\ NoDirective \notin S
  BY DEF ScrubSet, Wanted, PlaceTypes
<1>2. Occupants(m_directivesBeingHandled') = Occupants(slots) \ S
  BY OccupantsWithout DEF scrubDialogRequestIdLocked
<1>3. Seated'
  BY SeatedWithout DEF scrubDialogRequestIdLocked
<1>4. m_directiveBeingPreHandled' = IF m_directiveBeingPreHandled \in S \cup L THEN NoDirective
                                    ELSE m_directiveBeingPreHandled
  BY <1>1 DEF scrubDialogRequestIdLocked
<1> QED BY <1>1, <1>2, <1>3, <1>4 DEF scrubDialogRequestIdLocked, Parted

\* queueAllDirectivesForCancellationLocked parts all that was wanted.
LEMMA QueueAllParts ==
    ASSUME PlaceTypes, queueAllDirectivesForCancellationLocked,
           UNCHANGED <<batch, cancelled, delivered, policy>>
    PROVE  Parted(Wanted, {})
<1>1. Wanted' = {} /\ m_cancelingQueue' = m_cancelingQueue \cup Wanted
  BY QueueAllMoves
<1>2. Occupants(m_directivesBeingHandled') = {} /\ m_handlingQueue' = {}
      /\ m_directiveBeingPreHandled' = NoDirective
  BY DEF queueAllDirectivesForCancellationLocked, Occupants
<1>3. Seated'
  BY <1>2 DEF Seated
<1>4. /\ m_handlingQueue \subseteq Wanted /\ Occupants(m_directivesBeingHandled) \subseteq Wanted
      /\ m_directiveBeingPreHandled \in Wanted \/ m_directiveBeingPreHandled = NoDirective
  BY DEF Wanted, Occupants, PlaceTypes
<1> QED BY <1>1, <1>2, <1>3, <1>4 DEF Parted

\* The handler of d has reported, and d is taken out of its place.
LEMMA RemovalParts ==
    ASSUME PlaceTypes, OnePlace, Seated, NEW d \in Directives
    PROVE  LET L == {d} \cap (Wanted \cup m_cancelingQueue)
               slots == Without(m_directivesBeingHandled, {d})
           IN  /\ m_handlingQueue \ {d} = m_handlingQueue \ L
               /\ m_cancelingQueue \ {d} = m_cancelingQueue \ L
               /\ m_directiveBeingPreHandled = d <=> m_directiveBeingPreHandled \in L
               /\ slots \in [Medium -> Directives \cup {NoDirective}]
               /\ Occupants(slots) = Occupants(m_directivesBeingHandled) \ L
               /\ \A n \in Medium :
                     slots[n] # NoDirective => slots[n] = m_directivesBeingHandled[n]
               /\ \A e \in Occupants(slots), n \in Medium : slots[n] = e <=> n \in Mediums(e)
<1> DEFINE L == {d} \cap (Wanted \cup m_cancelingQueue)
           slots == Without(m_directivesBeingHandled, {d})
<1>1. d # NoDirective
  OBVIOUS
<1>2. /\ m_handlingQueue \ {d} = m_handlingQueue \ L
      /\ m_cancelingQueue \ {d} = m_cancelingQueue \ L
      /\ m_directiveBeingPreHandled = d <=> m_directiveBeingPreHandled \in L
  BY <1>1 DEF Wanted
<1>3. /\ slots \in [Medium -> Directives \cup {NoDirective}]
      /\ Occupants(slots) = Occupants(m_directivesBeingHandled) \ {d}
  BY WithoutType, OccupantsWithout DEF PlaceTypes
<1>4. Occupants(slots) = Occupants(m_directivesBeingHandled) \ L
  BY <1>1, <1>3 DEF Wanted
<1>5. \A n \in Medium : slots[n] = IF m_directivesBeingHandled[n] = d THEN NoDirective
                                   ELSE m_directivesBeingHandled[n]
  BY DEF Without
<1>6. ASSUME NEW e \in Occupants(slots), NEW n \in Medium PROVE slots[n] = e <=> n \in Mediums(e)
  <2>1. e \in Occupants(m_directivesBeingHandled) /\ e # d /\ e # NoDirective
    BY <1>3 DEF Occupants
  <2> QED BY <1>5, <2>1 DEF Seated
<1> QED BY <1>2, <1>3, <1>4, <1>5, <1>6

\* Every step of the processor is a step in the life of its directives.
LEMMA LifecycleNext ==
    TypeOK /\ Held /\ Seated /\ [Next]_vars => LivesOn
<1> SUFFICES ASSUME PlaceTypes, ThreadTypes, Received, OnePlace, MediumsHeld, Seated, [Next]_vars
             PROVE  LivesOn
  BY DEF TypeOK, Held
<1> USE DEF queueVars, flagVars, procVars, recvVars, pairVars, histVars
<1>1. ASSUME UNCHANGED <<m_directiveBeingPreHandled, m_handlingQueue, m_directivesBeingHandled,
                         Doomed, cancelled, delivered, policy>>
      PROVE  LivesOn
  BY <1>1, Unmoved DEF LivesOn
<1>2. CASE RouterPreHandle \/ onDirectiveGone \/ onDirectiveReturn \/ Relock \/
           SpuriousWakeup \/ WaitForWork \/ CancelingDone \/ RoundDone \/ enable \/
           shutdownUnregister \/ shutdownJoin
  BY <1>1, <1>2 DEF RouterPreHandle, onDirectiveGone, onDirectiveReturn, Relock,
     SpuriousWakeup, WaitForWork, CancelingDone, RoundDone, enable, shutdownUnregister,
     shutdownJoin, Doomed
<1>3. CASE processCancelingQueueLocked
  <2>1. batch = {}
    BY <1>3 DEF processCancelingQueueLocked, MediumsHeld
  <2> QED BY <1>1, <1>3, <2>1 DEF processCancelingQueueLocked, Doomed
<1>4. ASSUME NEW d \in Directives, ReportIgnored(d) PROVE LivesOn
  BY <1>1, <1>4 DEF ReportIgnored, Doomed
<1>5. ASSUME NEW d \in Directives,
             onDirectiveRefused(d) \/ onDirectiveDropped(d) \/ onDirective(d)
      PROVE  LivesOn
  <2>1. /\ d \notin delivered /\ delivered' = delivered \cup {d} /\ d # NoDirective
        /\ UNCHANGED <<m_handlingQueue, m_directivesBeingHandled, m_cancelingQueue, batch, cancelled>>
    BY <1>5 DEF onDirectiveRefused, onDirectiveDropped, onDirective
  <2>2. \/ m_directiveBeingPreHandled' = m_directiveBeingPreHandled /\ policy' = policy
        \/ m_directiveBeingPreHandled = NoDirective /\ m_directiveBeingPreHandled' = d
    BY <1>5 DEF onDirectiveRefused, onDirectiveDropped, onDirective, ThreadTypes
  <2>3. \A e \in Directives \ {d} : policy'[e] = policy[e]
    BY <1>5 DEF onDirectiveRefused, onDirectiveDropped, onDirective, PlaceTypes
  <2>4. policy' \in [Directives -> Policy]
    BY <1>5, PoliciesAssumption DEF onDirectiveRefused, onDirectiveDropped, onDirective, PlaceTypes
  <2>5. d \notin Wanted \cup Doomed \cup cancelled
    BY <2>1 DEF Received
  <2>6. \A e \in Directives \ {d} : StageOf(e)' = StageOf(e) /\ Mediums(e)' = Mediums(e)
    BY <2>1, <2>2, <2>3 DEF StageOf, Mediums, Doomed
  <2>7. StageOf(d) = "expected" /\ StageOf(d)' \in {"preHandling", "left"}
    BY <2>1, <2>2, <2>5 DEF StageOf, Wanted, Doomed
  <2>8. Mediums(d)' \in SUBSET Medium
    BY <2>4 DEF Mediums, Policy
  <2>9. Lifecycle!Receive(d)
    BY <2>6, <2>7, <2>8 DEF Lifecycle!Receive
  <2>10. Seated'
    <3>1. Occupants(m_directivesBeingHandled) \subseteq Directives \ {d}
      BY <2>5 DEF Wanted, Occupants, PlaceTypes
    <3> QED BY <2>1, <2>3, <3>1 DEF Seated, Mediums
  <2> QED BY <2>9, <2>10 DEF LivesOn, Lifecycle!Next
<1>6. CASE onDirectiveUnrouted
  <2> DEFINE L == {m_directiveBeingPreHandled} \ {NoDirective}
  <2>1. Parted({}, L)
    <3>1. L \subseteq Wanted /\ m_handlingQueue \cap L = {} /\ m_cancelingQueue \cap L = {}
          /\ Occupants(m_directivesBeingHandled) \cap L = {}
      BY DEF OnePlace, Wanted, Doomed
    <3>2. Seated'
      BY <1>6 DEF onDirectiveUnrouted, Seated, Mediums
    <3> QED BY <1>6, <3>1, <3>2 DEF onDirectiveUnrouted, Parted
  <2> QED BY <2>1, PartedLivesOn
<1>7. CASE onDirectiveQueued
  <2>1. PICK d \in Directives :
        /\ m_directiveBeingPreHandled = d
        /\ m_directiveBeingPreHandled' = NoDirective
        /\ m_handlingQueue' = m_handlingQueue \cup {d}
        /\ UNCHANGED <<m_directivesBeingHandled, m_cancelingQueue, batch, cancelled, delivered, policy>>
    BY <1>7 DEF onDirectiveQueued, ThreadTypes
  <2>2. d \in delivered /\ d \notin cancelled /\ d \notin Doomed /\ d \in Wanted
    BY <2>1 DEF OnePlace, Received, Wanted
  <2>3. StageOf(d) = "preHandling" /\ StageOf(d)' = "queued"
    BY <2>1, <2>2 DEF StageOf, Doomed
  <2>4. \A e \in Directives \ {d} : StageOf(e)' = StageOf(e)
    BY <2>1 DEF StageOf, Doomed
  <2>5. \A e \in Directives : Mediums(e)' = Mediums(e)
    BY <2>1 DEF Mediums
  <2>6. Lifecycle!Queue(d)
    BY <2>1, <2>3, <2>4, <2>5 DEF Lifecycle!Queue
  <2>7. Seated'
    BY <2>1 DEF Seated, Mediums
  <2> QED BY <2>1, <2>6, <2>7 DEF LivesOn, Lifecycle!Next
<1>8. ASSUME NEW d \in Directives, CancelDirective(d) PROVE LivesOn
  <2>1. /\ d \in batch /\ batch' = batch \ {d} /\ cancelled' = cancelled \cup {d}
        /\ UNCHANGED <<m_directiveBeingPreHandled, m_handlingQueue, m_directivesBeingHandled,
                       m_cancelingQueue, delivered, policy>>
    BY <1>8 DEF CancelDirective
  <2>2. d \in delivered /\ d \notin cancelled
    BY <2>1 DEF OnePlace, Received, Doomed
  <2>3. StageOf(d) = "condemned" /\ StageOf(d)' = "cancelled"
    BY <2>1, <2>2 DEF StageOf, Doomed
  <2>4. \A e \in Directives \ {d} : StageOf(e)' = StageOf(e)
    BY <2>1 DEF StageOf, Doomed
  <2>5. \A e \in Directives : Mediums(e)' = Mediums(e)
    BY <2>1 DEF Mediums
  <2>6. Lifecycle!Cancel(d)
    BY <2>3, <2>4, <2>5 DEF Lifecycle!Cancel
  <2>7. Seated'
    BY <2>1 DEF Seated, Mediums
  <2> QED BY <2>6, <2>7 DEF LivesOn, Lifecycle!Next
<1>9. CASE handleQueuedDirectivesLocked
  <2> DEFINE old == m_directivesBeingHandled
  <2>1. PICK d \in m_handlingQueue :
          /\ ~Blocked(d)
          /\ m_directivesBeingHandled' = [n \in Medium |-> IF n \in Mediums(d) THEN d ELSE old[n]]
          /\ m_handlingQueue' = m_handlingQueue \ {d}
    BY <1>9 DEF handleQueuedDirectivesLocked, getNextUnblockedDirectiveLocked
  <2>2. UNCHANGED <<m_directiveBeingPreHandled, m_cancelingQueue, batch, cancelled, delivered, policy>>
    BY <1>9 DEF handleQueuedDirectivesLocked
  <2>3. d \in Directives /\ Mediums(d) \subseteq Medium /\ d # NoDirective
    BY DEF PlaceTypes, Mediums, Policy
  <2>4. \A n \in Mediums(d) : old[n] = NoDirective
    BY <2>1, <2>3 DEF Blocked, blockedMediums
  <2>5. d \in Wanted /\ d \in delivered /\ d \notin Doomed \cup cancelled \cup Occupants(old)
        /\ d # m_directiveBeingPreHandled
    BY <2>3 DEF OnePlace, Received, Wanted
  <2>6. \A n \in Medium : m_directivesBeingHandled'[n] = IF n \in Mediums(d) THEN d ELSE old[n]
    BY <2>1
  <2>7. \A e \in Directives \ {d}, n \in Medium : m_directivesBeingHandled'[n] = e <=> old[n] = e
    BY <2>4, <2>6
  <2>8. \A e \in Directives \ {d} :
           e \in Occupants(m_directivesBeingHandled') <=> e \in Occupants(old)
    BY <2>7 DEF Occupants
  <2>9. d \in Occupants(m_directivesBeingHandled') <=> Mediums(d) # {}
    <3>1. \A n \in Medium : old[n] # d
      BY <2>3, <2>5 DEF Occupants
    <3> QED BY <2>3, <2>6, <3>1 DEF Occupants
  <2>10. \A e \in Directives \ {d} : StageOf(e)' = StageOf(e)
    BY <2>1, <2>2, <2>8 DEF StageOf, Doomed
  <2>11. /\ StageOf(d) = "queued"
         /\ StageOf(d)' = IF Mediums(d) = {} THEN "left" ELSE "handling"
    BY <2>1, <2>2, <2>5, <2>9 DEF StageOf, Doomed
  <2>12. ASSUME NEW e \in Directives, StageOf(e) = "handling" PROVE Mediums(d) \cap Mediums(e) = {}
    <3>1. e \in Occupants(old)
      BY <2>12 DEF StageOf
    <3>2. \A n \in Mediums(e) : n \in Medium => old[n] = e
      BY <3>1 DEF Seated
    <3> QED BY <2>3, <2>4, <2>12, <3>2
  <2>13. \A e \in Directives : Mediums(e)' = Mediums(e)
    BY <2>2 DEF Mediums
  <2>14. Lifecycle!Start(d)
    BY <2>3, <2>10, <2>11, <2>12, <2>13 DEF Lifecycle!Start, Lifecycle!Handling
  <2>15. Seated'
    <3> SUFFICES ASSUME NEW e \in Occupants(m_directivesBeingHandled'), NEW n \in Medium
                 PROVE  m_directivesBeingHandled'[n] = e <=> n \in Mediums(e)
      BY <2>2 DEF Seated, Mediums
    <3>1. e \in Directives
      BY <2>3, <2>6 DEF Occupants, PlaceTypes
    <3>2. CASE e = d
      BY <2>3, <2>5, <2>6, <3>2 DEF Occupants
    <3>3. CASE e # d
      BY <2>7, <2>8, <3>1, <3>3 DEF Seated
    <3> QED BY <3>2, <3>3
  <2> QED BY <2>3, <2>14, <2>15 DEF LivesOn, Lifecycle!Next
<1>10. CASE HandleDirectiveSucceeded
  <2>1. CASE KeepsMediums(current)
    BY <1>1, <1>10, <2>1 DEF HandleDirectiveSucceeded, Doomed
  <2>2. CASE ~KeepsMediums(current)
    <3> DEFINE L == {current} \cap Occupants(m_directivesBeingHandled)
    <3>1. /\ procPc = "handling" /\ m_directivesBeingHandled' = SlotsAfterClear(current)
          /\ UNCHANGED <<m_directiveBeingPreHandled, m_handlingQueue, m_cancelingQueue, batch,
                         cancelled, delivered, policy>>
      BY <1>10, <2>2 DEF HandleDirectiveSucceeded
    <3>2. /\ Occupants(m_directivesBeingHandled') = Occupants(m_directivesBeingHandled) \ {current}
          /\ \A e \in Occupants(m_directivesBeingHandled'), n \in Medium :
                m_directivesBeingHandled'[n] = e <=> n \in Mediums(e)
      BY <3>1, SeatedAfterClear
    <3>3. Seated'
      BY <3>1, <3>2 DEF Seated, Mediums
    <3>4. /\ L \subseteq Wanted /\ L \cap m_handlingQueue = {} /\ L \cap m_cancelingQueue = {}
          /\ m_directiveBeingPreHandled \notin L
      BY DEF OnePlace, Wanted, Doomed, Occupants
    <3>5. Parted({}, L)
      BY <3>1, <3>2, <3>3, <3>4 DEF Parted
    <3> QED BY <3>5, PartedLivesOn
  <2> QED BY <2>1, <2>2
<1>11. CASE HandleDirectiveFailed
  <2> DEFINE L == {current} \cap Occupants(m_directivesBeingHandled)
             slots == SlotsAfterClear(current)
  <2>1. /\ procPc = "handling"
        /\ scrubDialogRequestIdLocked(IdOf[current], m_directiveBeingPreHandled, slots,
              m_handlingQueue, m_cancelingQueue)
        /\ UNCHANGED <<batch, cancelled, delivered, policy>>
    BY <1>11 DEF HandleDirectiveFailed
  <2>2. /\ slots \in [Medium -> Directives \cup {NoDirective}]
        /\ \A n \in Medium : slots[n] # NoDirective => slots[n] = m_directivesBeingHandled[n]
        /\ \A e \in Occupants(slots), n \in Medium : slots[n] = e <=> n \in Mediums(e)
        /\ Occupants(slots) = Occupants(m_directivesBeingHandled) \ L
    BY <2>1, SeatedAfterClear
  <2>3. /\ L \subseteq Wanted /\ m_handlingQueue \ L = m_handlingQueue
        /\ m_cancelingQueue \ L = m_cancelingQueue /\ m_directiveBeingPreHandled \notin L
    BY DEF OnePlace, Wanted, Doomed, Occupants
  <2> HIDE DEF slots, L
  <2>4. \A d, e \in L : d = e
    BY DEF L
  <2>5. scrubDialogRequestIdLocked(IdOf[current], m_directiveBeingPreHandled, slots,
            m_handlingQueue \ L, m_cancelingQueue \ L)
    BY <2>1, <2>3
  <2>6. \E S : Parted(S, L)
    BY <2>1, <2>2, <2>3, <2>4, <2>5, ScrubParts
  <2> QED BY <2>6, PartedLivesOn
<1>12. ASSUME NEW d \in Directives, setCompleted(d) PROVE LivesOn
  <2> DEFINE L == {d} \cap (Wanted \cup m_cancelingQueue)
  <2>1. /\ m_cancelingQueue' = m_cancelingQueue \ {d}
        /\ m_directiveBeingPreHandled' = IF m_directiveBeingPreHandled = d THEN NoDirective
                                         ELSE m_directiveBeingPreHandled
        /\ m_handlingQueue' = m_handlingQueue \ {d}
        /\ m_directivesBeingHandled' = Without(m_directivesBeingHandled, {d})
        /\ UNCHANGED <<batch, cancelled, delivered, policy>>
    BY <1>12 DEF setCompleted
  <2>2. Seated'
    BY <2>1, RemovalParts DEF Seated, Mediums
  <2>3. Parted({}, L)
    BY <2>1, <2>2, RemovalParts DEF Parted
  <2> QED BY <2>3, PartedLivesOn
<1>13. ASSUME NEW d \in Directives, setFailed(d) PROVE LivesOn
  <2> DEFINE L == {d} \cap (Wanted \cup m_cancelingQueue)
             pre == IF m_directiveBeingPreHandled = d THEN NoDirective
                    ELSE m_directiveBeingPreHandled
             slots == Without(m_directivesBeingHandled, {d})
  <2>1. /\ scrubDialogRequestIdLocked(IdOf[d], pre, slots, m_handlingQueue \ {d},
              m_cancelingQueue \ {d})
        /\ UNCHANGED <<batch, cancelled, delivered, policy>>
    BY <1>13 DEF setFailed
  <2>2. /\ m_handlingQueue \ {d} = m_handlingQueue \ L
        /\ m_cancelingQueue \ {d} = m_cancelingQueue \ L
        /\ m_directiveBeingPreHandled = d <=> m_directiveBeingPreHandled \in L
        /\ slots \in [Medium -> Directives \cup {NoDirective}]
        /\ Occupants(slots) = Occupants(m_directivesBeingHandled) \ L
        /\ \A n \in Medium : slots[n] # NoDirective => slots[n] = m_directivesBeingHandled[n]
        /\ \A e \in Occupants(slots), n \in Medium : slots[n] = e <=> n \in Mediums(e)
    BY RemovalParts
  <2>3. L \subseteq Wanted \cup m_cancelingQueue /\ \A e, f \in L : e = f
    OBVIOUS
  <2> HIDE DEF slots, L
  <2>4. pre = IF m_directiveBeingPreHandled \in L THEN NoDirective ELSE m_directiveBeingPreHandled
    BY <2>2
  <2> HIDE DEF pre
  <2>5. \E S : Parted(S, L)
    BY <2>1, <2>2, <2>3, <2>4, ScrubParts
  <2> QED BY <2>5, PartedLivesOn
<1>14. ASSUME NEW id \in DialogIds \cup {NoId}, setDialogRequestId(id) PROVE LivesOn
  <2> DEFINE slots == m_directivesBeingHandled
  <2>1. /\ scrubDialogRequestIdLocked(m_dialogRequestId, m_directiveBeingPreHandled, slots,
              m_handlingQueue \ {}, m_cancelingQueue \ {})
        /\ UNCHANGED <<batch, cancelled, delivered, policy>>
    BY <1>14 DEF setDialogRequestId
  <2>2. /\ slots \in [Medium -> Directives \cup {NoDirective}]
        /\ Occupants(slots) = Occupants(m_directivesBeingHandled) \ {}
        /\ \A e \in Occupants(slots), n \in Medium : slots[n] = e <=> n \in Mediums(e)
    BY DEF PlaceTypes, Seated
  <2>3. \E S : Parted(S, {})
    BY <2>1, <2>2, ScrubParts
  <2> QED BY <2>3, PartedLivesOn
<1>15. CASE disable \/ shutdownCancelAll
  <2>1. queueAllDirectivesForCancellationLocked /\ UNCHANGED <<batch, cancelled, delivered, policy>>
    BY <1>15 DEF disable, shutdownCancelAll
  <2> QED BY <2>1, QueueAllParts, PartedLivesOn
<1>16. CASE UNCHANGED vars
  BY <1>1, <1>16 DEF vars, Doomed
<1> QED
  BY <1>2, <1>3, <1>4, <1>5, <1>6, <1>7, <1>8, <1>9, <1>10, <1>11, <1>12, <1>13, <1>14,
     <1>15, <1>16
  DEF Next, Receiving, Processing, Reports, Shutdown

\* In the beginning every directive is expected.
LEMMA LifecycleInit == Init => Lifecycle!Init /\ Seated
<1> SUFFICES ASSUME Init PROVE Lifecycle!Init /\ Seated
  OBVIOUS
<1>1. \A d \in Directives : StageOf(d) = "expected" /\ Mediums(d) = {}
  BY DEF Init, StageOf, Mediums, DefaultPolicy
<1>2. Occupants(m_directivesBeingHandled) = {}
  BY DEF Init, Occupants
<1> QED BY <1>1, <1>2 DEF Lifecycle!Init, Seated

\* The processor implements the life cycle: for any directives, policies and dialogs,
\* whatever its threads, the handlers' reports, cancellations and dialog changes do to
\* its queues, each directive goes through its stages once and in order, and is started
\* only when its mediums are free of all that is being handled.
THEOREM ProcessorImplementsLifecycle == Spec => LifecycleKept
<1>1. TypeOK /\ Held /\ Seated /\ [Next]_vars => Seated'
  BY LifecycleNext DEF LivesOn
<1>2. TypeOK /\ Held /\ Seated /\ [Next]_vars => [Lifecycle!Next]_(Lifecycle!vars)
  BY LifecycleNext DEF LivesOn
<1> QED BY <1>1, <1>2, LifecycleInit, HeldAlways, PTL DEF Spec, LifecycleKept, Lifecycle!Spec
=============================================================================
