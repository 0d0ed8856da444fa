-------------------------- MODULE MCDirectiveProcessor --------------------------
(***************************************************************************)
(* Instances of DirectiveProcessor for TLC.                                *)
(***************************************************************************)
EXTENDS DirectiveProcessor, Sequences, SequencesExt

CONSTANTS d1, d2, d3, x, y

AudioBlocking    == [mediums |-> {"AUDIO"}, isBlocking |-> TRUE]
AudioNonBlocking == [mediums |-> {"AUDIO"}, isBlocking |-> FALSE]
BothBlocking     == [mediums |-> {"AUDIO", "VISUAL"}, isBlocking |-> TRUE]
VisualBlocking   == [mediums |-> {"VISUAL"}, isBlocking |-> TRUE]

\* d1 and d2 belong to dialog x, d3 to none.
ThreeIdOf == [d \in Directives |-> IF d = d3 THEN NoId ELSE x]

ThreePoliciesOf ==
    [d \in Directives |-> CASE d = d1 -> {BothBlocking}
                            [] d = d2 -> {AudioNonBlocking}
                            [] d = d3 -> {VisualBlocking}]

\* A blocking and a non-blocking directive of two dialogs compete for AUDIO.
LiveIdOf == [d \in Directives |-> IF d = d1 THEN x ELSE y]

LivePoliciesOf ==
    [d \in Directives |-> IF d = d1 THEN {AudioBlocking} ELSE {AudioNonBlocking}]

\* The deque: the queued directives in the order of their push_backs.
Deque == SetToSortSeq(m_handlingQueue, Earlier)

\* getNextUnblockedDirectiveLocked as the code's loop computes it: item by item,
\* a blocked blocking item adds its mediums to blockedMediums.
LoopBlocked[i \in 0..Len(Deque)] ==
    IF i = 0 THEN {m \in Medium : m_directivesBeingHandled[m] # NoDirective}
    ELSE IF IsBlocking(Deque[i]) /\ Mediums(Deque[i]) \cap LoopBlocked[i-1] # {}
         THEN LoopBlocked[i-1] \cup Mediums(Deque[i])
         ELSE LoopBlocked[i-1]

LoopResult ==
    LET free == {i \in 1..Len(Deque) : Mediums(Deque[i]) \cap LoopBlocked[i-1] = {}}
    IN  IF free = {} THEN {} ELSE {Deque[Min(free)]}

\* The closed form the specification uses for getNextUnblockedDirectiveLocked
\* is what the loop of the code returns, in every reachable state.
ClosedFormIsLoop == getNextUnblockedDirectiveLocked = LoopResult
=============================================================================
