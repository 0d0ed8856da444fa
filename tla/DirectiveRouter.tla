----------------------------- MODULE DirectiveRouter -----------------------------
(***************************************************************************)
(* The directive router (adsl/DirectiveRouter.cpp): which handler gets a   *)
(* directive (avs/DirectiveRoutingRule.cpp), the reference counts that     *)
(* keep a handler alive while it is called without m_mutex, and the        *)
(* notification of handlers that are taken out (onDeregistered).           *)
(*                                                                         *)
(* Three kinds of threads meet in it: registrars call addDirectiveHandler  *)
(* and removeDirectiveHandler, callers make the processor's and the        *)
(* sequencer's calls, and one thread calls shutdown.  There are two locks: *)
(* the router's m_mutex and the m_mutex of its base class RequiresShutdown *)
(* (util/RequiresShutdown.cpp), which shutdown holds from its first line   *)
(* to its last and isShutdown takes to read the flag.                      *)
(***************************************************************************)
EXTENDS Integers, FiniteSets

CONSTANTS
    Handlers,       \* the DirectiveHandlerInterface objects
    Registrars,     \* threads that add and remove handlers
    Callers,        \* threads that have directives handled
    Directives,     \* the directives, as records of their routing fields
    Values,         \* the strings in the fields of rules and directives
    ConfigOf,       \* the rules in getConfiguration() of each handler
    ValidPolicies,  \* the handlers whose configured policies are all valid
    WILDCARD,       \* "*"
    NoHandler,      \* a null shared_ptr<DirectiveHandlerInterface>
    MaxRegistrations \* bound: how often a handler is added

\* DirectiveRoutingRule, that is CapabilityTag
Rule == [nameSpace : Values \cup {WILDCARD}, name : Values \cup {WILDCARD},
         endpointId : Values \cup {WILDCARD}, instance : Values \cup {WILDCARD}]

ASSUME FieldsAssumption ==
    /\ WILDCARD \notin Values
    /\ Directives \subseteq
         [nameSpace : Values, name : Values, endpointId : Values, instance : Values]
ASSUME HandlersAssumption ==
    /\ NoHandler \notin Handlers
    /\ IsFiniteSet(Handlers)
    /\ ConfigOf \in [Handlers -> SUBSET Rule]
    /\ \A h \in Handlers : IsFiniteSet(ConfigOf[h]) /\ ConfigOf[h] # {}
    /\ ValidPolicies \subseteq Handlers
ASSUME ThreadsAssumption == IsFiniteSet(Registrars) /\ IsFiniteSet(Callers)
ASSUME BoundAssumption == MaxRegistrations \in Nat

VARIABLES
    m_configuration,            \* Rule -> handler
    m_handlerReferenceCounts,   \* handler -> count; 0 for no entry
    m_isShutdown,               \* RequiresShutdown::m_isShutdown
    owner,                      \* the registrar that holds m_mutex over isShutdown()
    regPc, regHandler,          \* addDirectiveHandler, removeDirectiveHandler
    callPc, callHandler,        \* handleDirectiveImmediately and its like
    shutPc, releasedHandlers,   \* shutdown
    registrations,              \* history: successful addDirectiveHandler calls
    deregistrations             \* history: onDeregistered calls

regVars  == <<regPc, regHandler>>
callVars == <<callPc, callHandler>>
shutVars == <<shutPc, releasedHandlers>>

vars == <<m_configuration, m_handlerReferenceCounts, m_isShutdown, owner, regVars,
          callVars, shutVars, registrations, deregistrations>>

Rules == UNION {ConfigOf[h] : h \in Handlers}

\* Owner of a lock nobody holds.
Nobody == NoHandler

-----------------------------------------------------------------------------
(* Routing rules *)

isDirectiveRoutingRuleValid(rule) ==
    /\ rule.endpointId # WILDCARD
    /\ WILDCARD \in {rule.instance, rule.nameSpace} => rule.name = WILDCARD

\* The rules a directive is looked up under, in the order they are tried: per
\* directive, namespace, instance, namespace of any instance, endpoint.
matchers(d) ==
    <<d, [d EXCEPT !.name = WILDCARD],
      [d EXCEPT !.nameSpace = WILDCARD, !.name = WILDCARD],
      [d EXCEPT !.name = WILDCARD, !.instance = WILDCARD],
      [d EXCEPT !.nameSpace = WILDCARD, !.name = WILDCARD, !.instance = WILDCARD]>>

Configured(rule) == rule \in Rules /\ m_configuration[rule] # NoHandler

\* The rule whose entry getHandlerAndPolicyLocked returns, as a set.
FoundRule(d) ==
    {matchers(d)[i] : i \in {j \in 1..5 :
        /\ Configured(matchers(d)[j])
        /\ \A k \in 1..(j - 1) : ~Configured(matchers(d)[k])}}

\* The handlers getHandlerLocked returns for d: at most one, none for nullptr.
getHandlerLocked(d) == {m_configuration[r] : r \in FoundRule(d)}

-----------------------------------------------------------------------------
(* Locks and counts *)

MutexFree == owner = Nobody

\* Mutant: the flag is read without the lock that shutdown holds.
FlagReadable == TRUE

\* RequiresShutdown::m_mutex is free: isShutdown() returns at once.
ShutdownMutexFree == shutPc \notin {"locked", "releasing"}

RulesOf(h) == {r \in Rules : m_configuration[r] = h}
Registered(h) == \A r \in ConfigOf[h] : m_configuration[r] = h

\* incrementHandlerReferenceCountLocked and its decrement, n times.
CountPlus(h, n) == [m_handlerReferenceCounts EXCEPT ![h] = @ + n]
CountMinus(h, n) == [m_handlerReferenceCounts EXCEPT ![h] = @ - n]

\* Mutant: one reference is given back, whatever the number of rules.
OneReference(h) == 1

\* The references removeDirectiveHandlerLocked gives back: one for each rule.
References(h) == Cardinality(ConfigOf[h])

\* Mutant: doShutdown removes nobody.
RemovesNobody == {}
\* The handlers that the loop of doShutdown removes.
Removed == {h \in Handlers : Registered(h)}

Idle == "idle"

-----------------------------------------------------------------------------
(* DirectiveRouter(metricRecorder) *)

Init ==
    /\ m_configuration = [r \in Rules |-> NoHandler]
    /\ m_handlerReferenceCounts = [h \in Handlers |-> 0]
    /\ m_isShutdown = FALSE
    /\ owner = Nobody
    /\ regPc = [t \in Registrars |-> Idle]
    /\ regHandler = [t \in Registrars |-> NoHandler]
    /\ callPc = [t \in Callers |-> Idle]
    /\ callHandler = [t \in Callers |-> NoHandler]
    /\ shutPc = "running"
    /\ releasedHandlers = {}
    /\ registrations = [h \in Handlers |-> 0]
    /\ deregistrations = [h \in Handlers |-> 0]

-----------------------------------------------------------------------------
(* addDirectiveHandler *)

\* m_mutex is taken, and kept while isShutdown() waits for the other lock.
addDirectiveHandler(t, h) ==
    /\ regPc[t] = Idle /\ MutexFree
    /\ registrations[h] < MaxRegistrations
    /\ owner' = t
    /\ regPc' = [regPc EXCEPT ![t] = "checking"]
    /\ regHandler' = [regHandler EXCEPT ![t] = h]
    /\ UNCHANGED <<m_configuration, m_handlerReferenceCounts, m_isShutdown, callVars,
                   shutVars, registrations, deregistrations>>

\* What addDirectiveHandler tests before it changes anything.
Acceptable(h) ==
    /\ ~m_isShutdown
    /\ h \in ValidPolicies
    /\ \A r \in ConfigOf[h] : isDirectiveRoutingRuleValid(r) /\ ~Configured(r)

addAccepted(t) ==
    LET h == regHandler[t] IN
    /\ regPc[t] = "checking" /\ ShutdownMutexFree
    /\ Acceptable(h)
    /\ m_configuration' = [r \in Rules |-> IF r \in ConfigOf[h] THEN h
                                          ELSE m_configuration[r]]
    /\ m_handlerReferenceCounts' = CountPlus(h, Cardinality(ConfigOf[h]))
    /\ registrations' = [registrations EXCEPT ![h] = @ + 1]
    /\ owner' = Nobody
    /\ regPc' = [regPc EXCEPT ![t] = Idle]
    /\ regHandler' = [regHandler EXCEPT ![t] = NoHandler]
    /\ UNCHANGED <<m_isShutdown, callVars, shutVars, deregistrations>>

\* Mutant: a handler is refused with m_mutex still taken.
RefusedLocked(t) ==
    /\ regPc[t] = "checking" /\ ShutdownMutexFree
    /\ ~Acceptable(regHandler[t])
    /\ regPc' = [regPc EXCEPT ![t] = Idle]
    /\ regHandler' = [regHandler EXCEPT ![t] = NoHandler]
    /\ UNCHANGED <<m_configuration, m_handlerReferenceCounts, m_isShutdown, owner, callVars,
                   shutVars, registrations, deregistrations>>

addRefused(t) ==
    /\ regPc[t] = "checking" /\ ShutdownMutexFree
    /\ ~Acceptable(regHandler[t])
    /\ owner' = Nobody
    /\ regPc' = [regPc EXCEPT ![t] = Idle]
    /\ regHandler' = [regHandler EXCEPT ![t] = NoHandler]
    /\ UNCHANGED <<m_configuration, m_handlerReferenceCounts, m_isShutdown, callVars,
                   shutVars, registrations, deregistrations>>

-----------------------------------------------------------------------------
(* removeDirectiveHandler *)

\* removeDirectiveHandlerLocked finds all its rules and takes them out; m_mutex
\* is released for the call of onDeregistered.
removeDirectiveHandler(t, h) ==
    /\ regPc[t] = Idle /\ MutexFree
    /\ Registered(h)
    /\ m_configuration' = [r \in Rules |-> IF r \in ConfigOf[h] THEN NoHandler
                                          ELSE m_configuration[r]]
    /\ m_handlerReferenceCounts' = CountMinus(h, References(h))
    /\ regPc' = [regPc EXCEPT ![t] = "deregistering"]
    /\ regHandler' = [regHandler EXCEPT ![t] = h]
    /\ UNCHANGED <<m_isShutdown, owner, callVars, shutVars, registrations,
                   deregistrations>>

\* handler->onDeregistered(), whoever else still uses the handler.
removeNotifies(t) ==
    /\ regPc[t] = "deregistering"
    /\ deregistrations' = [deregistrations EXCEPT ![regHandler[t]] = @ + 1]
    /\ regPc' = [regPc EXCEPT ![t] = Idle]
    /\ regHandler' = [regHandler EXCEPT ![t] = NoHandler]
    /\ UNCHANGED <<m_configuration, m_handlerReferenceCounts, m_isShutdown, owner,
                   callVars, shutVars, registrations>>

-----------------------------------------------------------------------------
(* handleDirectiveImmediately, preHandleDirective, handleDirective and      *)
(* cancelDirective: all four look the handler up, call it inside a          *)
(* HandlerCallScope and differ in the method they call.  When no handler is *)
(* found they return false and change nothing.                              *)

CallHandler(t, d) ==
    /\ callPc[t] = Idle /\ MutexFree
    /\ \E h \in getHandlerLocked(d) :
        /\ callHandler' = [callHandler EXCEPT ![t] = h]
        /\ m_handlerReferenceCounts' = CountPlus(h, 1)
    /\ callPc' = [callPc EXCEPT ![t] = "calling"]
    /\ UNCHANGED <<m_configuration, m_isShutdown, owner, regVars, shutVars,
                   registrations, deregistrations>>

\* ~HandlerCallScope and decrementHandlerReferenceCountLocked: the last
\* reference to a handler notifies it, with m_mutex released.  The branch for a
\* handler without a count is never reached (ReferencesCounted).
HandlerReturns(t) ==
    LET h == callHandler[t] IN
    /\ callPc[t] = "calling" /\ MutexFree
    /\ m_handlerReferenceCounts[h] > 0
    /\ m_handlerReferenceCounts' = CountMinus(h, 1)
    /\ \/ /\ m_handlerReferenceCounts[h] = 1
          /\ callPc' = [callPc EXCEPT ![t] = "deregistering"]
          /\ UNCHANGED callHandler
       \/ /\ m_handlerReferenceCounts[h] > 1
          /\ callPc' = [callPc EXCEPT ![t] = Idle]
          /\ callHandler' = [callHandler EXCEPT ![t] = NoHandler]
    /\ UNCHANGED <<m_configuration, m_isShutdown, owner, regVars, shutVars,
                   registrations, deregistrations>>

callNotifies(t) ==
    /\ callPc[t] = "deregistering"
    /\ deregistrations' = [deregistrations EXCEPT ![callHandler[t]] = @ + 1]
    /\ callPc' = [callPc EXCEPT ![t] = "relocking"]
    /\ UNCHANGED <<m_configuration, m_handlerReferenceCounts, m_isShutdown, owner,
                   regVars, callHandler, shutVars, registrations>>

\* lock.lock() after the notification, released as the call returns.
CallReturns(t) ==
    /\ callPc[t] = "relocking" /\ MutexFree
    /\ callPc' = [callPc EXCEPT ![t] = Idle]
    /\ callHandler' = [callHandler EXCEPT ![t] = NoHandler]
    /\ UNCHANGED <<m_configuration, m_handlerReferenceCounts, m_isShutdown, owner,
                   regVars, shutVars, registrations, deregistrations>>

-----------------------------------------------------------------------------
(* shutdown *)

\* RequiresShutdown::shutdown takes its lock and calls doShutdown.
shutdown ==
    /\ shutPc = "running"
    /\ shutPc' = "locked"
    /\ UNCHANGED <<m_configuration, m_handlerReferenceCounts, m_isShutdown, owner,
                   regVars, callVars, releasedHandlers, registrations, deregistrations>>

\* doShutdown under m_mutex: every registered handler is removed.
doShutdown ==
    /\ shutPc = "locked" /\ MutexFree
    /\ shutPc' = "releasing"
    /\ releasedHandlers' = Removed
    /\ m_configuration' = [r \in Rules |-> NoHandler]
    /\ m_handlerReferenceCounts' =
         [h \in Handlers |-> m_handlerReferenceCounts[h]
                               - (IF h \in Removed THEN References(h) ELSE 0)]
    /\ UNCHANGED <<m_isShutdown, owner, regVars, callVars, registrations,
                   deregistrations>>

shutdownNotifies(h) ==
    /\ shutPc = "releasing" /\ h \in releasedHandlers
    /\ releasedHandlers' = releasedHandlers \ {h}
    /\ deregistrations' = [deregistrations EXCEPT ![h] = @ + 1]
    /\ UNCHANGED <<m_configuration, m_handlerReferenceCounts, m_isShutdown, owner,
                   regVars, callVars, shutPc, registrations>>

shutdownReturns ==
    /\ shutPc = "releasing" /\ releasedHandlers = {}
    /\ m_isShutdown' = TRUE
    /\ shutPc' = "done"
    /\ UNCHANGED <<m_configuration, m_handlerReferenceCounts, owner, regVars, callVars,
                   releasedHandlers, registrations, deregistrations>>

-----------------------------------------------------------------------------
(* Next *)

Registering(t) == addAccepted(t) \/ addRefused(t) \/ removeNotifies(t)

Calling(t) == HandlerReturns(t) \/ callNotifies(t) \/ CallReturns(t)

ShuttingDown ==
    doShutdown \/ (\E h \in Handlers : shutdownNotifies(h)) \/ shutdownReturns

Next ==
    \/ \E t \in Registrars :
         \/ \E h \in Handlers : addDirectiveHandler(t, h) \/ removeDirectiveHandler(t, h)
         \/ Registering(t)
    \/ \E t \in Callers : Calling(t) \/ \E d \in Directives : CallHandler(t, d)
    \/ shutdown \/ ShuttingDown

Spec == Init /\ [][Next]_vars

-----------------------------------------------------------------------------
(* Properties *)

\* The router's members and its threads' states are well formed.
TypeOK ==
    /\ m_configuration \in [Rules -> Handlers \cup {NoHandler}]
    /\ m_handlerReferenceCounts \in [Handlers -> Nat]
    /\ m_isShutdown \in BOOLEAN
    /\ owner \in Registrars \cup {Nobody}
    /\ regPc \in [Registrars -> {Idle, "checking", "deregistering"}]
    /\ regHandler \in [Registrars -> Handlers \cup {NoHandler}]
    /\ \A t \in Registrars : regPc[t] # Idle => regHandler[t] \in Handlers
    /\ callPc \in [Callers -> {Idle, "calling", "deregistering", "relocking"}]
    /\ callHandler \in [Callers -> Handlers \cup {NoHandler}]
    /\ \A t \in Callers : callPc[t] # Idle => callHandler[t] \in Handlers
    /\ shutPc \in {"running", "locked", "releasing", "done"}
    /\ releasedHandlers \subseteq Handlers
    /\ registrations \in [Handlers -> Nat] /\ deregistrations \in [Handlers -> Nat]

Calls(h) == {t \in Callers : callPc[t] = "calling" /\ callHandler[t] = h}

\* The count of a handler is its rules plus the calls it is in: so the iterator
\* removeDirectiveHandlerLocked dereferences unchecked is never end(), and the
\* "handlerNotFound" branch of the decrement is never taken.
ReferencesCounted ==
    \A h \in Handlers :
        m_handlerReferenceCounts[h] = Cardinality(RulesOf(h)) + Cardinality(Calls(h))

\* A handler is registered under all its rules or under none, whatever the other
\* registrars add and remove, so shutdown can remove every handler it finds.
RegisteredWhole ==
    \A h \in Handlers : Registered(h) \/ RulesOf(h) = {}

\* A rule covers a directive when each of its fields is the directive's or "*".
Covers(rule, d) ==
    \A f \in {"nameSpace", "name", "endpointId", "instance"} : rule[f] \in {d[f], WILDCARD}

Wildcards(rule) ==
    {f \in {"nameSpace", "name", "endpointId", "instance"} : rule[f] = WILDCARD}

\* A directive reaches a handler when any registered rule covers it, and the one
\* it reaches has no more specific competitor: the five lookups find everything
\* isDirectiveRoutingRuleValid lets in, in the right order.
RoutedToMostSpecific ==
    \A d \in Directives : \A r \in Rules :
        Configured(r) /\ Covers(r, d) =>
            \E q \in FoundRule(d) : Covers(q, d) /\ ~(Wildcards(r) \subseteq Wildcards(q)
                                                     /\ Wildcards(r) # Wildcards(q))

\* Once shutdown has returned no handler can be called any more: the handlers
\* are taken out and the flag that refuses new ones is set in two steps, and no
\* registrar gets in between.
NothingRegisteredAfterShutdown ==
    m_isShutdown => \A r \in Rules : m_configuration[r] = NoHandler

Removers(h) == {t \in Registrars : regPc[t] = "deregistering" /\ regHandler[t] = h}

\* Every registration that ended has been notified, or is about to be.
EveryRemovalNotified ==
    \A h \in Handlers :
        registrations[h] =< deregistrations[h] + Cardinality(Removers(h))
                              + Cardinality({h} \cap releasedHandlers)
                              + (IF Registered(h) THEN 1 ELSE 0)

Busy == \/ \E t \in Registrars : regPc[t] # Idle
        \/ \E t \in Callers : callPc[t] # Idle
        \/ shutPc \in {"locked", "releasing"}

Progress == \/ \E t \in Registrars : Registering(t)
            \/ \E t \in Callers : Calling(t)
            \/ ShuttingDown

\* When calls are under way and none of them can go on, addDirectiveHandler holds
\* m_mutex and waits in isShutdown() while shutdown() holds the base class's lock and
\* waits for m_mutex: the two orders of these locks are the only way to hang.
HangsOnlyOnLockOrder ==
    Busy /\ ~ENABLED Progress => owner # Nobody /\ shutPc = "locked"

\* onDeregistered is called at most once for each registration.
OneDeregistrationPerRegistration ==
    \A h \in Handlers : deregistrations[h] =< registrations[h]
=============================================================================
