-------------------------- MODULE DirectiveRouterProofs --------------------------
(***************************************************************************)
(* Proofs about DirectiveRouter, for every set of handlers, configurations *)
(* and threads.                                                            *)
(***************************************************************************)
EXTENDS DirectiveRouter, FiniteSetTheorems, TLAPS

USE FieldsAssumption, HandlersAssumption, ThreadsAssumption, BoundAssumption

-----------------------------------------------------------------------------
(* The lookup *)

\* The five rules that are tried, one by one.
LEMMA MatcherFields ==
    ASSUME NEW d \in Directives
    PROVE  /\ matchers(d)[1] = d
           /\ matchers(d)[2] = [d EXCEPT !.name = WILDCARD]
           /\ matchers(d)[3] = [d EXCEPT !.nameSpace = WILDCARD, !.name = WILDCARD]
           /\ matchers(d)[4] = [d EXCEPT !.name = WILDCARD, !.instance = WILDCARD]
           /\ matchers(d)[5] = [d EXCEPT !.nameSpace = WILDCARD, !.name = WILDCARD,
                                         !.instance = WILDCARD]
BY DEF matchers

\* Each has one wildcard more than the last, or another one: no rule is strictly
\* more specific than one that is tried before it.
LEMMA MatcherWildcards ==
    ASSUME NEW d \in Directives
    PROVE  /\ Wildcards(matchers(d)[1]) = {}
           /\ Wildcards(matchers(d)[2]) = {"name"}
           /\ Wildcards(matchers(d)[3]) = {"nameSpace", "name"}
           /\ Wildcards(matchers(d)[4]) = {"name", "instance"}
           /\ Wildcards(matchers(d)[5]) = {"nameSpace", "name", "instance"}
<1>1. /\ WILDCARD \notin {d.nameSpace, d.name, d.endpointId, d.instance}
      /\ d["nameSpace"] = d.nameSpace /\ d["name"] = d.name
      /\ d["endpointId"] = d.endpointId /\ d["instance"] = d.instance
  OBVIOUS
<1>2. Wildcards(d) = {}
  BY <1>1 DEF Wildcards
<1>3. Wildcards([d EXCEPT !.name = WILDCARD]) = {"name"}
  BY <1>1 DEF Wildcards
<1>4. Wildcards([d EXCEPT !.nameSpace = WILDCARD, !.name = WILDCARD]) = {"nameSpace", "name"}
  BY <1>1 DEF Wildcards
<1>5. Wildcards([d EXCEPT !.name = WILDCARD, !.instance = WILDCARD]) = {"name", "instance"}
  BY <1>1 DEF Wildcards
<1>6. Wildcards([d EXCEPT !.nameSpace = WILDCARD, !.name = WILDCARD, !.instance = WILDCARD])
        = {"nameSpace", "name", "instance"}
  BY <1>1 DEF Wildcards
<1> QED BY <1>2, <1>3, <1>4, <1>5, <1>6, MatcherFields

\* Every rule that is tried covers the directive.
LEMMA MatchersCover ==
    ASSUME NEW d \in Directives, NEW i \in 1..5
    PROVE  Covers(matchers(d)[i], d)
<1>1. Covers(d, d)
  BY DEF Covers
<1>2. Covers([d EXCEPT !.name = WILDCARD], d)
  BY DEF Covers
<1>3. Covers([d EXCEPT !.nameSpace = WILDCARD, !.name = WILDCARD], d)
  BY DEF Covers
<1>4. Covers([d EXCEPT !.name = WILDCARD, !.instance = WILDCARD], d)
  BY DEF Covers
<1>5. Covers([d EXCEPT !.nameSpace = WILDCARD, !.name = WILDCARD, !.instance = WILDCARD], d)
  BY DEF Covers
<1>6. i = 1 \/ i = 2 \/ i = 3 \/ i = 4 \/ i = 5
  OBVIOUS
<1>7. CASE i = 1
  BY <1>1, <1>7, MatcherFields
<1>8. CASE i = 2
  BY <1>2, <1>8, MatcherFields
<1>9. CASE i = 3
  BY <1>3, <1>9, MatcherFields
<1>10. CASE i = 4
  BY <1>4, <1>10, MatcherFields
<1>11. CASE i = 5
  BY <1>5, <1>11, MatcherFields
<1> QED BY <1>6, <1>7, <1>8, <1>9, <1>10, <1>11

\* The rules that are valid and cover a directive are all tried: of the sixteen
\* ways to put wildcards into the four fields isDirectiveRoutingRuleValid lets
\* five in, and these are the five.
LEMMA MatchersComplete ==
    ASSUME NEW d \in Directives, NEW r \in Rule,
           isDirectiveRoutingRuleValid(r), Covers(r, d)
    PROVE  \E i \in 1..5 : r = matchers(d)[i]
<1> USE DEF Rule
<1>1. /\ r.nameSpace \in {d.nameSpace, WILDCARD}
      /\ r.name \in {d.name, WILDCARD}
      /\ r.endpointId = d.endpointId
      /\ r.instance \in {d.instance, WILDCARD}
  BY DEF Covers, isDirectiveRoutingRuleValid
<1>2. CASE r.name = d.name
  <2>1. r.instance = d.instance /\ r.nameSpace = d.nameSpace
    BY <1>1, <1>2 DEF isDirectiveRoutingRuleValid
  <2>2. r = d
    BY <1>1, <1>2, <2>1
  <2>3. r = matchers(d)[1]
    BY <2>2, MatcherFields
  <2> QED BY <2>3
<1>3. CASE r.name = WILDCARD /\ r.nameSpace = d.nameSpace /\ r.instance = d.instance
  <2>1. r = [d EXCEPT !.name = WILDCARD]
    BY <1>1, <1>3
  <2>2. r = matchers(d)[2]
    BY <2>1, MatcherFields
  <2> QED BY <2>2
<1>4. CASE r.name = WILDCARD /\ r.nameSpace = WILDCARD /\ r.instance = d.instance
  <2>1. r = [d EXCEPT !.nameSpace = WILDCARD, !.name = WILDCARD]
    BY <1>1, <1>4
  <2>2. r = matchers(d)[3]
    BY <2>1, MatcherFields
  <2> QED BY <2>2
<1>5. CASE r.name = WILDCARD /\ r.nameSpace = d.nameSpace /\ r.instance = WILDCARD
  <2>1. r = [d EXCEPT !.name = WILDCARD, !.instance = WILDCARD]
    BY <1>1, <1>5
  <2>2. r = matchers(d)[4]
    BY <2>1, MatcherFields
  <2> QED BY <2>2
<1>6. CASE r.name = WILDCARD /\ r.nameSpace = WILDCARD /\ r.instance = WILDCARD
  <2>1. r = [d EXCEPT !.nameSpace = WILDCARD, !.name = WILDCARD, !.instance = WILDCARD]
    BY <1>1, <1>6
  <2>2. r = matchers(d)[5]
    BY <2>1, MatcherFields
  <2> QED BY <2>2
<1> QED BY <1>1, <1>2, <1>3, <1>4, <1>5, <1>6

\* When one of the five is configured, the first of them is found.
LEMMA FirstIsFound ==
    ASSUME NEW d \in Directives, NEW i \in 1..5, Configured(matchers(d)[i])
    PROVE  \E j \in 1..i : matchers(d)[j] \in FoundRule(d)
<1> DEFINE C(k) == Configured(matchers(d)[k])
<1>1. \A j \in 1..5 : C(j) /\ (\A k \in 1..(j - 1) : ~C(k)) => matchers(d)[j] \in FoundRule(d)
  BY DEF FoundRule
<1> HIDE DEF C
<1>2. \E j \in 1..i : C(j) /\ \A k \in 1..(j - 1) : ~C(k)
  <2>1. C(i)
    BY DEF C
  <2>2. CASE C(1)
    BY <2>2
  <2>3. CASE ~C(1) /\ C(2) /\ i # 1
    BY <2>3
  <2>4. CASE ~C(1) /\ ~C(2) /\ C(3) /\ i \notin {1, 2}
    BY <2>4
  <2>5. CASE ~C(1) /\ ~C(2) /\ ~C(3) /\ C(4) /\ i \notin {1, 2, 3}
    BY <2>5
  <2>6. CASE ~C(1) /\ ~C(2) /\ ~C(3) /\ ~C(4) /\ i = 5
    BY <2>1, <2>6
  <2> QED BY <2>1, <2>2, <2>3, <2>4, <2>5, <2>6
<1> QED BY <1>1, <1>2

-----------------------------------------------------------------------------
(* The inductive invariant *)

\* TypeOK without the sign of the counts, which needs ReferencesCounted.
Types ==
    /\ m_configuration \in [Rules -> Handlers \cup {NoHandler}]
    /\ m_handlerReferenceCounts \in [Handlers -> Int]
    /\ m_isShutdown \in BOOLEAN
    /\ owner \in Registrars \cup {Nobody}
    /\ regPc \in [Registrars -> {Idle, "checking", "deregistering"}]
    /\ regHandler \in [Registrars -> Handlers \cup {NoHandler}]
    /\ \A t \in Registrars : regPc[t] # Idle => regHandler[t] \in Handlers
    /\ callPc \in [Callers -> {Idle, "calling", "deregistering", "relocking"}]
    /\ callHandler \in [Callers -> Handlers \cup {NoHandler}]
    /\ \A t \in Callers : callPc[t] # Idle => callHandler[t] \in Handlers
    /\ shutPc \in {"running", "locked", "releasing", "done"}
    /\ releasedHandlers \subseteq Handlers
    /\ registrations \in [Handlers -> Nat] /\ deregistrations \in [Handlers -> Nat]

\* A handler is configured only for its own rules, all of them or none, and the
\* rules are valid.
OwnRules ==
    \A h \in Handlers :
        /\ RulesOf(h) \in {{}, ConfigOf[h]}
        /\ \A r \in RulesOf(h) : isDirectiveRoutingRuleValid(r)

\* The lock of RequiresShutdown covers the time between the removal of the
\* handlers and the flag.
ShutdownStages ==
    /\ m_isShutdown <=> shutPc = "done"
    /\ shutPc \in {"releasing", "done"} => \A r \in Rules : m_configuration[r] = NoHandler

\* A handler has at least one rule, and all its rules are in Rules.
LEMMA ConfigInRules ==
    ASSUME NEW h \in Handlers
    PROVE  /\ ConfigOf[h] \subseteq Rules /\ ConfigOf[h] # {}
           /\ IsFiniteSet(ConfigOf[h])
           /\ Rules \subseteq Rule
BY DEF Rules

\* A rule that is looked up is a rule of the handler found.
LEMMA FoundIsHandler ==
    ASSUME NEW d \in Directives, NEW h \in getHandlerLocked(d), Types
    PROVE  h \in Handlers
BY DEF getHandlerLocked, FoundRule, Configured, Types

\* Every step keeps the types.
LEMMA TypesNext == Types /\ [Next]_vars => Types'
<1> SUFFICES ASSUME Types, [Next]_vars PROVE Types'
  OBVIOUS
<1> USE DEF regVars, callVars, shutVars
<1>0. Nobody \in Registrars \cup {Nobody} /\ NoHandler \in Handlers \cup {NoHandler}
  OBVIOUS
<1>a. \A h \in Handlers : Cardinality(ConfigOf[h]) \in Nat
  BY ConfigInRules, FS_CardinalityType
<1>1. ASSUME NEW t \in Registrars, NEW h \in Handlers, addDirectiveHandler(t, h) PROVE Types'
  BY <1>1 DEF addDirectiveHandler, Types, Idle
<1>2. ASSUME NEW t \in Registrars, NEW h \in Handlers, removeDirectiveHandler(t, h)
      PROVE  Types'
  <2>1. m_configuration' \in [Rules -> Handlers \cup {NoHandler}]
    BY <1>2 DEF removeDirectiveHandler, Types
  <2>2. m_handlerReferenceCounts' \in [Handlers -> Int]
    BY <1>2, <1>a DEF removeDirectiveHandler, CountMinus, References, Types
  <2>3. /\ regPc' \in [Registrars -> {Idle, "checking", "deregistering"}]
        /\ regHandler' \in [Registrars -> Handlers \cup {NoHandler}]
        /\ \A u \in Registrars : regPc'[u] # Idle => regHandler'[u] \in Handlers
    BY <1>2 DEF removeDirectiveHandler, Types, Idle
  <2> QED BY <1>2, <2>1, <2>2, <2>3 DEF removeDirectiveHandler, Types
<1>3. ASSUME NEW t \in Registrars, addAccepted(t) PROVE Types'
  <2>0. regHandler[t] \in Handlers
    BY <1>3 DEF addAccepted, Types, Idle
  <2>1. m_configuration' \in [Rules -> Handlers \cup {NoHandler}]
    BY <1>3, <2>0 DEF addAccepted, Types
  <2>2. m_handlerReferenceCounts' \in [Handlers -> Int]
    BY <1>3, <1>a, <2>0 DEF addAccepted, CountPlus, Types
  <2>3. /\ regPc' \in [Registrars -> {Idle, "checking", "deregistering"}]
        /\ regHandler' \in [Registrars -> Handlers \cup {NoHandler}]
        /\ \A u \in Registrars : regPc'[u] # Idle => regHandler'[u] \in Handlers
    BY <1>3 DEF addAccepted, Types, Idle
  <2>4. registrations' \in [Handlers -> Nat]
    BY <1>3, <2>0 DEF addAccepted, Types
  <2> QED BY <1>3, <2>1, <2>2, <2>3, <2>4 DEF addAccepted, Types
<1>4. ASSUME NEW t \in Registrars, addRefused(t) PROVE Types'
  BY <1>4 DEF addRefused, Types, Idle
<1>5. ASSUME NEW t \in Registrars, removeNotifies(t) PROVE Types'
  <2>1. deregistrations' \in [Handlers -> Nat]
    BY <1>5 DEF removeNotifies, Types, Idle
  <2> QED BY <1>5, <2>1 DEF removeNotifies, Types, Idle
<1>6. ASSUME NEW t \in Callers, NEW d \in Directives, CallHandler(t, d) PROVE Types'
  <2>1. PICK h \in getHandlerLocked(d) :
          /\ callHandler' = [callHandler EXCEPT ![t] = h]
          /\ m_handlerReferenceCounts' = CountPlus(h, 1)
    BY <1>6 DEF CallHandler
  <2>2. h \in Handlers
    BY FoundIsHandler
  <2>3. m_handlerReferenceCounts' \in [Handlers -> Int]
    BY <2>1, <2>2 DEF CountPlus, Types
  <2> QED BY <1>6, <2>1, <2>2, <2>3 DEF CallHandler, Types, Idle
<1>7. ASSUME NEW t \in Callers, HandlerReturns(t) PROVE Types'
  <2>1. callHandler[t] \in Handlers
    BY <1>7 DEF HandlerReturns, Types, Idle
  <2>2. m_handlerReferenceCounts' \in [Handlers -> Int]
    BY <1>7, <2>1 DEF HandlerReturns, CountMinus, Types
  <2> QED BY <1>7, <2>1, <2>2 DEF HandlerReturns, Types, Idle
<1>8. ASSUME NEW t \in Callers, callNotifies(t) PROVE Types'
  <2>1. deregistrations' \in [Handlers -> Nat]
    BY <1>8 DEF callNotifies, Types, Idle
  <2> QED BY <1>8, <2>1 DEF callNotifies, Types, Idle
<1>9. ASSUME NEW t \in Callers, CallReturns(t) PROVE Types'
  BY <1>9 DEF CallReturns, Types, Idle
<1>10. CASE shutdown
  BY <1>10 DEF shutdown, Types
<1>11. CASE doShutdown
  <2>1. m_handlerReferenceCounts' \in [Handlers -> Int]
    BY <1>11, <1>a DEF doShutdown, References, Types
  <2> QED BY <1>11, <2>1 DEF doShutdown, Removed, Types
<1>12. ASSUME NEW h \in Handlers, shutdownNotifies(h) PROVE Types'
  BY <1>12 DEF shutdownNotifies, Types
<1>13. CASE shutdownReturns
  BY <1>13 DEF shutdownReturns, Types
<1>14. CASE UNCHANGED vars
  BY <1>14 DEF vars, Types
<1> QED
  BY <1>1, <1>2, <1>3, <1>4, <1>5, <1>6, <1>7, <1>8, <1>9, <1>10, <1>11, <1>12, <1>13,
     <1>14 DEF Next, Registering, Calling, ShuttingDown

-----------------------------------------------------------------------------
(* Configuration and shutdown *)

\* What a step does to the configuration: nothing, or it adds or removes all the
\* rules of one handler, or it clears everything.
LEMMA ConfigurationMoves ==
    ASSUME [Next]_vars
    PROVE  \/ UNCHANGED m_configuration
           \/ \E t \in Registrars : addAccepted(t)
           \/ \E t \in Registrars, h \in Handlers : removeDirectiveHandler(t, h)
           \/ doShutdown
BY DEF Next, Registering, Calling, ShuttingDown, addDirectiveHandler, addRefused,
       removeNotifies, CallHandler, HandlerReturns, callNotifies, CallReturns, shutdown,
       shutdownNotifies, shutdownReturns, vars

\* A handler that is accepted gets its rules, and no other handler loses one.
LEMMA RulesAdded ==
    ASSUME Types, OwnRules, NEW t \in Registrars, addAccepted(t),
           NEW h \in Handlers, h = regHandler[t]
    PROVE  /\ RulesOf(h) = {}
           /\ RulesOf(h)' = ConfigOf[h]
           /\ \A g \in Handlers \ {h} : RulesOf(g)' = RulesOf(g)
           /\ \A r \in ConfigOf[h] : isDirectiveRoutingRuleValid(r)
<1>2. \A r \in ConfigOf[h] : isDirectiveRoutingRuleValid(r) /\ m_configuration[r] = NoHandler
  BY ConfigInRules DEF addAccepted, Acceptable, Configured
<1>3. m_configuration' = [r \in Rules |-> IF r \in ConfigOf[h] THEN h ELSE m_configuration[r]]
  BY DEF addAccepted
<1>4. RulesOf(h) = {}
  BY <1>2, ConfigInRules DEF OwnRules, RulesOf
<1>5. RulesOf(h)' = ConfigOf[h]
  BY <1>3, <1>4, ConfigInRules DEF RulesOf
<1>6. ASSUME NEW g \in Handlers \ {h} PROVE RulesOf(g)' = RulesOf(g)
  BY <1>2, <1>3 DEF RulesOf
<1> QED BY <1>2, <1>4, <1>5, <1>6

\* A handler that is removed loses all its rules, and no other handler does.
LEMMA RulesRemoved ==
    ASSUME Types, OwnRules, NEW t \in Registrars, NEW h \in Handlers,
           removeDirectiveHandler(t, h)
    PROVE  /\ RulesOf(h) = ConfigOf[h]
           /\ RulesOf(h)' = {}
           /\ \A g \in Handlers \ {h} : RulesOf(g)' = RulesOf(g)
<1>1. \A r \in ConfigOf[h] : m_configuration[r] = h
  BY DEF removeDirectiveHandler, Registered
<1>2. RulesOf(h) = ConfigOf[h]
  BY <1>1, ConfigInRules DEF OwnRules, RulesOf
<1>3. m_configuration' = [r \in Rules |-> IF r \in ConfigOf[h] THEN NoHandler
                                         ELSE m_configuration[r]]
  BY DEF removeDirectiveHandler
<1>4. RulesOf(h)' = {}
  BY <1>2, <1>3 DEF RulesOf
<1>5. ASSUME NEW g \in Handlers \ {h} PROVE RulesOf(g)' = RulesOf(g)
  BY <1>1, <1>3 DEF RulesOf
<1> QED BY <1>2, <1>4, <1>5

\* Every step keeps OwnRules.
LEMMA OwnRulesNext == Types /\ OwnRules /\ [Next]_vars => OwnRules'
<1> SUFFICES ASSUME Types, OwnRules, [Next]_vars PROVE OwnRules'
  OBVIOUS
<1>1. CASE UNCHANGED m_configuration
  BY <1>1 DEF OwnRules, RulesOf
<1>2. ASSUME NEW t \in Registrars, addAccepted(t) PROVE OwnRules'
  <2>1. PICK h \in Handlers : h = regHandler[t]
    BY <1>2 DEF addAccepted, Types, Idle
  <2> QED BY <1>2, <2>1, RulesAdded DEF OwnRules
<1>3. ASSUME NEW t \in Registrars, NEW h \in Handlers, removeDirectiveHandler(t, h)
      PROVE  OwnRules'
  BY <1>3, RulesRemoved DEF OwnRules
<1>4. CASE doShutdown
  <2>1. \A h \in Handlers : RulesOf(h)' = {}
    BY <1>4 DEF doShutdown, RulesOf
  <2> QED BY <2>1 DEF OwnRules
<1> QED BY <1>1, <1>2, <1>3, <1>4, ConfigurationMoves

\* Every step keeps ShutdownStages.
LEMMA ShutdownStagesNext == Types /\ ShutdownStages /\ [Next]_vars => ShutdownStages'
<1> SUFFICES ASSUME Types, ShutdownStages, [Next]_vars PROVE ShutdownStages'
  OBVIOUS
<1> USE DEF regVars, callVars, shutVars
<1>1. CASE UNCHANGED <<m_configuration, m_isShutdown, shutPc>>
  BY <1>1 DEF ShutdownStages
<1>2. ASSUME NEW t \in Registrars, addAccepted(t) PROVE ShutdownStages'
  <2>1. shutPc \notin {"releasing", "done"}
    BY <1>2 DEF addAccepted, ShutdownMutexFree, Acceptable, ShutdownStages
  <2> QED BY <1>2, <2>1 DEF addAccepted, ShutdownStages
<1>3. ASSUME NEW t \in Registrars, NEW h \in Handlers, removeDirectiveHandler(t, h)
      PROVE  ShutdownStages'
  BY <1>3 DEF removeDirectiveHandler, ShutdownStages
<1>4. CASE shutdown \/ doShutdown \/ shutdownReturns
  BY <1>4 DEF shutdown, doShutdown, shutdownReturns, ShutdownStages
<1>5. \/ UNCHANGED <<m_configuration, m_isShutdown, shutPc>>
      \/ \E t \in Registrars : addAccepted(t)
      \/ \E t \in Registrars, h \in Handlers : removeDirectiveHandler(t, h)
      \/ shutdown \/ doShutdown \/ shutdownReturns
  BY DEF Next, Registering, Calling, ShuttingDown, addDirectiveHandler, addRefused,
       removeNotifies, CallHandler, HandlerReturns, callNotifies, CallReturns,
       shutdownNotifies, vars
<1> QED BY <1>1, <1>2, <1>3, <1>4, <1>5

-----------------------------------------------------------------------------
(* Reference counts *)

\* The sets that are counted are finite.
LEMMA CountedSets ==
    ASSUME NEW h \in Handlers, Types, OwnRules
    PROVE  /\ IsFiniteSet(Calls(h)) /\ Cardinality(Calls(h)) \in Nat
           /\ IsFiniteSet(RulesOf(h)) /\ Cardinality(RulesOf(h)) \in Nat
           /\ Cardinality(ConfigOf[h]) \in Nat
<1>1. Calls(h) \subseteq Callers
  BY DEF Calls
<1>2. IsFiniteSet(Calls(h))
  BY <1>1, FS_Subset
<1>3. IsFiniteSet(RulesOf(h))
  BY FS_EmptySet DEF OwnRules
<1> QED BY <1>2, <1>3, FS_CardinalityType

\* A step that changes neither rules nor calls nor counts keeps them equal.
LEMMA CountsUnchanged ==
    ASSUME ReferencesCounted, UNCHANGED m_handlerReferenceCounts,
           \A h \in Handlers : RulesOf(h)' = RulesOf(h) /\ Calls(h)' = Calls(h)
    PROVE  ReferencesCounted'
BY DEF ReferencesCounted

\* Every step keeps the counts.
LEMMA ReferencesCountedNext ==
    Types /\ OwnRules /\ ReferencesCounted /\ [Next]_vars => ReferencesCounted'
<1> SUFFICES ASSUME Types, OwnRules, ReferencesCounted, [Next]_vars PROVE ReferencesCounted'
  OBVIOUS
<1> USE DEF regVars, callVars, shutVars
<1>1. ASSUME NEW t \in Registrars, addAccepted(t) PROVE ReferencesCounted'
  <2>1. PICK h \in Handlers : h = regHandler[t]
    BY <1>1 DEF addAccepted, Types, Idle
  <2>2. m_handlerReferenceCounts'
          = [m_handlerReferenceCounts EXCEPT ![h] = @ + Cardinality(ConfigOf[h])]
    BY <1>1, <2>1 DEF addAccepted, CountPlus
  <2>3. \A g \in Handlers : Calls(g)' = Calls(g)
    BY <1>1 DEF addAccepted, Calls
  <2>4. /\ RulesOf(h) = {} /\ RulesOf(h)' = ConfigOf[h]
        /\ \A g \in Handlers \ {h} : RulesOf(g)' = RulesOf(g)
    BY <1>1, <2>1, RulesAdded
  <2>5. Cardinality(RulesOf(h)) = 0
    BY <2>4, FS_EmptySet
  <2>6. m_handlerReferenceCounts'[h] = Cardinality(RulesOf(h)') + Cardinality(Calls(h)')
    <3>1. m_handlerReferenceCounts[h] = Cardinality(Calls(h)) /\ Cardinality(Calls(h)) \in Nat
      BY <2>5, CountedSets DEF ReferencesCounted
    <3>2. m_handlerReferenceCounts'[h] = m_handlerReferenceCounts[h] + Cardinality(ConfigOf[h])
      BY <2>2 DEF Types
    <3>3. Cardinality(ConfigOf[h]) \in Nat
      BY CountedSets
    <3> QED BY <2>3, <2>4, <3>1, <3>2, <3>3
  <2>7. \A g \in Handlers \ {h} : m_handlerReferenceCounts'[g] = m_handlerReferenceCounts[g]
    BY <2>2 DEF Types
  <2> QED BY <2>3, <2>4, <2>6, <2>7 DEF ReferencesCounted
<1>2. ASSUME NEW t \in Registrars, NEW h \in Handlers, removeDirectiveHandler(t, h)
      PROVE  ReferencesCounted'
  <2>2. m_handlerReferenceCounts'
          = [m_handlerReferenceCounts EXCEPT ![h] = @ - Cardinality(ConfigOf[h])]
    BY <1>2 DEF removeDirectiveHandler, CountMinus, References
  <2>3. \A g \in Handlers : Calls(g)' = Calls(g)
    BY <1>2 DEF removeDirectiveHandler, Calls
  <2>4. /\ RulesOf(h) = ConfigOf[h] /\ RulesOf(h)' = {}
        /\ \A g \in Handlers \ {h} : RulesOf(g)' = RulesOf(g)
    BY <1>2, RulesRemoved
  <2>5. Cardinality(RulesOf(h)') = 0
    BY <2>4, FS_EmptySet
  <2>6. m_handlerReferenceCounts'[h] = Cardinality(RulesOf(h)') + Cardinality(Calls(h)')
    BY <2>2, <2>3, <2>4, <2>5, CountedSets DEF ReferencesCounted, Types
  <2>7. \A g \in Handlers \ {h} : m_handlerReferenceCounts'[g] = m_handlerReferenceCounts[g]
    BY <2>2 DEF Types
  <2> QED BY <2>3, <2>4, <2>6, <2>7 DEF ReferencesCounted
<1>3. ASSUME NEW t \in Callers, NEW d \in Directives, CallHandler(t, d)
      PROVE  ReferencesCounted'
  <2>1. PICK h \in getHandlerLocked(d) :
          /\ callHandler' = [callHandler EXCEPT ![t] = h]
          /\ m_handlerReferenceCounts' = [m_handlerReferenceCounts EXCEPT ![h] = @ + 1]
    BY <1>3 DEF CallHandler, CountPlus
  <2>2. h \in Handlers
    BY FoundIsHandler
  <2>3. \A g \in Handlers : RulesOf(g)' = RulesOf(g)
    BY <1>3 DEF CallHandler, RulesOf
  <2>4. callPc[t] = "idle" /\ callPc' = [callPc EXCEPT ![t] = "calling"]
    BY <1>3 DEF CallHandler, Idle
  <2>5. t \notin Calls(h) /\ Calls(h)' = Calls(h) \cup {t}
    BY <2>1, <2>2, <2>4 DEF Calls, Types
  <2>6. \A g \in Handlers \ {h} : Calls(g)' = Calls(g)
    BY <2>1, <2>2, <2>4 DEF Calls, Types
  <2>7. Cardinality(Calls(h)') = Cardinality(Calls(h)) + 1
    BY <2>2, <2>5, CountedSets, FS_AddElement
  <2>8. m_handlerReferenceCounts'[h] = Cardinality(RulesOf(h)') + Cardinality(Calls(h)')
    BY <2>1, <2>2, <2>3, <2>7, CountedSets DEF ReferencesCounted, Types
  <2>9. \A g \in Handlers \ {h} : m_handlerReferenceCounts'[g] = m_handlerReferenceCounts[g]
    BY <2>1 DEF Types
  <2> QED BY <2>3, <2>6, <2>8, <2>9 DEF ReferencesCounted
<1>4. ASSUME NEW t \in Callers, HandlerReturns(t) PROVE ReferencesCounted'
  <2>1. PICK h \in Handlers : h = callHandler[t]
    BY <1>4 DEF HandlerReturns, Types, Idle
  <2>2. m_handlerReferenceCounts' = [m_handlerReferenceCounts EXCEPT ![h] = @ - 1]
    BY <1>4, <2>1 DEF HandlerReturns, CountMinus
  <2>3. \A g \in Handlers : RulesOf(g)' = RulesOf(g)
    BY <1>4 DEF HandlerReturns, RulesOf
  <2>4. /\ callPc[t] = "calling" /\ callPc'[t] # "calling"
        /\ \A u \in Callers \ {t} : callPc'[u] = callPc[u] /\ callHandler'[u] = callHandler[u]
    BY <1>4 DEF HandlerReturns, Idle, Types
  <2>5. t \in Calls(h) /\ Calls(h)' = Calls(h) \ {t}
    BY <2>1, <2>4 DEF Calls, Types
  <2>6. \A g \in Handlers \ {h} : Calls(g)' = Calls(g)
    BY <2>1, <2>4 DEF Calls, Types
  <2>7. Cardinality(Calls(h)') = Cardinality(Calls(h)) - 1
    BY <2>5, CountedSets, FS_RemoveElement
  <2>8. m_handlerReferenceCounts'[h] = Cardinality(RulesOf(h)') + Cardinality(Calls(h)')
    BY <2>2, <2>3, <2>7, CountedSets DEF ReferencesCounted, Types
  <2>9. \A g \in Handlers \ {h} : m_handlerReferenceCounts'[g] = m_handlerReferenceCounts[g]
    BY <2>2 DEF Types
  <2> QED BY <2>3, <2>6, <2>8, <2>9 DEF ReferencesCounted
<1>5. ASSUME NEW t \in Callers, callNotifies(t) \/ CallReturns(t) PROVE ReferencesCounted'
  <2>1. /\ callPc[t] # "calling" /\ callPc'[t] # "calling"
        /\ \A u \in Callers \ {t} : callPc'[u] = callPc[u] /\ callHandler'[u] = callHandler[u]
    BY <1>5 DEF callNotifies, CallReturns, Idle, Types
  <2>2. \A h \in Handlers : Calls(h)' = Calls(h)
    BY <2>1 DEF Calls
  <2>3. \A h \in Handlers : RulesOf(h)' = RulesOf(h)
    BY <1>5 DEF callNotifies, CallReturns, RulesOf
  <2> QED BY <1>5, <2>2, <2>3, CountsUnchanged DEF callNotifies, CallReturns
<1>6. CASE doShutdown
  <2>1. \A h \in Handlers : RulesOf(h)' = {} /\ Calls(h)' = Calls(h)
    BY <1>6 DEF doShutdown, RulesOf, Calls
  <2>2. Cardinality({}) = 0
    BY FS_EmptySet
  <2>3. ASSUME NEW h \in Handlers
        PROVE  m_handlerReferenceCounts'[h] = Cardinality(Calls(h))
    <3>1. CASE Registered(h)
      <4>1. RulesOf(h) = ConfigOf[h]
        BY <3>1, ConfigInRules DEF Registered, RulesOf, OwnRules
      <4>2. m_handlerReferenceCounts'[h] = m_handlerReferenceCounts[h] - Cardinality(ConfigOf[h])
        BY <1>6, <3>1 DEF doShutdown, Removed, References
      <4> QED BY <4>1, <4>2, CountedSets DEF ReferencesCounted
    <3>2. CASE ~Registered(h)
      <4>1. RulesOf(h) = {}
        BY <3>2, ConfigInRules DEF Registered, RulesOf, OwnRules
      <4>2. m_handlerReferenceCounts'[h] = m_handlerReferenceCounts[h]
        BY <1>6, <3>2 DEF doShutdown, Removed, Types
      <4>3. Cardinality(RulesOf(h)) = 0
        BY <4>1, <2>2
      <4>4. m_handlerReferenceCounts[h] = 0 + Cardinality(Calls(h))
        BY <4>3 DEF ReferencesCounted
      <4>5. Cardinality(Calls(h)) \in Nat
        BY CountedSets
      <4> QED BY <4>2, <4>4, <4>5
    <3> QED BY <3>1, <3>2
  <2>4. \A h \in Handlers : Cardinality(Calls(h)) \in Nat
    BY CountedSets
  <2>5. \A h \in Handlers : /\ Cardinality(RulesOf(h)') = 0
                            /\ Cardinality(Calls(h)') = Cardinality(Calls(h))
    BY <2>1, <2>2
  <2> QED BY <2>3, <2>4, <2>5 DEF ReferencesCounted
<1>7. CASE UNCHANGED <<m_configuration, m_handlerReferenceCounts, callVars>>
  <2>1. \A h \in Handlers : RulesOf(h)' = RulesOf(h) /\ Calls(h)' = Calls(h)
    BY <1>7 DEF RulesOf, Calls
  <2> QED BY <1>7, <2>1, CountsUnchanged
<1>8. \/ \E t \in Registrars : addAccepted(t)
      \/ \E t \in Registrars, h \in Handlers : removeDirectiveHandler(t, h)
      \/ \E t \in Callers : \/ HandlerReturns(t) \/ callNotifies(t) \/ CallReturns(t)
                            \/ \E d \in Directives : CallHandler(t, d)
      \/ doShutdown
      \/ UNCHANGED <<m_configuration, m_handlerReferenceCounts, callVars>>
  BY DEF Next, Registering, Calling, ShuttingDown, addDirectiveHandler, addRefused,
         removeNotifies, shutdown, shutdownNotifies, shutdownReturns, vars
<1> QED BY <1>1, <1>2, <1>3, <1>4, <1>5, <1>6, <1>7, <1>8

-----------------------------------------------------------------------------
(* Theorems *)

\* The initial state is empty.
LEMMA RouterInit == Init => Types /\ OwnRules /\ ShutdownStages /\ ReferencesCounted
<1> SUFFICES ASSUME Init PROVE Types /\ OwnRules /\ ShutdownStages /\ ReferencesCounted
  OBVIOUS
<1>1. Types
  <2>1. /\ m_configuration \in [Rules -> Handlers \cup {NoHandler}]
        /\ m_handlerReferenceCounts \in [Handlers -> Int]
        /\ registrations \in [Handlers -> Nat] /\ deregistrations \in [Handlers -> Nat]
    BY DEF Init
  <2>2. /\ regPc \in [Registrars -> {Idle, "checking", "deregistering"}]
        /\ regHandler \in [Registrars -> Handlers \cup {NoHandler}]
        /\ \A t \in Registrars : regPc[t] # Idle => regHandler[t] \in Handlers
    BY DEF Init
  <2>3. /\ callPc \in [Callers -> {Idle, "calling", "deregistering", "relocking"}]
        /\ callHandler \in [Callers -> Handlers \cup {NoHandler}]
        /\ \A t \in Callers : callPc[t] # Idle => callHandler[t] \in Handlers
    BY DEF Init
  <2> QED BY <2>1, <2>2, <2>3 DEF Init, Types
<1>2. \A h \in Handlers : RulesOf(h) = {} /\ Calls(h) = {}
  BY DEF Init, RulesOf, Calls, Idle
<1>3. OwnRules
  BY <1>2 DEF OwnRules
<1>4. ReferencesCounted
  <2>1. \A h \in Handlers : Cardinality(RulesOf(h)) = 0 /\ Cardinality(Calls(h)) = 0
    BY <1>2, FS_EmptySet
  <2> QED BY <2>1 DEF Init, ReferencesCounted
<1>5. ShutdownStages
  BY DEF Init, ShutdownStages
<1> QED BY <1>1, <1>3, <1>4, <1>5

\* The inductive invariant.
LEMMA RouterAlways == Spec => [](Types /\ OwnRules /\ ShutdownStages /\ ReferencesCounted)
BY RouterInit, TypesNext, OwnRulesNext, ShutdownStagesNext, ReferencesCountedNext, PTL
   DEF Spec

\* The count of every handler is its rules plus the calls it is in, whatever
\* registrars, callers and the shutdown do: the iterator removeDirectiveHandlerLocked
\* dereferences without a check is valid, and no decrement fails.
THEOREM CountSafety == Spec => []ReferencesCounted
BY RouterAlways, PTL

\* The router's members keep their types; in particular no count goes below zero.
THEOREM RouterTypeCorrect == Spec => []TypeOK
<1>1. Types /\ OwnRules /\ ReferencesCounted => TypeOK
  <2> SUFFICES ASSUME Types, OwnRules, ReferencesCounted PROVE TypeOK
    OBVIOUS
  <2>1. \A h \in Handlers : m_handlerReferenceCounts[h] \in Nat
    BY CountedSets DEF ReferencesCounted
  <2>2. m_handlerReferenceCounts \in [Handlers -> Nat]
    BY <2>1 DEF Types
  <2> QED BY <2>2 DEF Types, TypeOK
<1> QED BY <1>1, RouterAlways, PTL

\* A handler is registered under all its rules or under none, so shutdown removes
\* every handler it meets.
THEOREM WholeSafety == Spec => []RegisteredWhole
<1>1. OwnRules => RegisteredWhole
  BY ConfigInRules DEF OwnRules, RegisteredWhole, Registered, RulesOf
<1> QED BY <1>1, RouterAlways, PTL

\* Once shutdown has returned, no handler is registered and none can be: the
\* removal and the flag are two steps, and the lock of RequiresShutdown keeps the
\* registrars out in between.
THEOREM RouterShutdownSafety == Spec => []NothingRegisteredAfterShutdown
<1>1. ShutdownStages => NothingRegisteredAfterShutdown
  BY DEF ShutdownStages, NothingRegisteredAfterShutdown
<1> QED BY <1>1, RouterAlways, PTL

\* Routing: whenever a registered rule covers a directive, the directive is routed
\* to a covering rule, and not past a strictly more specific one.
THEOREM RoutingSafety == Spec => []RoutedToMostSpecific
<1>1. ASSUME Types, OwnRules PROVE RoutedToMostSpecific
  <2> SUFFICES ASSUME NEW d \in Directives, NEW r \in Rules, Configured(r), Covers(r, d)
               PROVE  \E q \in FoundRule(d) :
                        /\ Covers(q, d)
                        /\ ~(Wildcards(r) \subseteq Wildcards(q) /\ Wildcards(r) # Wildcards(q))
    BY DEF RoutedToMostSpecific
  <2>1. PICK h \in Handlers : h = m_configuration[r]
    BY <1>1 DEF Configured, Types
  <2>2. isDirectiveRoutingRuleValid(r)
    BY <1>1, <2>1 DEF OwnRules, RulesOf
  <2>3. r \in Rule
    BY DEF Rules
  <2>4. PICK i \in 1..5 : r = matchers(d)[i]
    BY <2>2, <2>3, MatchersComplete
  <2>5. PICK j \in 1..i : matchers(d)[j] \in FoundRule(d)
    BY <2>4, FirstIsFound
  <2>6. j \in 1..5 /\ j =< i
    OBVIOUS
  <2>7. Covers(matchers(d)[j], d)
    BY <2>6, MatchersCover
  <2>8. ~(Wildcards(r) \subseteq Wildcards(matchers(d)[j])
            /\ Wildcards(r) # Wildcards(matchers(d)[j]))
    BY <2>4, <2>6, MatcherWildcards
  <2> QED BY <2>5, <2>7, <2>8
<1> QED BY <1>1, RouterAlways, PTL

-----------------------------------------------------------------------------
(* Notifications *)

\* The handlers shutdown still has to notify are there only while it does.
NobodyReleasedYet == shutPc \in {"running", "locked"} => releasedHandlers = {}

\* Every step keeps it.
LEMMA NobodyReleasedNext == Types /\ NobodyReleasedYet /\ [Next]_vars => NobodyReleasedYet'
<1> SUFFICES ASSUME Types, NobodyReleasedYet, [Next]_vars PROVE NobodyReleasedYet'
  OBVIOUS
<1>1. CASE UNCHANGED shutVars
  BY <1>1 DEF NobodyReleasedYet, shutVars
<1>2. CASE shutdown
  BY <1>2 DEF shutdown, NobodyReleasedYet
<1>3. CASE doShutdown \/ shutdownReturns
  BY <1>3 DEF doShutdown, shutdownReturns, NobodyReleasedYet
<1>4. ASSUME NEW h \in Handlers, shutdownNotifies(h) PROVE NobodyReleasedYet'
  BY <1>4 DEF shutdownNotifies, NobodyReleasedYet
<1>5. UNCHANGED shutVars \/ shutdown \/ doShutdown \/ shutdownReturns
        \/ \E h \in Handlers : shutdownNotifies(h)
  BY DEF Next, Registering, Calling, ShuttingDown, addDirectiveHandler, addAccepted,
         addRefused, removeDirectiveHandler, removeNotifies, CallHandler, HandlerReturns,
         callNotifies, CallReturns, vars
<1> QED BY <1>1, <1>2, <1>3, <1>4, <1>5

\* A handler is registered exactly when its rules are in the configuration.
LEMMA RegisteredByRules ==
    ASSUME Types, OwnRules, NEW h \in Handlers
    PROVE  Registered(h) <=> RulesOf(h) # {}
BY ConfigInRules DEF Registered, RulesOf, OwnRules

\* The threads about to notify h are finitely many, and so is its own singleton.
LEMMA NotifiersCounted ==
    ASSUME NEW h \in Handlers
    PROVE  /\ IsFiniteSet(Removers(h)) /\ Cardinality(Removers(h)) \in Nat
           /\ Cardinality({h} \cap releasedHandlers)
                = IF h \in releasedHandlers THEN 1 ELSE 0
<1>1. Removers(h) \subseteq Registrars
  BY DEF Removers
<1>2. IsFiniteSet(Removers(h)) /\ Cardinality(Removers(h)) \in Nat
  BY <1>1, FS_Subset, FS_CardinalityType
<1>3. CASE h \in releasedHandlers
  <2>1. {h} \cap releasedHandlers = {h}
    BY <1>3
  <2> QED BY <1>2, <1>3, <2>1, FS_Singleton
<1>4. CASE h \notin releasedHandlers
  <2>1. {h} \cap releasedHandlers = {}
    BY <1>4
  <2> QED BY <1>2, <1>4, <2>1, FS_EmptySet
<1> QED BY <1>3, <1>4

\* The registrations of h that are open, that is not yet notified.
Open(h) == Cardinality(Removers(h)) + (IF h \in releasedHandlers THEN 1 ELSE 0)
             + (IF Registered(h) THEN 1 ELSE 0)

\* EveryRemovalNotified in terms of Open, which is a number.
Balanced == \A h \in Handlers : registrations[h] =< deregistrations[h] + Open(h)

\* The property in terms of the notifications that are still to come.
LEMMA NotifiedByOpen ==
    Types => /\ EveryRemovalNotified <=> Balanced
             /\ \A h \in Handlers : Open(h) \in Nat
<1> SUFFICES ASSUME deregistrations \in [Handlers -> Nat]
             PROVE  /\ EveryRemovalNotified <=> Balanced
                    /\ \A h \in Handlers : Open(h) \in Nat
  BY DEF Types
<1>1. ASSUME NEW h \in Handlers
      PROVE  /\ deregistrations[h] + Open(h)
                  = deregistrations[h] + Cardinality(Removers(h))
                      + Cardinality({h} \cap releasedHandlers)
                      + (IF Registered(h) THEN 1 ELSE 0)
             /\ Open(h) \in Nat
  <2>1. deregistrations[h] \in Nat
    OBVIOUS
  <2> QED BY <2>1, NotifiersCounted DEF Open
<1> QED BY <1>1 DEF EveryRemovalNotified, Balanced

\* A step that opens as many registrations of each handler as it registers, and
\* notifies at least as many as it closes, keeps the balance.
LEMMA BalanceKept ==
    ASSUME Types, Types', EveryRemovalNotified,
           \A h \in Handlers : registrations'[h] + deregistrations[h] + Open(h)
                                 =< registrations[h] + deregistrations'[h] + Open(h)'
    PROVE  EveryRemovalNotified'
<1>1. \A h \in Handlers : /\ registrations[h] \in Nat /\ registrations'[h] \in Nat
                          /\ deregistrations[h] \in Nat /\ deregistrations'[h] \in Nat
  BY DEF Types
<1>2. \A h \in Handlers : registrations[h] =< deregistrations[h] + Open(h) /\ Open(h) \in Nat
  BY NotifiedByOpen DEF Balanced
<1>3. ((EveryRemovalNotified <=> Balanced) /\ \A h \in Handlers : Open(h) \in Nat)'
  BY NotifiedByOpen, PTL
<1>4. \A h \in Handlers : registrations'[h] =< deregistrations'[h] + Open(h)'
  <2> SUFFICES ASSUME NEW h \in Handlers
               PROVE  registrations'[h] =< deregistrations'[h] + Open(h)'
    OBVIOUS
  <2> DEFINE o == Open(h)
             p == Open(h)'
  <2>1. /\ o \in Nat /\ p \in Nat /\ registrations[h] =< deregistrations[h] + o
        /\ registrations'[h] + deregistrations[h] + o
             =< registrations[h] + deregistrations'[h] + p
    BY <1>2, <1>3
  <2> HIDE DEF o, p
  <2>2. registrations'[h] =< deregistrations'[h] + p
    BY <1>1, <2>1
  <2> QED BY <2>2 DEF p
<1> QED BY <1>3, <1>4 DEF Balanced

\* Every step keeps EveryRemovalNotified: a registration is accepted only when the
\* handler has none, a removal hands it to the thread that will notify, and the
\* notification takes it from there.
LEMMA NotifiedNext ==
    Types /\ OwnRules /\ NobodyReleasedYet /\ EveryRemovalNotified /\ [Next]_vars
        => EveryRemovalNotified'
<1> SUFFICES ASSUME Types, OwnRules, NobodyReleasedYet, EveryRemovalNotified, [Next]_vars
             PROVE  EveryRemovalNotified'
  OBVIOUS
<1> USE DEF regVars, callVars, shutVars
<1>0. Types' /\ OwnRules'
  BY TypesNext, OwnRulesNext
<1>a. /\ \A h \in Handlers : Registered(h) <=> RulesOf(h) # {}
      /\ \A h \in Handlers : Registered(h)' <=> RulesOf(h)' # {}
  <2>1. Types /\ OwnRules => \A h \in Handlers : Registered(h) <=> RulesOf(h) # {}
    BY RegisteredByRules
  <2>2. (\A h \in Handlers : Registered(h) <=> RulesOf(h) # {})'
    BY <1>0, ConfigInRules DEF Registered, RulesOf, OwnRules, Types
  <2> QED BY <2>1, <2>2
<1>b. \A h \in Handlers : /\ registrations[h] \in Nat /\ deregistrations[h] \in Nat
                          /\ IsFiniteSet(Removers(h)) /\ Cardinality(Removers(h)) \in Nat
  BY NotifiersCounted DEF Types
<1> DEFINE Kept(h) == registrations'[h] + deregistrations[h] + Open(h)
                        =< registrations[h] + deregistrations'[h] + Open(h)'
<1>s. SUFFICES ASSUME NEW h \in Handlers PROVE Kept(h)
  BY <1>0, BalanceKept
<1>i. ASSUME UNCHANGED <<registrations, deregistrations>>, Open(h)' = Open(h) PROVE Kept(h)
  <2>1. Open(h) \in Nat
    BY <1>b DEF Open
  <2> QED BY <1>b, <1>i, <2>1
<1>1. CASE UNCHANGED <<m_configuration, regVars, releasedHandlers, registrations>>
           /\ \E g \in Handlers : deregistrations' = [deregistrations EXCEPT ![g] = @ + 1]
  <2>1. Open(h)' = Open(h)
    BY <1>1 DEF Open, Removers, Registered
  <2>2. Open(h) \in Nat
    BY <1>b DEF Open
  <2>3. registrations'[h] = registrations[h] /\ deregistrations'[h] >= deregistrations[h]
    BY <1>1, <1>b DEF Types
  <2>4. deregistrations'[h] \in Nat
    BY <1>0 DEF Types
  <2> QED BY <1>b, <2>1, <2>2, <2>3, <2>4
<1>2. CASE UNCHANGED <<m_configuration, regVars, releasedHandlers, registrations,
                       deregistrations>>
  <2>1. Open(h)' = Open(h)
    BY <1>2 DEF Open, Removers, Registered
  <2> QED BY <1>2, <2>1, <1>i
<1>3. ASSUME NEW t \in Registrars, NEW g \in Handlers, addDirectiveHandler(t, g) PROVE Kept(h)
  <2>1. Removers(h)' = Removers(h)
    BY <1>3 DEF addDirectiveHandler, Removers, Idle, Types
  <2>2. Open(h)' = Open(h)
    BY <1>3, <2>1 DEF addDirectiveHandler, Open, Registered
  <2> QED BY <1>3, <2>2, <1>i DEF addDirectiveHandler
<1>4. ASSUME NEW t \in Registrars, addRefused(t) PROVE Kept(h)
  <2>1. Removers(h)' = Removers(h)
    BY <1>4 DEF addRefused, Removers, Idle, Types
  <2>2. Open(h)' = Open(h)
    BY <1>4, <2>1 DEF addRefused, Open, Registered
  <2> QED BY <1>4, <2>2, <1>i DEF addRefused
<1>5. ASSUME NEW t \in Registrars, addAccepted(t) PROVE Kept(h)
  <2>1. PICK g \in Handlers : g = regHandler[t]
    BY <1>5 DEF addAccepted, Types, Idle
  <2>2. /\ RulesOf(g) = {} /\ RulesOf(g)' # {}
        /\ \A k \in Handlers \ {g} : RulesOf(k)' = RulesOf(k)
    BY <1>5, <2>1, RulesAdded, ConfigInRules
  <2>3. Removers(h)' = Removers(h)
    BY <1>5 DEF addAccepted, Removers, Idle, Types
  <2>4. UNCHANGED <<releasedHandlers, deregistrations>>
    BY <1>5 DEF addAccepted
  <2>5. /\ registrations'[g] = registrations[g] + 1
        /\ h # g => registrations'[h] = registrations[h]
    BY <1>5, <2>1 DEF addAccepted, Types
  <2>6. CASE h = g
    <3>1. ~Registered(h) /\ Registered(h)'
      BY <1>a, <2>2, <2>6
    <3> QED BY <1>b, <2>3, <2>4, <2>5, <2>6, <3>1 DEF Open
  <2>7. CASE h # g
    <3>1. Registered(h)' <=> Registered(h)
      BY <1>a, <2>2, <2>7
    <3> QED BY <1>b, <2>3, <2>4, <2>5, <2>7, <3>1 DEF Open
  <2> QED BY <2>6, <2>7
<1>6. ASSUME NEW t \in Registrars, NEW g \in Handlers, removeDirectiveHandler(t, g)
      PROVE  Kept(h)
  <2>1. /\ RulesOf(g) # {} /\ RulesOf(g)' = {}
        /\ \A k \in Handlers \ {g} : RulesOf(k)' = RulesOf(k)
    BY <1>6, RulesRemoved, ConfigInRules
  <2>2. UNCHANGED <<releasedHandlers, registrations, deregistrations>>
    BY <1>6 DEF removeDirectiveHandler
  <2>3. CASE h = g
    <3>1. Registered(h) /\ ~Registered(h)'
      BY <1>a, <2>1, <2>3
    <3>2. t \notin Removers(h) /\ Removers(h)' = Removers(h) \cup {t}
      BY <1>6, <2>3 DEF removeDirectiveHandler, Removers, Idle, Types
    <3>3. Cardinality(Removers(h)') = Cardinality(Removers(h)) + 1
      BY <1>b, <3>2, FS_AddElement
    <3> QED BY <1>b, <2>2, <3>1, <3>3 DEF Open
  <2>4. CASE h # g
    <3>1. Registered(h)' <=> Registered(h)
      BY <1>a, <2>1, <2>4
    <3>2. Removers(h)' = Removers(h)
      BY <1>6, <2>4 DEF removeDirectiveHandler, Removers, Idle, Types
    <3> QED BY <2>2, <3>1, <3>2, <1>i DEF Open
  <2> QED BY <2>3, <2>4
<1>7. ASSUME NEW t \in Registrars, removeNotifies(t) PROVE Kept(h)
  <2>1. PICK g \in Handlers : g = regHandler[t]
    BY <1>7 DEF removeNotifies, Types, Idle
  <2>2. UNCHANGED <<m_configuration, releasedHandlers, registrations>>
    BY <1>7 DEF removeNotifies
  <2>3. Registered(h)' <=> Registered(h)
    BY <2>2 DEF Registered
  <2>4. CASE h = g
    <3>1. t \in Removers(h) /\ Removers(h)' = Removers(h) \ {t}
      BY <1>7, <2>1, <2>4 DEF removeNotifies, Removers, Idle, Types
    <3>2. Cardinality(Removers(h)') = Cardinality(Removers(h)) - 1
      BY <1>b, <3>1, FS_RemoveElement
    <3>3. deregistrations'[h] = deregistrations[h] + 1
      BY <1>7, <2>1, <2>4 DEF removeNotifies, Types
    <3> QED BY <1>b, <2>2, <2>3, <3>2, <3>3 DEF Open
  <2>5. CASE h # g
    <3>1. Removers(h)' = Removers(h)
      BY <1>7, <2>1, <2>5 DEF removeNotifies, Removers, Idle, Types
    <3>2. deregistrations'[h] = deregistrations[h]
      BY <1>7, <2>1, <2>5 DEF removeNotifies, Types
    <3> QED BY <1>b, <2>2, <2>3, <3>1, <3>2 DEF Open
  <2> QED BY <2>4, <2>5
<1>8. CASE doShutdown
  <2>1. releasedHandlers = {} /\ UNCHANGED <<regVars, registrations, deregistrations>>
    BY <1>8 DEF doShutdown, NobodyReleasedYet
  <2>2. Removers(h)' = Removers(h)
    BY <2>1 DEF Removers
  <2>3. RulesOf(h)' = {} /\ (h \in releasedHandlers' <=> Registered(h))
    BY <1>8 DEF doShutdown, RulesOf, Removed
  <2>4. ~Registered(h)'
    BY <1>a, <2>3
  <2>5. Open(h)' = Open(h)
    BY <1>b, <2>1, <2>2, <2>3, <2>4 DEF Open
  <2> QED BY <2>1, <2>5, <1>i
<1>9. ASSUME NEW g \in Handlers, shutdownNotifies(g) PROVE Kept(h)
  <2>1. /\ UNCHANGED <<m_configuration, regVars, registrations>>
        /\ g \in releasedHandlers /\ releasedHandlers' = releasedHandlers \ {g}
        /\ deregistrations' = [deregistrations EXCEPT ![g] = @ + 1]
    BY <1>9 DEF shutdownNotifies
  <2>2. Removers(h)' = Removers(h) /\ (Registered(h)' <=> Registered(h))
    BY <2>1 DEF Removers, Registered
  <2>3. CASE h = g
    <3>1. deregistrations'[h] = deregistrations[h] + 1
      BY <2>1, <2>3 DEF Types
    <3> QED BY <1>b, <2>1, <2>2, <2>3, <3>1 DEF Open
  <2>4. CASE h # g
    <3>1. deregistrations'[h] = deregistrations[h]
      BY <2>1, <2>4 DEF Types
    <3> QED BY <1>b, <2>1, <2>2, <2>4, <3>1 DEF Open
  <2> QED BY <2>3, <2>4
<1>10. ASSUME NEW t \in Callers, callNotifies(t) PROVE Kept(h)
  <2>1. callHandler[t] \in Handlers
    BY <1>10 DEF callNotifies, Types, Idle
  <2> QED BY <1>10, <2>1, <1>1 DEF callNotifies
<1>11. \/ UNCHANGED <<m_configuration, regVars, releasedHandlers, registrations,
                      deregistrations>>
       \/ \E t \in Registrars, g \in Handlers :
            addDirectiveHandler(t, g) \/ removeDirectiveHandler(t, g)
       \/ \E t \in Registrars : addRefused(t) \/ addAccepted(t) \/ removeNotifies(t)
       \/ doShutdown \/ \E g \in Handlers : shutdownNotifies(g)
       \/ \E t \in Callers : callNotifies(t)
  BY DEF Next, Registering, Calling, ShuttingDown, CallHandler, HandlerReturns,
         CallReturns, shutdown, shutdownReturns, vars
<1> HIDE DEF Kept
<1> QED
  BY <1>2, <1>3, <1>4, <1>5, <1>6, <1>7, <1>8, <1>9, <1>10, <1>11

\* Every registration that ended is notified or about to be: by the registrar that
\* removed the handler, or by the shutdown that found it registered.
THEOREM NotificationSafety == Spec => []EveryRemovalNotified
<1>1. Init => NobodyReleasedYet /\ EveryRemovalNotified
  <2> SUFFICES ASSUME Init PROVE NobodyReleasedYet /\ EveryRemovalNotified
    OBVIOUS
  <2>1. NobodyReleasedYet
    BY DEF Init, NobodyReleasedYet
  <2>2. \A h \in Handlers : registrations[h] = 0 /\ deregistrations[h] = 0
    BY DEF Init
  <2>3. Types
    BY RouterInit
  <2>4. Balanced
    BY <2>2, <2>3, NotifiedByOpen DEF Balanced
  <2> QED BY <2>1, <2>3, <2>4, NotifiedByOpen
<1> QED BY <1>1, RouterAlways, NobodyReleasedNext, NotifiedNext, PTL DEF Spec
=============================================================================
