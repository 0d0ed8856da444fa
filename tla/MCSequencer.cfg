CONSTANTS
    d1 = d1
    d2 = d2
    x = x
    Directives = {d1, d2}
    DialogIds = {x}
    PoliciesOf <- MCPoliciesOf
    IdOf <- MCIdOf
    NoDirective = NoDirective
    NoId = NoId
SPECIFICATION SeqFairSpec
INVARIANTS
    ArrivalOrder
    ExceptionMeansUnhandled
    ShutdownLeavesNothing
PROPERTIES
    AcceptedIsDelivered
    SeqShutdownReturns
