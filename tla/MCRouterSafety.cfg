CONSTANTS
    h1 = h1
    h2 = h2
    h3 = h3
    h4 = h4
    ns = ns
    nm = nm
    ep = ep
    in = in
    other = other
    Values <- MCValues
    Directives <- MCDirectives
    ConfigOf <- MCConfigOf
    WILDCARD = WILDCARD
    NoHandler = NoHandler
    Handlers = {h1, h2, h3, h4}
    ValidPolicies = {h1, h2, h3, h4}
    Registrars = {r1, r2}
    Callers = {c1, c2}
    MaxRegistrations = 2
SYMMETRY ThreadSymmetry
SPECIFICATION Spec
INVARIANTS
    ReferencesCounted
    NothingRegisteredAfterShutdown
    EveryRemovalNotified
    HangsOnlyOnLockOrder
CHECK_DEADLOCK FALSE
