CONSTANTS
    h1 = h1
    h2 = h2
    h3 = h3
    h4 = h4
    ns = ns
    nm = nm
    ep = ep
    in = in
    other = other
    Values <- MCValues
    Directives <- MCDirectives
    ConfigOf <- MCConfigOf
    WILDCARD = WILDCARD
    NoHandler = NoHandler
    Handlers = {h1}
    ValidPolicies = {h1}
    Registrars = {r1}
    Callers = {c1}
    MaxRegistrations = 1
SPECIFICATION Spec
INVARIANT OneDeregistrationPerRegistration
CHECK_DEADLOCK FALSE
