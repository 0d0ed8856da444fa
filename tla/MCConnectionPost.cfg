CONSTANTS
    N = 2
    Requests = {r1}
    PostRequests = {p1}
    Serialized = {r1, p1}
    NoRequest = NoRequest
    MaxMessageHandlers = 2
    GatewayClients = {}
    MaxEnables = 1
SPECIFICATION Spec
CHECK_DEADLOCK FALSE
INVARIANTS
    OnePlace
