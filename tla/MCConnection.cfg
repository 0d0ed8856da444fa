CONSTANTS
    N = 2
    Requests = {r1}
    PostRequests = {}
    Serialized = {r1}
    NoRequest = NoRequest
    MaxMessageHandlers = 1
    GatewayClients = {g1}
    MaxEnables = 1
SPECIFICATION FairSpec
CHECK_DEADLOCK FALSE
INVARIANTS
    EveryTransportOwned
    ConnectedIsReported
    OneServer
    SeenIsTaken
PROPERTIES
    CallsReturn
    RequestAnswered
