\* Two messages, one clearData and no stop.
CONSTANTS
    m1 = m1
    m2 = m2
    m3 = m3
    NoMessage = NoMessage
    Messages <- TwoMessages
    Answers <- TwoAnswers
    QueueSizeHardLimit = 2
    MaxStops = 0
    MaxClears = 1
SPECIFICATION Spec
INVARIANT
    NothingLost
