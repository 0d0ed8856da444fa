\* Three messages and a queue of two, so that the queue refuses; two stops, so that a
\* load that left a row out can be followed by one that reads it; one clearData.
\* AVS answers in the end, unless the sender is being destroyed.
CONSTANTS
    m1 = m1
    m2 = m2
    m3 = m3
    NoMessage = NoMessage
    Messages <- ThreeMessages
    Answers <- TwoAnswers
    QueueSizeHardLimit = 2
    MaxStops = 2
    MaxClears = 1
SPECIFICATION FairSpec
INVARIANTS
    NothingLostUndisturbed
    SentInOrder
    QueueBackedByStorage
PROPERTIES
    DestructorReturns
    StoredIsAnswered
