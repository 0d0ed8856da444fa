SPECIFICATION FairSpec
CONSTANTS
    Capabilities <- MCCapabilities
    Retrievable <- MCCapabilities
    Reportable <- MCReportable
    Legacy <- MCLegacy
    LegacyStates <- MCLegacyStates
    MaxRequests = 2
    MaxAnswers = 2
    MaxQueue = 2
    MaxChanges = 1
INVARIANTS
    AnsweredOnce
    CompleteContext
PROPERTY
    EveryRequestAnswered
CHECK_DEADLOCK FALSE
