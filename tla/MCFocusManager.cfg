SPECIFICATION FairSpec
CONSTANTS
    Channels <- MCChannels
    Activities <- MCActivities
    channelOf <- MCChannelOf
    interfaceOf <- MCInterfaceOf
    Patient <- MCPatient
    contentOf <- MCContentOf
    InterruptModel <- MCInterruptModel
    MaxAcquires = 3
    MaxCalls = 2
    MaxQueue = 1
    None = None
    speech = speech
    music = music
    track = track
    chime = chime
INVARIANTS
    EverybodyKnows
    PatienceRuns
PROPERTY
    TasksFinish
CHECK_DEADLOCK FALSE
