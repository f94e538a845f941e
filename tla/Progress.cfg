CONSTANTS
    a = a
    b = b
    n1 = n1
    n2 = n2
    None = None
SPECIFICATION FairSpec
PROPERTIES CallsReturn PatientAreServed FramesAdvance WatchersCatchUp
PROPERTIES DurableInTheEnd PresentIsLocated DrainEnds NodesAreListed
CHECK_DEADLOCK FALSE
