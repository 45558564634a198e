\* Two faults of any kind; the more controls, the fewer frames beside them.
SPECIFICATION Spec
CONSTANTS
    n1 = n1
    n2 = n2
    Nothing = Nothing
    Names <- SectionNames
    Items <- Controls
    Capacity = 2
    CommandCapacity = 1
    OutboundCapacity = 1
    MaxControls = 3
    MaxFrames = 3
    MaxConnections = 2
    MaxFaults = 2
SYMMETRY NamesAlike
CONSTRAINT FewTogether
INVARIANTS
    StoppedIsIdle
PROPERTIES
    ImplementsFifo
    StreamExact
    ControlsInOrder
    QueuedIsDiscarded
