\* A fragment of an IPv6 packet.
SPECIFICATION Spec
CONSTANTS
    Frames <- TryFrames
    MaxPasses = 2
PROPERTIES FragmentsKept
CHECK_DEADLOCK FALSE
