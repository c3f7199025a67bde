\* An IPv6 packet with an extension header and an Ethernet trailer.
SPECIFICATION Spec
CONSTANTS
    Frames <- TryFrames
    MaxPasses = 2
PROPERTIES ShortPayloadKept
CHECK_DEADLOCK FALSE
