\* A frame that ends within the IPv4 header.
SPECIFICATION Spec
CONSTANTS
    Frames <- TryFrames
    MaxPasses = 2
INVARIANTS NeverPanics
CHECK_DEADLOCK FALSE
