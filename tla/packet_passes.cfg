\* Every shape of frame, slimmed twice.
SPECIFICATION Spec
CONSTANTS
    Frames <- TryFrames
    MaxPasses = 2
INVARIANTS FastPathAgrees LengthsAgree
PROPERTIES SecondPassKeeps CutsWhatItShould
CHECK_DEADLOCK FALSE
