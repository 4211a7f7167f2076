SPECIFICATION Spec
CONSTANTS
    c1 = c1
    c2 = c2
    Conns = {c1, c2}
    MaxInflight = 2
    MaxFrames <- MCFrames
CHECK_DEADLOCK FALSE
INVARIANT PipelineInv
INVARIANT CleanExit
PROPERTY ComesBack
