SPECIFICATION FairSpec
CONSTANTS
    MaxQueued = 3
    Wrap = 5
    MaxResets = 2
    MaxPayload = 2
    Compact = 4
    WireBytes = {2}
    MaxFrames = 2
    MaxNals = 4
INVARIANTS PipelineInv ChunksReassembled UnitsInspected
PROPERTIES PipelineProgress
CHECK_DEADLOCK FALSE
