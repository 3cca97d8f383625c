SPECIFICATION FairSpec
CONSTANTS
    Formats = {hd, fullHd}
    NoFormat = NoFormat
    Cap = 2
    MaxRequests = 3
    MaxSourceCalls = 2
    MaxStreamCalls = 1
INVARIANTS StreamInv GeometryInv
PROPERTIES SamplesInOrder StreamProgress
CHECK_DEADLOCK FALSE
