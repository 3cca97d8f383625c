SPECIFICATION FairSinkSpec
CONSTANTS
    Geometries = {hd, fullHd}
    NoGeometry = NoGeometry
    Gone = Gone
    Staging = 3
INVARIANTS SinkInv
PROPERTIES AdaptsToCamera
