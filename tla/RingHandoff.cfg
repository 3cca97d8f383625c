CONSTANTS
  c1 = c1
  c2 = c2
  v1 = v1
  p1 = p1
  p2 = p2
  none = none
  NoOne = none
  Cameras = {c1, c2}
  Viewers = {}
  Producers = {p1, p2}
  Parts = {"meta", "pixels"}
  Meta = "meta"
  Slots = 2
  MaxFrames = 3
  MaxOpens = 4
SPECIFICATION Spec
SYMMETRY Symmetry
CHECK_DEADLOCK FALSE
INVARIANTS SingleProducer CamerasCounted WholeFrame
PROPERTIES ImplementsLatestFrame
