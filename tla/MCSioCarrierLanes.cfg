SPECIFICATION Spec
CONSTANTS
  Site <- TwoLaneSites
  None = None
  MaxFrames = 2
INVARIANT LanePreserved
