CONSTANTS
  Window = {w1, w2}
  ScreenWidth = 4
  Border = 1
  NumFramebuffers = 2
  Sizes = {1}
SPECIFICATION Spec
SYMMETRY Symmetry
INVARIANTS StaleCellsAreScheduled FrameIsCurrent
