SPECIFICATION Spec
CONSTANTS
  main = main
  m1 = m1
  m2 = m2
  h1 = h1
  h2 = h2
  h3 = h3
  h4 = h4
  NoName = NoName
  NoHandle = NoHandle
  Names = {main, m1, m2}
  Main = main
  Modal = {m1, m2}
  Manual = {}
  NoShow = {}
  OnInit = {}
  OnRelease = {m1, m2}
  AskClose = {m1, m2}
  Activations <- MCActivations
  Handles <- MCHandles
  ActivateIds = {1}
  ControlIds = {1}
  Uses = {"activate", "release", "control", "timer", "close"}
  Careful = TRUE
  InteractiveClose = 1
  MaxDepth = 9
  MaxQueue = 2
SYMMETRY MCSymmetry
INVARIANTS CloseKeepsItsSlot ReleasedOnce
PROPERTIES ReturnsAfterClose
CHECK_DEADLOCK FALSE
