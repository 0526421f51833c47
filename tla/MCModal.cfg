SPECIFICATION Spec
CONSTANTS
  main = main
  m1 = m1
  m2 = m2
  h1 = h1
  h2 = h2
  h3 = h3
  h4 = h4
  NoName = NoName
  NoHandle = NoHandle
  Names = {main, m1, m2}
  Main = main
  Modal = {m1, m2}
  Manual = {m1}
  NoShow = {}
  OnInit = {m2}
  OnRelease = {m1, m2}
  AskClose = {m1}
  Activations <- MCActivations
  Handles <- MCHandles
  ActivateIds = {1}
  ControlIds = {1}
  Uses = {"activate", "release", "show", "hide", "control", "timer", "close"}
  Careful = TRUE
  InteractiveClose = 3
  MaxDepth = 8
  MaxQueue = 2
SYMMETRY MCSymmetry
INVARIANTS TypeOK ModalChain OnlyTopTakesInput
PROPERTIES DialogsAreAStack
CHECK_DEADLOCK FALSE
