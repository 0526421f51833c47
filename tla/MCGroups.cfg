SPECIFICATION Spec
CONSTANTS
  main = main
  c1 = c1
  m1 = m1
  h1 = h1
  h2 = h2
  h3 = h3
  NoName = NoName
  NoHandle = NoHandle
  Names = {main, c1, m1}
  Main = main
  Modal = {m1}
  Manual = {}
  NoShow = {}
  OnInit = {c1}
  OnRelease = {m1}
  AskClose = {c1}
  Activations <- MCActivations
  Handles <- MCHandles
  ActivateIds = {1}
  ControlIds = {2}
  Uses = {"activate", "nowait", "release", "events", "loop", "control", "close"}
  Careful = FALSE
  InteractiveClose = 2
  MaxDepth = 4
  MaxQueue = 1
SYMMETRY MCSymmetry
INVARIANTS TableConsistent CounterIsExact
PROPERTIES QuitAtLast
CHECK_DEADLOCK FALSE
