SPECIFICATION FairSpec
CONSTANTS
  main = main
  c1 = c1
  m1 = m1
  h1 = h1
  h2 = h2
  h3 = h3
  NoName = NoName
  NoHandle = NoHandle
  Names = {main, c1, m1}
  Main = main
  Modal = {m1}
  Manual = {}
  NoShow = {}
  OnInit = {}
  OnRelease = {m1}
  AskClose = {c1}
  Activations <- MCActivations
  Handles <- MCHandles
  ActivateIds = {1}
  ControlIds = {1}
  Uses = {"activate", "release", "control", "timer", "close"}
  Careful = TRUE
  InteractiveClose = 1
  MaxDepth = 6
  MaxQueue = 2
PROPERTIES ActivateReturns
CHECK_DEADLOCK FALSE
