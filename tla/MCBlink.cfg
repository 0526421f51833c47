SPECIFICATION Spec
CONSTANTS
  Windows = {w1, w2}
  UserNames = {n1}
  Keys = {k1}
  Ids = {i1, i2, i3}
  NoId = NoId
  MaxSlots = 3
  NoWindow = NoWindow
  NoName = NoName
  NoKey = NoKey
  Programs = {FALSE}
PROPERTY BlinkCloses
CHECK_DEADLOCK FALSE
