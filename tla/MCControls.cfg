SPECIFICATION ControlsSpec
CONSTANTS
  w1 = w1
  w2 = w2
  n1 = n1
  k1 = k1
  Windows = {w1, w2}
  UserNames = {n1}
  Keys = {k1}
  i1 = i1
  i2 = i2
  i3 = i3
  Ids = {i1, i2, i3}
  NoId = NoId
  MaxSlots = 3
  NoWindow = NoWindow
  NoName = NoName
  NoKey = NoKey
  Programs = {TRUE, FALSE}
  TreeHandles = {1, 2, 3, 4, 5}
  MaxLevels = 4
  MaxCargo = 1
  SortOrders <- MCSortOrders
  DeepAdds = FALSE
SYMMETRY Symmetric
INVARIANTS IndexIsExact IdsAreUnique TimersMatch NoOrphanHotKey KeysFollowFocus BlinkPaired NoRuntimeError OnceTicksOnce MapFollowsTree
PROPERTY ItemsAreATree
CHECK_DEADLOCK FALSE
