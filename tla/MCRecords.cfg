CONSTANTS
  Workers = {w1, w2}
  MaxAccounts = 5
  Transactions = {1, 2}
  Categories = {"c1"}
  Bounds <- LedgerBounds
  FileBounds <- MCFileBounds
  Uploads = {u1}
  MaxDepth = 2
  Times = {1, 2, 3}
  MaxBegun = 5
  Devices = {d1, d2, d3}
  Groups = {g1, g2}
  Spendings = {1, 2}
  BudgetAmounts = {0, 2, 4}
  Entities = {"task"}
  DeviceLimit = 2
  MaxRetries = 2
  MaxTime = 2
  MaxPushes = 3
  PushBounds <- MCPushBounds
  Root = root
  Unmade = unmade
  Gone = gone
  NoFile = nofile
  Overall = overall
SPECIFICATION MCSpec
INVARIANTS  FilesKept PlansKept
PROPERTIES PushesKept
SYMMETRY MCSymmetry
CHECK_DEADLOCK FALSE
