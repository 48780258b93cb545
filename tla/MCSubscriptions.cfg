CONSTANTS
  Requests = {r1, r2, r3}
  Editors = {e1, e2}
  Callers = {}
  Instances = {i1}
  Nothing = Nothing
  Limit = 1
  MaxBonus = 0
  MaxPeriods = 3
  Plan = plan1
  Admin = admin1
  Caller = caller1
SPECIFICATION MCSpec
INVARIANTS TypeOK
PROPERTIES DecidedOnce SeenIsDecided NotCutShort MeteredInTheEnd
CHECK_DEADLOCK FALSE
