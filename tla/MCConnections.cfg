CONSTANTS
  Workers = {w1, w2}
  Nobody = Nobody
  Rooms <- MCRooms
  LinkTTL = 1
  MaxTime = 1
  Browsers = {b1, b2}
  Callers = {k1, k2}
  Accounts = {a1, a2}
  States = {s1}
  MaxTokens = 3
  MaxEvents = 4
  BitoBounds <- MCBitoBounds
  CalendarBounds <- MCCalendarBounds
  InstagramBounds <- MCInstagramBounds
SPECIFICATION MCSpec
INVARIANTS SessionsKept BitoKept  
PROPERTIES RotatesOnce RequestsEnd
CHECK_DEADLOCK FALSE
