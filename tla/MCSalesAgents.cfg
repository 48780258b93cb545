CONSTANTS
  Fragments = {f1, f2}
  Texts = {t1}
  Media = {m1}
  MaxBuffered = 1
  MaxDeliveries = 4
  MaxRestarts = 1
  Events = {e1}
  Webhooks = {h1}
  Poller = Poller
  NoEvent = NoEvent
  MaxCalls = 2
  MaxFailures = 2
  MaxFaults = 1
  Numbers = {n1, n2}
  Inbound = {1, 2}
  Testers = {timer, owner}
  Timer = timer
  KindOf <- MCKindOf
  MaxTokens = 2
  InboxBounds <- MCInboxBounds
SPECIFICATION MCSpec
INVARIANTS TurnsKept  
PROPERTIES CompleteEventuallyAnswered  RepairedAtLast
CHECK_DEADLOCK FALSE
