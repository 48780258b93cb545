CONSTANTS
  Actions = {a1, a2}
  NoAction = NoAction
  NoConversation = NoConversation
  Conversations = {c1}
  ChatWorkers = {w1}
  ConfirmWorkers = {w2}
  MaxItems = 1
  TTL = 1
  MaxTime = 2
  Sockets = {s1, s2}
  MaxKeys = 2
  TelegramBounds <- MCTelegramBounds
  Requests = {list, call}
  Lists = {list}
  Servers <- MCServers
  MaxPages = 2
  MaxFaults = 2
SPECIFICATION MCSpec
INVARIANTS LinksKept
PROPERTIES OpenCardsClose ApprovedFinishes ListenerFollows SessionsClosed
CHECK_DEADLOCK FALSE
