CONSTANTS
  Actions = {a1, a2}
  NoAction = NoAction
  NoConversation = NoConversation
  Conversations = {c1}
  ChatWorkers = {w1, w3}
  ConfirmWorkers = {w2}
  MaxItems = 1
  TTL = 1
  MaxTime = 2
SPECIFICATION Spec
PROPERTIES SupersededNeverExecutes
CHECK_DEADLOCK FALSE
