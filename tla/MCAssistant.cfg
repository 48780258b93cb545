CONSTANTS
  Actions = {a1, a2}
  NoAction = NoAction
  NoConversation = NoConversation
  Conversations = {c1}
  ChatWorkers = {w1}
  ConfirmWorkers = {w2}
  MaxItems = 2
  TTL = 1
  MaxTime = 2
  Convs = {v1, v2}
  NoConv = none
  ReadCall = read
  DirectCall = direct
  CardCall = card
  Spellings = {upper, lower}
  MaxRounds = 2
  Cap = 1
  ChatBounds <- MCChatBounds
  Limit = 2
  MaxRows = 2
  MemoryBounds <- MCMemoryBounds
SPECIFICATION MCSpec
INVARIANTS TypeOK StatusTellsEffects  MemoryKept
PROPERTIES SupersededNeverExecutes ImplementsApproval
CHECK_DEADLOCK FALSE
SYMMETRY MCSymmetry
