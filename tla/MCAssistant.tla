---------------------------- MODULE MCAssistant ----------------------------
(***************************************************************************)
(* Small instances for TLC of what the owner's assistant keeps: the cards  *)
(* it proposes, the turns it answers and the memories it writes.  They     *)
(* share no state, so in a behaviour one of them moves, `part`, and the    *)
(* others rest in an initial state.                                        *)
(***************************************************************************)
EXTENDS PendingAction, TLC

CONSTANTS Convs, NoConv, ReadCall, DirectCall, CardCall,
          MaxRounds, Cap, ChatBounds,
          Spellings, Limit, MaxRows, MemoryBounds

VARIABLES part,
          kind, stored, temp, save, card, turn, left,
          memories, enabled, request, made, memoriesLeft, raced, cleared, strays

-----------------------------------------------------------------------------
\* A setting, an hour and a restart around one call; two calls that fail or
\* are aborted.
MCChatBounds ==
  {[calls |-> 1, faults |-> 0, aborts |-> 0, settings |-> 1, hours |-> 1,
    restarts |-> 1],
   [calls |-> 2, faults |-> 1, aborts |-> 1, settings |-> 0, hours |-> 0,
    restarts |-> 0]}

\* The parts share their model values, so that two permutations do for all.
Chat == INSTANCE ChatTurn WITH
          Turns <- Actions, Bounds <- ChatBounds
ASSUME ChatAssumption == Chat!ChatTurnAssumption

\* Two keys, and one that more befalls.
MCMemoryBounds ==
  {[subjects |-> Convs, steps |-> 1]}
    \cup {[subjects |-> {c}, steps |-> 3] : c \in Convs}

Memories == INSTANCE Memory WITH
              Requests <- Actions, Subjects <- Convs, Bounds <- MemoryBounds,
              left <- memoriesLeft
ASSUME MemoriesAssumption == Memories!MemoryAssumption

chat == <<kind, stored, temp, save, card, turn, left>>
memory ==
  <<memories, enabled, request, made, memoriesLeft, raced, cleared, strays>>

MCInit ==
  /\ part \in {"cards", "chat", "memory"}
  /\ Init
  /\ Chat!Init
  /\ part # "chat" => save /\ left = CHOOSE b \in ChatBounds : TRUE
  /\ Memories!Init
  /\ part # "memory" => memoriesLeft.subjects = Convs

MCNext ==
  \/ part = "cards" /\ Next /\ UNCHANGED <<part, chat, memory>>
  \/ part = "chat" /\ Chat!Next /\ UNCHANGED <<part, vars, memory>>
  \/ part = "memory" /\ Memories!Next /\ UNCHANGED <<part, vars, chat>>

MCSpec == MCInit /\ [][MCNext]_<<part, vars, chat, memory>>

MCSymmetry == Permutations(Actions) \cup Permutations(Convs)
-----------------------------------------------------------------------------
(* A turn that ends, fails, is aborted or outlives a restart leaves what   *)
(* the conversation and its caller were promised (ai-agent.service.ts):    *)
(* one answer stored for one question, no call made twice, nothing of a    *)
(* temporary chat stored, and no number that no tool returned.             *)
ChatKept ==
  part = "chat" =>
    /\ Chat!TypeOK
    /\ Chat!TemporaryNeverStored /\ Chat!AnswerStoredOnce
    /\ Chat!RunsOnce /\ Chat!AnswersFromData

(* Requests that find and insert in between each other leave one memory    *)
(* per key, and none the user cleared comes back (memory.service.ts).      *)
MemoryKept ==
  part = "memory" =>
    Memories!TypeOK /\ Memories!OneTruth /\ Memories!StaysCleared
=============================================================================
