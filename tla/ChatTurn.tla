------------------------------ MODULE ChatTurn ------------------------------
(***************************************************************************)
(* A turn of the owner's assistant (chat in ai-agent.service.ts): the      *)
(* conversation it goes to, what of it is stored, the rounds of tool calls *)
(* the model asks for (ai-provider.service.ts), and the answer.            *)
(*                                                                         *)
(* Turns overlap, also in one conversation; the process may restart, which *)
(* empties the cache of the temporary conversations; a card is answered at *)
(* any time.  Left out: the prompts, the memories, what a tool does, what  *)
(* becomes of a card (PendingAction), a customer's turn (SalesSelection),  *)
(* the plan and its credits (Subscription).                                *)
(***************************************************************************)
EXTENDS Integers, Sequences

CONSTANTS
  Turns,        \* requests; each makes one turn
  Convs,        \* conversations there may come to be
  NoConv,       \* no conversation yet
  ReadCall,     \* the call that reads the business's data
  DirectCall,   \* a call that acts without being confirmed
  CardCall,     \* a call that has to be confirmed
  MaxRounds,    \* MAX_TOOL_ROUNDS
  Cap,          \* temporary conversations in the cache (500)
  Bounds        \* bounds by kind

\* What the constants must be; the module that instantiates this one assumes it.
ChatTurnAssumption ==
  /\ MaxRounds \in Nat /\ Cap \in Nat \ {0} /\ NoConv \notin Convs
  /\ Bounds \subseteq [{"calls", "faults", "aborts", "settings", "hours", "restarts"}
                        -> Nat]

VARIABLES
  kind,    \* of each conversation: its durable flag, or "none"
  stored,  \* the messages stored of each conversation
  temp,    \* the cache, in the order its conversations came
  save,    \* the user's setting: history is kept
  card,    \* whether the conversation has a card that waits
  turn,    \* the turns
  left     \* how much may still happen

vars == <<kind, stored, temp, save, card, turn, left>>

Calls == {ReadCall, DirectCall, CardCall}

\* What a message may be about that only the connected ERP can tell: its
\* stock, other data of the business, or an instruction to change it.
OfBusiness == {"stock", "erp", "order"}

Abouts == OfBusiness \cup {"chat"}

NewTurn == [pc |-> "new", conv |-> NoConv, saves |-> TRUE, about |-> "chat",
            auto |-> FALSE, round |-> 0, queue |-> <<>>, cards |-> <<>>,
            memo |-> [c \in Calls |-> "none"], ran |-> [c \in Calls |-> 0],
            result |-> "none"]

Init ==
  /\ left \in Bounds /\ save \in BOOLEAN
  /\ kind = [c \in Convs |-> "none"] /\ stored = [c \in Convs |-> <<>>]
  /\ temp = <<>> /\ card = [c \in Convs |-> FALSE]
  /\ turn = [t \in Turns |-> NewTurn]

Spend(k) == left[k] > 0 /\ left' = [left EXCEPT ![k] = @ - 1]
Set(t, new) == turn' = [turn EXCEPT ![t] = new]
Kind(saves) == IF saves THEN "durable" ELSE "temporary"
Message(t, role) == [by |-> t, role |-> role]
Cached(c) == \E i \in DOMAIN temp : temp[i].conv = c

-----------------------------------------------------------------------------
(* Messages: appendMessage                                                 *)

Pushed(cache, c, message) ==
  [i \in DOMAIN cache |->
     IF cache[i].conv = c
     THEN [cache[i] EXCEPT !.log = Append(@, message), !.old = FALSE]
     ELSE cache[i]]

\* Mutant of StoresUnknown: what is not in the cache is not temporary.
StoresUncached(c) == TRUE

\* After a restart or an eviction the flag decides, not the cache.
StoresUnknown(c) == kind[c] = "durable"

\* `known`: the conversation's kind, if the caller knows it.
Appended(c, message, known) ==
  IF known = "durable" \/ (known = "unknown" /\ ~Cached(c) /\ StoresUnknown(c))
  THEN stored' = [stored EXCEPT ![c] = Append(@, message)] /\ UNCHANGED temp
  ELSE temp' = Pushed(temp, c, message) /\ UNCHANGED stored

Say(t, role) == Appended(turn[t].conv, Message(t, role), kind[turn[t].conv])

-----------------------------------------------------------------------------
(* The conversation                                                        *)

\* The settings are read.
Begin(t, about, auto) ==
  /\ turn[t].pc = "new" /\ (auto => about = "chat")
  /\ Set(t, [NewTurn EXCEPT !.pc = "resolve", !.saves = save,
                            !.about = about, !.auto = auto])
  /\ UNCHANGED <<kind, stored, temp, save, card, left>>

\* resolveConversation: the one asked for, if the setting still is its kind.
Continue(t, c) ==
  /\ turn[t].pc = "resolve" /\ kind[c] = Kind(turn[t].saves)
  /\ Set(t, [turn[t] EXCEPT !.pc = "open", !.conv = c])
  /\ UNCHANGED <<kind, stored, temp, save, card, left>>

OpenNew(t, c) ==
  /\ turn[t].pc = "resolve" /\ kind[c] = "none"
  /\ kind' = [kind EXCEPT ![c] = Kind(turn[t].saves)]
  /\ Set(t, [turn[t] EXCEPT !.pc = "open", !.conv = c])
  /\ UNCHANGED <<stored, temp, save, card, left>>

\* What stays of the cache when the old ones are thrown out: the places of
\* the others, in their order.
Young(cache) ==
  {places \in UNION {[1..n -> DOMAIN cache] : n \in 0..Len(cache)} :
     /\ \A i, j \in DOMAIN places : i < j => places[i] < places[j]
     /\ \A k \in DOMAIN cache :
          ~cache[k].old <=> \E i \in DOMAIN places : places[i] = k}

\* The one that came first makes room.
Admitted(cache, c) ==
  IF \E i \in DOMAIN cache : cache[i].conv = c THEN cache
  ELSE Append(IF Len(cache) >= Cap THEN Tail(cache) ELSE cache,
              [conv |-> c, old |-> FALSE, log |-> <<>>])

\* The user's message; a temporary conversation first gets its place.
Enter(t) ==
  /\ turn[t].pc = "open"
  /\ LET c == turn[t].conv
         question == Message(t, "user") IN
     IF kind[c] = "durable" THEN Appended(c, question, "durable")
     ELSE /\ \E places \in Young(temp) :
               LET young == [i \in DOMAIN places |-> temp[places[i]]] IN
               temp' = Pushed(Admitted(young, c), c, question)
          /\ UNCHANGED stored
  /\ Set(t, [turn[t] EXCEPT !.pc = IF turn[t].about = "stock" THEN "lookUp"
                                   ELSE "ask"])
  /\ UNCHANGED <<kind, save, card, left>>

-----------------------------------------------------------------------------
(* The rounds                                                              *)

Ended(t, result) == [turn[t] EXCEPT !.pc = "done", !.result = result]

\* The catalog is read before the model is asked about it.
LookUp(t) ==
  /\ turn[t].pc = "lookUp"
  /\ Say(t, "tool")
  /\ Set(t, [turn[t] EXCEPT !.pc = "ask", !.memo[ReadCall] = "ok",
                            !.ran[ReadCall] = @ + 1])
  /\ UNCHANGED <<kind, save, card, left>>

\* The failure is the answer.
Failed(t) == [Ended(t, "apology") EXCEPT !.ran[ReadCall] = @ + 1]

LookUpFails(t) ==
  /\ turn[t].pc = "lookUp" /\ Spend("faults")
  /\ Say(t, "answer")
  /\ Set(t, Failed(t))
  /\ UNCHANGED <<kind, save, card>>

\* tool_choice of the round: the model has to turn to the business's data.
Required(t) == turn[t].about \in {"erp", "order"} /\ turn[t].round = 0

\* The calls a round offers.
Offered(t) == CASE turn[t].about = "chat" -> Calls
                [] turn[t].about = "order" -> {ReadCall, CardCall}
                [] turn[t].about \in {"stock", "erp"} -> {ReadCall}

Bounded(t) == turn[t].round < MaxRounds

ModelCalls(t) ==
  /\ turn[t].pc = "ask" /\ Bounded(t)
  /\ \E n \in 1..left.calls : \E queue \in [1..n -> Offered(t)] :
       /\ Set(t, [turn[t] EXCEPT !.pc = "calls", !.queue = queue])
       /\ left' = [left EXCEPT !.calls = @ - n]
  /\ UNCHANGED <<kind, stored, temp, save, card>>

ModelAnswers(t) ==
  /\ turn[t].pc = "ask" /\ Bounded(t) /\ ~Required(t)
  /\ Say(t, "answer")
  /\ Set(t, Ended(t, "answer"))
  /\ UNCHANGED <<kind, save, card, left>>

Partial == "part"

\* The stream breaks off, is aborted or never begins (toSafeError).
ModelFails(t) ==
  /\ turn[t].pc = "ask" /\ Bounded(t) /\ Spend("faults")
  /\ Say(t, Partial) \/ UNCHANGED <<stored, temp>>
  /\ Set(t, Ended(t, "error"))
  /\ UNCHANGED <<kind, save, card>>

\* Too many rounds: the steps made stay made, and that is said.
GivesUp(t) ==
  /\ turn[t].pc = "ask" /\ ~Bounded(t)
  /\ Say(t, "answer")
  /\ Set(t, Ended(t, "apology"))
  /\ UNCHANGED <<kind, save, card, left>>

-----------------------------------------------------------------------------
(* The calls of a round                                                    *)

Calling(t) == turn[t].pc = "calls" /\ turn[t].queue # <<>>
Call(t) == Head(turn[t].queue)

\* attemptedTools knows this call with these arguments, failed or not.
Attempted(t) == turn[t].memo[Call(t)] # "none"

Called(t, memo) ==
  [turn[t] EXCEPT !.queue = Tail(@), !.memo[Call(t)] = memo,
                  !.ran[Call(t)] = @ + 1]

CallAgain(t) ==
  /\ Calling(t) /\ Attempted(t)
  /\ Set(t, [turn[t] EXCEPT !.queue = Tail(@)])
  /\ UNCHANGED <<kind, stored, temp, save, card, left>>

CallRuns(t) ==
  /\ Calling(t) /\ ~Attempted(t) /\ Call(t) # CardCall
  /\ Say(t, "tool")
  /\ Set(t, Called(t, "ok"))
  /\ UNCHANGED <<kind, save, card, left>>

\* The model is told; what the call did by then stays done.
CallFails(t) ==
  /\ Calling(t) /\ ~Attempted(t) /\ Spend("faults")
  /\ Set(t, Called(t, "failed"))
  /\ UNCHANGED <<kind, stored, temp, save, card>>

\* confirmation_required: the call is only prepared.
CallPrepared(t) ==
  /\ Calling(t) /\ ~Attempted(t) /\ Call(t) = CardCall
  /\ Set(t, [Called(t, "card") EXCEPT !.cards = Append(@, CardCall)])
  /\ UNCHANGED <<kind, stored, temp, save, card, left>>

\* The user is gone: throwIfAborted, between rounds and between calls.
Aborts(t) ==
  /\ turn[t].pc = "ask" \/ Calling(t)
  /\ Spend("aborts")
  /\ Set(t, Ended(t, "aborted"))
  /\ UNCHANGED <<kind, stored, temp, save, card>>

NextRound(t) ==
  /\ turn[t].pc = "calls" /\ turn[t].queue = <<>> /\ turn[t].cards = <<>>
  /\ Set(t, [turn[t] EXCEPT !.pc = "ask", !.round = @ + 1])
  /\ UNCHANGED <<kind, stored, temp, save, card, left>>

AllCalled(t) ==
  turn[t].pc = "calls" /\ turn[t].queue = <<>> /\ turn[t].cards # <<>>

\* One card for all that was prepared; it takes the place of an older one.
Propose(t) ==
  /\ AllCalled(t) /\ ~(turn[t].auto /\ Len(turn[t].cards) = 1)
  /\ card' = [card EXCEPT ![turn[t].conv] = TRUE]
  /\ Say(t, "answer")
  /\ Set(t, Ended(t, "card"))
  /\ UNCHANGED <<kind, save, left>>

\* A message the user clearly wants sent, and does not want to confirm.
SendAtOnce(t) ==
  /\ AllCalled(t) /\ turn[t].auto /\ Len(turn[t].cards) = 1
  /\ card' = [card EXCEPT ![turn[t].conv] = FALSE]
  /\ Appended(turn[t].conv, Message(t, "answer"), "unknown")
  /\ Set(t, Ended(t, "sent"))
  /\ UNCHANGED <<kind, save, left>>

-----------------------------------------------------------------------------
(* What happens beside the turns                                           *)

\* confirm: a card is answered, maybe after a restart; recordOutcome.
Confirm(c) ==
  /\ card[c]
  /\ card' = [card EXCEPT ![c] = FALSE]
  /\ Appended(c, [by |-> c, role |-> "outcome"], "unknown")
  /\ UNCHANGED <<kind, save, turn, left>>

ChangesSetting ==
  /\ Spend("settings") /\ save' = ~save
  /\ UNCHANGED <<kind, stored, temp, card, turn>>

HourPasses ==
  /\ Spend("hours")
  /\ temp' = [i \in DOMAIN temp |-> [temp[i] EXCEPT !.old = TRUE]]
  /\ UNCHANGED <<kind, stored, save, card, turn>>

Restart ==
  /\ Spend("restarts") /\ temp' = <<>>
  /\ turn' = [t \in Turns |-> IF turn[t].pc \in {"new", "done"} THEN turn[t]
                              ELSE Ended(t, "crashed")]
  /\ UNCHANGED <<kind, stored, save, card>>

Step(t) ==
  \/ \E c \in Convs : Continue(t, c) \/ OpenNew(t, c)
  \/ Enter(t) \/ LookUp(t) \/ LookUpFails(t)
  \/ ModelCalls(t) \/ ModelAnswers(t) \/ ModelFails(t) \/ GivesUp(t)
  \/ CallAgain(t) \/ CallRuns(t) \/ CallFails(t) \/ CallPrepared(t)
  \/ NextRound(t) \/ Propose(t) \/ SendAtOnce(t)

Next ==
  \/ \E t \in Turns : Step(t) \/ Aborts(t)
  \/ \E t \in Turns, about \in Abouts, auto \in BOOLEAN : Begin(t, about, auto)
  \/ \E c \in Convs : Confirm(c)
  \/ ChangesSetting \/ HourPasses \/ Restart

Spec == Init /\ [][Next]_vars

-----------------------------------------------------------------------------
(* Properties                                                              *)

\* Every variable has its type, and the cache keeps within its size.
TypeOK ==
  /\ \A c \in Convs : kind[c] \in {"none", "durable", "temporary"}
  /\ \A t \in Turns : turn[t].round \in 0..MaxRounds
  /\ \A t \in Turns : turn[t].conv \in Convs \cup {NoConv}
  /\ Len(temp) <= Cap
  /\ \A i, j \in DOMAIN temp : temp[i].conv = temp[j].conv => i = j

\* Nothing said in a temporary conversation is ever stored, whatever was
\* evicted, restarted or set otherwise before a card of it was answered.
TemporaryNeverStored ==
  \A c \in Convs : kind[c] = "temporary" => stored[c] = <<>>

Answers(t, log) ==
  {i \in DOMAIN log : log[i] = Message(t, "answer")}

Questions(t, log) == {i \in DOMAIN log : log[i] = Message(t, "user")}

\* What a turn of a durable conversation returned is stored, once and after
\* its question; what broke off is not stored as an answer, so that no later
\* turn reads half an answer as history.
AnswerStoredOnce ==
  \A t \in Turns : LET c == turn[t].conv IN
    turn[t].pc = "done" /\ c # NoConv =>
      IF kind[c] = "durable"
         /\ turn[t].result \in {"answer", "apology", "card", "sent"}
      THEN \E q \in Questions(t, stored[c]), a \in Answers(t, stored[c]) :
             q < a /\ Answers(t, stored[c]) = {a}
      ELSE Answers(t, stored[c]) = {}

\* However often the model repeats a call, in one round or a later one, the
\* turn runs it once, also when it failed: it may have acted by then.
RunsOnce ==
  \A t \in Turns : \A call \in Calls : turn[t].ran[call] <= 1

\* No answer about stock is the model's own without the catalog read, and
\* none about the business without an attempt to turn to it.
AnswersFromData ==
  \A t \in Turns : turn[t].result = "answer" =>
    /\ turn[t].about = "stock" => turn[t].memo[ReadCall] = "ok"
    /\ turn[t].about \in {"erp", "order"} =>
         \E call \in {ReadCall, CardCall} : turn[t].memo[call] # "none"
=============================================================================
