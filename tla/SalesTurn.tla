------------------------------ MODULE SalesTurn ------------------------------
(***************************************************************************)
(* One customer's chat with the sales agent, as sales-turn-coordinator.ts  *)
(* and the handleIncoming of the Telegram and WhatsApp agents order it:    *)
(* deliveries of messages reserve a receipt one after another, incomplete  *)
(* typing pieces ("fragments") are buffered, and turns run one at a time   *)
(* on a promise chain.                                                     *)
(*                                                                         *)
(* Every map of the coordinator is keyed by the chat, so one chat is the   *)
(* whole story.  The maps live in the memory of the process; only the      *)
(* receipts are in the database and survive a restart.  A step is what     *)
(* runs between two awaits; an answer is the moment a turn hands its text  *)
(* to processIncoming.  The texts themselves are not modelled: a message   *)
(* is an identity and a kind.                                              *)
(***************************************************************************)
EXTENDS Integers, Sequences, SequencesExt

CONSTANTS
  Fragments,     \* messages that isLikelySalesTextFragment accepts
  Texts,         \* messages with complete text
  Media,         \* voice notes and images
  MaxBuffered,   \* fragments the bucket of a chat holds (8)
  MaxDeliveries, \* bound: deliveries of messages, repeated ones included
  MaxRestarts    \* bound: restarts of the process

Messages == Fragments \cup Texts \cup Media
Complete == Texts \cup Media

ASSUME SalesTurnAssumption ==
  /\ Fragments \cap Complete = {} /\ Texts \cap Media = {}
  /\ MaxBuffered \in Nat \ {0}
  /\ MaxDeliveries \in Nat
  /\ MaxRestarts \in Nat

VARIABLES
  receiptTable, \* the receipt table exists (else: schema lag, P2021/P2022)
  receipts,     \* rows of salesInboundReceipt
  fallback,     \* fallbackReceipts
  reserving,    \* the reservation chain: deliveries waiting for their insert
  generation,   \* generations
  fragments,    \* textFragments
  turns,        \* the turn chain, the running turn first
  delivered,    \* history: number of deliveries so far
  answered,     \* history: what was handed to the seller, in order
  newest,       \* history: the messages that got the current generation
  restarts      \* history: restarts so far

vars == <<receiptTable, receipts, fallback, reserving, generation, fragments,
          turns, delivered, answered, newest, restarts>>

history == <<delivered, answered, newest, restarts>>

Init ==
  /\ receiptTable \in BOOLEAN
  /\ receipts = {} /\ fallback = {}
  /\ reserving = <<>> /\ turns = <<>>
  /\ generation = 0
  /\ fragments = <<>>
  /\ delivered = 0 /\ answered = <<>> /\ newest = {} /\ restarts = 0

-----------------------------------------------------------------------------
(* Reservation.                                                            *)

\* No turn is about to start: promise callbacks run before anything that comes
\* from outside, so a turn whose predecessor ended has started by then.
Settled == turns # <<>> => Head(turns).pc # "queued"

\* A webhook or listener callback enters the reservation chain. Platforms
\* deliver a message again when they are unsure about the first delivery.
Deliver(m) ==
  /\ Settled /\ delivered < MaxDeliveries
  /\ delivered' = delivered + 1
  /\ reserving' = Append(reserving, [message |-> m, number |-> delivered + 1])
  /\ UNCHANGED <<receiptTable, receipts, fallback, generation, fragments,
                 turns, answered, newest, restarts>>

\* Whose insert may return next.
Reservable == IF reserving = <<>> THEN {} ELSE {1}

\* A receipt for this message exists; the variant asks the memory only.
DuplicateInMemory(m) == m \in fallback
Duplicate(m) == IF receiptTable THEN m \in receipts ELSE m \in fallback

\* Who gets the next generation.
Counts(m) == ~Duplicate(m)

\* The bucket with one more fragment, the oldest dropped when it is full.
Bucket(m) ==
  IF Len(fragments) < MaxBuffered THEN Append(fragments, m)
                                  ELSE Tail(Append(fragments, m))

\* The insert returned or refused the row: a new message gets the next
\* generation, buffers its text if it is a fragment and enters the turn chain;
\* the rest of the reservation and the caller run without an await in between.
Reserve ==
  \E i \in Reservable :
    LET d == reserving[i]
        m == d.message
        new == ~Duplicate(m)
        turn == [message |-> m, number |-> d.number,
                 generation |-> generation + 1, pc |-> "queued"]
    IN
    /\ Settled
    /\ reserving' = RemoveAt(reserving, i)
    /\ IF receiptTable
         THEN receipts' = receipts \cup {m} /\ UNCHANGED fallback
         ELSE fallback' = fallback \cup {m} /\ UNCHANGED receipts
    /\ IF Counts(m) THEN generation' = generation + 1 /\ newest' = {m}
                    ELSE UNCHANGED <<generation, newest>>
    /\ turns' = IF new THEN Append(turns, turn) ELSE turns
    /\ fragments' = IF new /\ m \in Fragments
                      THEN Bucket(m) ELSE fragments
    /\ UNCHANGED <<receiptTable, delivered, answered, restarts>>

\* Any other database error: the callback logs it and drops the message.
ReserveFails ==
  /\ Settled /\ reserving # <<>>
  /\ reserving' = Tail(reserving)
  /\ UNCHANGED <<receiptTable, receipts, fallback, generation, fragments,
                 turns, history>>

-----------------------------------------------------------------------------
(* Turns.                                                                  *)

Current(t) == generation = t.generation

\* A turn leaves the work to a newer one; the variant lets any turn do so.
HandsOverAny(t) == ~Current(t)
HandsOver(t) == t.message \in Fragments /\ ~Current(t)

\* The first turn of the chain ends and the next one may start.
Ends == turns' = Tail(turns)

\* What the turn hands over: consumeSalesTextFragments, or the message's own
\* text where that returned nothing (a voice or an image, an empty bucket).
Answers(batch) ==
  /\ turns' = [turns EXCEPT ![1].pc = "answering"]
  /\ answered' = Append(answered, [number |-> turns[1].number, batch |-> batch])

\* The first turn starts: an overtaken fragment ends at once and a current one
\* is debounced; a complete text takes the fragments along; a voice or image
\* goes alone.
StartTurn ==
  LET t == Head(turns) IN
  /\ turns # <<>> /\ t.pc = "queued"
  /\ \/ /\ HandsOver(t)
        /\ Ends
        /\ UNCHANGED <<fragments, answered>>
     \/ /\ ~HandsOver(t) /\ t.message \in Fragments
        /\ turns' = [turns EXCEPT ![1].pc = "debounce"]
        /\ UNCHANGED <<fragments, answered>>
     \/ /\ ~HandsOver(t) /\ t.message \in Texts
        /\ Answers(Append(fragments, t.message))
        /\ fragments' = <<>>
     \/ /\ ~HandsOver(t) /\ t.message \in Media
        /\ Answers(<<t.message>>)
        /\ UNCHANGED fragments
  /\ UNCHANGED <<receiptTable, receipts, fallback, reserving, generation,
                 delivered, newest, restarts>>

\* The 550 ms of a fragment are over.
Debounced ==
  LET t == Head(turns) IN
  /\ turns # <<>> /\ t.pc = "debounce"
  /\ \/ HandsOver(t) /\ Ends /\ UNCHANGED <<fragments, answered>>
     \/ /\ ~HandsOver(t)
        /\ Answers(IF fragments = <<>> THEN <<t.message>> ELSE fragments)
        /\ fragments' = <<>>
  /\ UNCHANGED <<receiptTable, receipts, fallback, reserving, generation,
                 delivered, newest, restarts>>

\* processIncoming returned or threw: the chain goes on either way.
FinishTurn ==
  /\ turns # <<>> /\ Head(turns).pc = "answering"
  /\ Ends
  /\ UNCHANGED <<receiptTable, receipts, fallback, reserving, generation,
                 fragments, history>>

\* cleanupEphemeral, at 10 000 chats: a chat without turns that nobody touched
\* for six hours is forgotten, and so are old fallback receipts.
Forget ==
  /\ turns = <<>>
  /\ \/ generation # 0 /\ generation' = 0 /\ UNCHANGED <<fragments, fallback>>
     \/ fragments # <<>> /\ fragments' = <<>> /\ UNCHANGED <<generation, fallback>>
     \/ fallback # {} /\ fallback' = {} /\ UNCHANGED <<generation, fragments>>
  /\ UNCHANGED <<receiptTable, receipts, reserving, turns, history>>

\* The process stops and another starts: its memory is gone.
Restart ==
  /\ Settled /\ restarts < MaxRestarts
  /\ restarts' = restarts + 1
  /\ fallback' = {} /\ reserving' = <<>> /\ generation' = 0
  /\ fragments' = <<>> /\ turns' = <<>> /\ newest' = {}
  /\ UNCHANGED <<receiptTable, receipts, delivered, answered>>

RunTurn == StartTurn \/ Debounced \/ FinishTurn

Next ==
  \/ \E m \in Messages : Deliver(m)
  \/ Reserve \/ ReserveFails
  \/ RunTurn
  \/ Forget
  \/ Restart

\* The event loop resumes what awaits: inserts return, timers fire and answers
\* end (their calls have timeouts). Customers and restarts owe nothing.
Spec == Init /\ [][Next]_vars
FairSpec == Spec /\ WF_vars(Reserve \/ ReserveFails) /\ WF_vars(RunTurn)

-----------------------------------------------------------------------------
(* Properties.                                                             *)

Turn == [message : Messages, number : 1..MaxDeliveries,
         generation : 1..MaxDeliveries, pc : {"queued", "debounce", "answering"}]

\* Every variable holds a value of its type in the code.
TypeOK ==
  /\ receiptTable \in BOOLEAN
  /\ receipts \subseteq Messages /\ fallback \subseteq Messages
  /\ reserving \in Seq([message : Messages, number : 1..MaxDeliveries])
  /\ generation \in 0..MaxDeliveries
  /\ fragments \in Seq(Messages) /\ Len(fragments) <= MaxBuffered
  /\ turns \in Seq(Turn)
  /\ delivered \in 0..MaxDeliveries
  /\ answered \in Seq([number : 1..MaxDeliveries, batch : Seq(Messages)])
  /\ newest \in SUBSET Messages
  /\ restarts \in 0..MaxRestarts

Answered(m) == \E k \in DOMAIN answered : Contains(answered[k].batch, m)

\* "Every complete message in one customer chat executes strictly in order":
\* turns are answered in the order in which their messages came in, although
\* their receipts are inserted by concurrent callbacks.
AnsweredInIngressOrder ==
  \A k \in 1..Len(answered) - 1 : answered[k].number < answered[k + 1].number

\* However often a message is delivered and wherever the process restarts, a
\* complete message is answered once at most (the receipt table existing).
CompleteAnsweredOnce ==
  receiptTable =>
    \A k, l \in DOMAIN answered, m \in Complete :
      Contains(answered[k].batch, m) /\ Contains(answered[l].batch, m) => k = l

\* "A newer turn takes ownership" of a fragment: an idle chat has no fragment
\* left, unless the newest message is a voice or an image, which takes none.
FragmentsTakenOver ==
  turns = <<>> /\ fragments # <<>> => newest \subseteq Media /\ newest # {}

\* What a chat keeps, whatever is delivered, fails or restarts.
TurnsKept ==
  TypeOK /\ AnsweredInIngressOrder /\ CompleteAnsweredOnce /\ FragmentsTakenOver

\* The generation "never cancels a complete customer message": a complete
\* message that got its receipt is answered, unless the process restarts.
Waits(m) == \E k \in DOMAIN turns : turns[k].message = m
CompleteEventuallyAnswered ==
  /\ \A m \in Complete : []<>(Waits(m) => Answered(m))
  /\ [][\A m \in Complete :
          Waits(m) /\ ~Waits(m)' => Answered(m)' \/ restarts' # restarts]_vars
=============================================================================
