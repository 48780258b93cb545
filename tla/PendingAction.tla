---------------------------- MODULE PendingAction ----------------------------
(***************************************************************************)
(* The life of a proposed AI action (a "card" the owner has to approve):   *)
(* AiAgentService.chat prepares it, AiAgentService.confirm approves or     *)
(* cancels it and runs its items, expireStale sweeps it.                   *)
(*                                                                         *)
(* A worker is one HTTP or chat request being served by some server        *)
(* instance; every step of a worker is one database call or one tool call  *)
(* of the handler, so the awaits between them are where other workers run. *)
(* All shared state is in the database, so the instance a worker runs on   *)
(* does not matter; a crash of an instance, or a database call that        *)
(* throws, is the worker stopping where it stands.                         *)
(*                                                                         *)
(* Left out: message history, activity log and token accounting, which     *)
(* the handlers write best-effort and never read back to decide anything   *)
(* here, and the wording of the answers.                                   *)
(***************************************************************************)
EXTENDS Integers, FiniteSets

CONSTANTS
  Actions, NoAction,              \* identifiers of PendingAgentAction rows
  Conversations, NoConversation,  \* conversations of one user
  ChatWorkers,    \* requests that may run chat (and then confirm)
  ConfirmWorkers, \* requests that may only run confirm
  MaxItems,       \* largest batch the model proposes in one turn
  TTL,            \* validity of a card, in clock units (30 minutes)
  MaxTime         \* bound of the clock

ASSUME PendingActionAssumption ==
  /\ IsFiniteSet(Actions)
  /\ NoAction \notin Actions
  /\ NoConversation \notin Conversations
  /\ MaxItems \in Nat \ {0}
  /\ TTL \in Nat \ {0}
  /\ MaxTime \in Nat

Workers == ChatWorkers \cup ConfirmWorkers
Items == 1..MaxItems

VARIABLES
  now,           \* the wall clock
  status,        \* status column of the row; "none" before it is created
  conversation,  \* conversationId column
  size,          \* number of actions in the input column (1 unless __batch__)
  expiresAt,     \* expiresAt column
  serial,        \* order of createdAt: 1 for the first row ever created
  errorCode,     \* errorCode column
  notice,        \* the AI_AGENT_ACTION notification about the row
  ran,           \* history: how many times each item took effect
  worker         \* the requests in flight

vars == <<now, status, conversation, size, expiresAt, serial, errorCode,
          notice, ran, worker>>

cardVars == <<conversation, size, expiresAt, serial>>

Resolved == {"EXECUTED", "FAILED", "CANCELLED", "EXPIRED"}
Statuses == {"none", "PENDING", "EXECUTING"} \cup Resolved

Request(pc, a, c, yes) ==
  [pc |-> pc, action |-> a, conversation |-> c, confirmed |-> yes, done |-> 0]
Idle == Request("idle", NoAction, NoConversation, FALSE)
Confirming(a, yes) == Request("read", a, NoConversation, yes)
Proposing(c) == Request("supersede", NoAction, c, FALSE)

Becomes(w, request) == worker' = [worker EXCEPT ![w] = request]
GoesTo(w, pc) == worker' = [worker EXCEPT ![w].pc = pc]

Created == {a \in Actions : status[a] # "none"}

Init ==
  /\ now = 0
  /\ status = [a \in Actions |-> "none"]
  /\ conversation = [a \in Actions |-> NoConversation]
  /\ size = [a \in Actions |-> 0]
  /\ expiresAt = [a \in Actions |-> 0]
  /\ serial = [a \in Actions |-> 0]
  /\ errorCode = [a \in Actions |-> "none"]
  /\ notice = [a \in Actions |-> "none"]
  /\ ran = [a \in Actions |-> [i \in Items |-> 0]]
  /\ worker = [w \in Workers |-> Idle]

-----------------------------------------------------------------------------
(* chat: the reply that approves, and the turn that proposes.              *)

Pending(c) == {a \in Actions : status[a] = "PENDING" /\ conversation[a] = c}

\* findFirst(PENDING of the conversation, newest first) found a row and the
\* message is a yes or a no: the request goes on as confirm(pending.id).
ChatReplies(w, c, a, yes) ==
  /\ worker[w].pc = "idle"
  /\ a \in Pending(c)
  /\ \A b \in Pending(c) : serial[b] <= serial[a]
  /\ Becomes(w, Confirming(a, yes))
  /\ UNCHANGED <<now, status, cardVars, errorCode, notice, ran>>

\* Any other message goes to the model, whose tool calls ask for confirmation.
\* (A turn that ends in an answer changes nothing modelled here.)
ChatProposes(w, c) ==
  /\ worker[w].pc = "idle"
  /\ Becomes(w, Proposing(c))
  /\ UNCHANGED <<now, status, cardVars, errorCode, notice, ran>>

\* The rows a new proposal withdraws; the variant forgets to.
SupersededNone(c) == {}
Superseded(c) == Pending(c)

\* updateMany(PENDING of the conversation -> CANCELLED).
Supersede(w) ==
  /\ worker[w].pc = "supersede"
  /\ status' = [a \in Actions |->
                  IF a \in Superseded(worker[w].conversation)
                    THEN "CANCELLED" ELSE status[a]]
  /\ GoesTo(w, "create")
  /\ UNCHANGED <<now, cardVars, errorCode, notice, ran>>

\* create(PENDING). A single send_telegram_message of an owner who opted out
\* of confirmation goes straight on to confirm; otherwise the card is shown.
CreateCard(w, a, n) ==
  /\ worker[w].pc = "create"
  /\ status[a] = "none"
  /\ now + TTL < MaxTime
  /\ status' = [status EXCEPT ![a] = "PENDING"]
  /\ conversation' = [conversation EXCEPT ![a] = worker[w].conversation]
  /\ size' = [size EXCEPT ![a] = n]
  /\ expiresAt' = [expiresAt EXCEPT ![a] = now + TTL]
  /\ serial' = [serial EXCEPT ![a] = Cardinality(Created) + 1]
  /\ \/ Becomes(w, Request("notify", a, NoConversation, FALSE))
     \/ /\ n = 1
        /\ Becomes(w, Confirming(a, TRUE))
  /\ UNCHANGED <<now, errorCode, notice, ran>>

\* notification.create(AI_AGENT_ACTION, SENT), then the answer with the card.
NotifyCard(w) ==
  /\ worker[w].pc = "notify"
  /\ notice' = [notice EXCEPT ![worker[w].action] = "unread"]
  /\ Becomes(w, Idle)
  /\ UNCHANGED <<now, status, cardVars, errorCode, ran>>

-----------------------------------------------------------------------------
(* confirm: approve or cancel one card.                                    *)

\* POST confirm/cancel for a card the client knows, however old its view is.
ConfirmRequested(w, a, yes) ==
  /\ worker[w].pc = "idle"
  /\ a \in Created
  /\ Becomes(w, Confirming(a, yes))
  /\ UNCHANGED <<now, status, cardVars, errorCode, notice, ran>>

\* findFirst and the look at the clock: a row that is not PENDING is answered
\* from what was read; one that is goes on to be claimed, or marked EXPIRED.
ConfirmReads(w) ==
  LET a == worker[w].action IN
  /\ worker[w].pc = "read"
  /\ \/ status[a] # "PENDING" /\ Becomes(w, Idle)
     \/ status[a] = "PENDING" /\ expiresAt[a] <= now /\ GoesTo(w, "expire")
     \/ status[a] = "PENDING" /\ expiresAt[a] > now /\ GoesTo(w, "claim")
  /\ UNCHANGED <<now, status, cardVars, errorCode, notice, ran>>

\* updateMany(id, PENDING -> EXPIRED), then a 400.
ConfirmExpires(w) ==
  LET a == worker[w].action IN
  /\ worker[w].pc = "expire"
  /\ status' = [status EXCEPT ![a] = IF @ = "PENDING" THEN "EXPIRED" ELSE @]
  /\ Becomes(w, Idle)
  /\ UNCHANGED <<now, cardVars, errorCode, notice, ran>>

\* The where clause of the claim; the variants read the row first and then
\* update it by id, without one of the two conditions.
ClaimableTwice(a) == expiresAt[a] > now
ClaimableLate(a) == status[a] = "PENDING"
Claimable(a) == status[a] = "PENDING" /\ expiresAt[a] > now

\* updateMany(id, PENDING, expiresAt > now -> EXECUTING or CANCELLED): the
\* compare-and-set that decides between concurrent approvals and cancels.
Claim(w) ==
  LET a == worker[w].action IN
  /\ worker[w].pc = "claim"
  /\ Claimable(a)
  /\ status' = [status EXCEPT ![a] =
                  IF worker[w].confirmed THEN "EXECUTING" ELSE "CANCELLED"]
  /\ GoesTo(w, IF worker[w].confirmed THEN "execute" ELSE "outcome")
  /\ UNCHANGED <<now, cardVars, errorCode, notice, ran>>

\* count # 1: another request was first, or the card just expired (409).
ClaimLost(w) ==
  /\ worker[w].pc = "claim"
  /\ ~Claimable(worker[w].action)
  /\ Becomes(w, Idle)
  /\ UNCHANGED <<now, status, cardVars, errorCode, notice, ran>>

\* The loop over the items; the variant runs once too often.
MoreItemsInclusive(w) == worker[w].done <= size[worker[w].action]
MoreItems(w) == worker[w].done < size[worker[w].action]

\* One item of the batch, through AIToolExecutionService.execute: the gates,
\* the tool, the counters. It may be refused or fail before it had an effect,
\* take effect, or take effect and then throw.
ExecuteItem(w) ==
  LET a == worker[w].action
      i == worker[w].done + 1
      Effect == ran' = [ran EXCEPT ![a][i] = @ + 1]
      Success == worker' = [worker EXCEPT ![w].done = i]
      Failure == GoesTo(w, "fail")
  IN
  /\ worker[w].pc = "execute"
  /\ MoreItems(w)
  /\ \/ Effect /\ Success
     \/ Effect /\ Failure
     \/ UNCHANGED ran /\ Failure
  /\ UNCHANGED <<now, status, cardVars, errorCode, notice>>

\* A variant that tries the item again instead of recording the failure.
RetryForever(w) ==
  /\ worker[w].pc = "fail"
  /\ GoesTo(w, "execute")
  /\ UNCHANGED <<now, status, cardVars, errorCode, notice, ran>>

\* catch: update(id -> FAILED) with what is known to be done.
RecordFailure(w) ==
  LET a == worker[w].action IN
  /\ worker[w].pc = "fail"
  /\ status' = [status EXCEPT ![a] = "FAILED"]
  /\ errorCode' = [errorCode EXCEPT ![a] =
       IF worker[w].done > 0 THEN "PARTIAL_EXECUTION" ELSE "EXECUTION_FAILED"]
  /\ GoesTo(w, "outcome")
  /\ UNCHANGED <<now, cardVars, notice, ran>>

\* update(id -> EXECUTED) once every item succeeded.
RecordSuccess(w) ==
  LET a == worker[w].action IN
  /\ worker[w].pc = "execute"
  /\ worker[w].done = size[a]
  /\ status' = [status EXCEPT ![a] = "EXECUTED"]
  /\ GoesTo(w, "outcome")
  /\ UNCHANGED <<now, cardVars, errorCode, notice, ran>>

\* recordOutcome: the unread notification of the card becomes READ.
RecordOutcome(w) ==
  LET a == worker[w].action IN
  /\ worker[w].pc = "outcome"
  /\ notice' = [notice EXCEPT ![a] = IF @ = "unread" THEN "read" ELSE @]
  /\ Becomes(w, Idle)
  /\ UNCHANGED <<now, status, cardVars, errorCode, ran>>

-----------------------------------------------------------------------------
(* The sweep of the agent scheduler, the clock, and workers that stop.     *)

\* The rows the sweep closes; the variant compares the wrong way round.
StaleReversed(a) == status[a] = "PENDING" /\ expiresAt[a] > now
Stale(a) == status[a] = "PENDING" /\ expiresAt[a] < now

\* expireStale: updateMany(PENDING, expiresAt < now -> EXPIRED).
ExpireStale ==
  /\ \E a \in Actions : Stale(a)
  /\ status' = [a \in Actions |-> IF Stale(a) THEN "EXPIRED" ELSE status[a]]
  /\ UNCHANGED <<now, cardVars, errorCode, notice, ran, worker>>

Tick ==
  /\ now < MaxTime
  /\ now' = now + 1
  /\ UNCHANGED <<status, cardVars, errorCode, notice, ran, worker>>

Crash(w) ==
  /\ worker[w].pc # "idle"
  /\ Becomes(w, Idle)
  /\ UNCHANGED <<now, status, cardVars, errorCode, notice, ran>>

ConfirmStep(w) ==
  \/ ConfirmReads(w)
  \/ ConfirmExpires(w)
  \/ Claim(w)
  \/ ClaimLost(w)
  \/ ExecuteItem(w)
  \/ RecordFailure(w)
  \/ RecordSuccess(w)
  \/ RecordOutcome(w)

ProposalStep(w) ==
  \/ Supersede(w)
  \/ \E a \in Actions, n \in Items : CreateCard(w, a, n)
  \/ NotifyCard(w)

ChatArrives(w) ==
  \E c \in Conversations :
    \/ ChatProposes(w, c)
    \/ \E a \in Actions, yes \in BOOLEAN : ChatReplies(w, c, a, yes)

Next ==
  \/ \E w \in ChatWorkers : ChatArrives(w) \/ ProposalStep(w)
  \/ \E w \in Workers :
       \/ \E a \in Actions, yes \in BOOLEAN : ConfirmRequested(w, a, yes)
       \/ ConfirmStep(w)
       \/ Crash(w)
  \/ ExpireStale
  \/ Tick

\* Node runs a request that has started to its end, and the scheduler's tick
\* repeats; requests themselves need not arrive.
Fairness ==
  /\ \A w \in Workers : WF_vars(ConfirmStep(w))
  /\ \A w \in ChatWorkers : WF_vars(NotifyCard(w))
  /\ WF_vars(ExpireStale)
  /\ WF_vars(Tick)

Spec == Init /\ [][Next]_vars
FairSpec == Spec /\ Fairness
-----------------------------------------------------------------------------
(* Properties.                                                             *)

PCs == {"idle", "supersede", "create", "notify", "read", "expire",
        "claim", "execute", "fail", "outcome"}

WorkerState ==
  [pc : PCs, action : Actions \cup {NoAction},
   conversation : Conversations \cup {NoConversation},
   confirmed : BOOLEAN, done : 0..MaxItems]

\* Every variable holds a value of its type in the code.
TypeOK ==
  /\ now \in 0..MaxTime
  /\ status \in [Actions -> Statuses]
  /\ conversation \in [Actions -> Conversations \cup {NoConversation}]
  /\ size \in [Actions -> 0..MaxItems]
  /\ expiresAt \in [Actions -> 0..MaxTime]
  /\ serial \in [Actions -> Nat]
  /\ errorCode \in [Actions -> {"none", "EXECUTION_FAILED", "PARTIAL_EXECUTION"}]
  /\ notice \in [Actions -> {"none", "unread", "read"}]
  /\ ran \in [Actions -> [Items -> Nat]]
  /\ worker \in [Workers -> WorkerState]

\* The status column can be believed about the effects of the card, however
\* requests interleave and wherever they stop: no item ever takes effect
\* twice or before the one in front of it; nothing of a card that is open,
\* cancelled or expired has happened; everything of an EXECUTED one has; and a
\* card reported as EXECUTION_FAILED did at most its first item (the one that
\* threw), while PARTIAL_EXECUTION did at least that one.
StatusTellsEffects ==
  \A a \in Actions :
    /\ \A i \in Items :
         /\ ran[a][i] <= 1
         /\ i > 1 /\ ran[a][i] = 1 => ran[a][i - 1] = 1
         /\ ran[a][i] > 0 => /\ i <= size[a]
                             /\ status[a] \in {"EXECUTING", "EXECUTED", "FAILED"}
         /\ status[a] = "EXECUTED" /\ i <= size[a] => ran[a][i] = 1
         /\ errorCode[a] = "EXECUTION_FAILED" /\ i > 1 => ran[a][i] = 0
    /\ errorCode[a] = "PARTIAL_EXECUTION" => ran[a][1] = 1
    /\ status[a] = "FAILED" <=> errorCode[a] # "none"

\* "A correction supersedes the previous proposal; stale cards cannot execute
\* it": a card starts to execute only while no later card of the same
\* conversation exists.
SupersededNeverExecutes ==
  [][\A a, b \in Actions :
       /\ status[a] = "PENDING" /\ status'[a] = "EXECUTING"
       /\ b \in Created /\ conversation[b] = conversation[a]
       => serial[b] <= serial[a]]_vars

\* A request that approved a card is done with it in the end; only a row
\* whose request stopped stays EXECUTING.
Held(a) == \E w \in Workers : /\ worker[w].pc \in {"execute", "fail"}
                              /\ worker[w].action = a
ApprovedFinishes ==
  \A a \in Actions : []<>~(status[a] = "EXECUTING" /\ Held(a))

\* No card stays open: if nobody decides it, the sweep closes it.
OpenCardsClose == \A a \in Actions : []<>(status[a] # "PENDING")

\* What became of a card, as the owner is promised it (module Approval).
OutcomeOf(s) ==
  CASE s = "none" -> "none"
    [] s = "PENDING" -> "open"
    [] s = "EXECUTING" -> "approved"
    [] s = "EXECUTED" -> "done"
    [] s = "FAILED" -> "failed"
    [] s = "CANCELLED" -> "withdrawn"
    [] s = "EXPIRED" -> "lapsed"

Outcome == [a \in Actions |-> OutcomeOf(status[a])]

A == INSTANCE Approval WITH state <- Outcome, deadline <- expiresAt, total <- size

\* Concurrent approvals, cancels, corrections and sweeps on one database
\* implement the approval the owner was promised.
ImplementsApproval == A!Spec
=============================================================================
