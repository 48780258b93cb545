-------------------------- MODULE InstagramDelivery ---------------------------
(***************************************************************************)
(* How a comment or direct message on Instagram gets its reply:            *)
(* handleComment and handleDm of InstagramSalesAgentService, called by the *)
(* webhook (fire and forget) and by the polling bridges, one for comments  *)
(* and one for messages, alike but for what they list; each re-reads       *)
(* everything younger than its cursor.                                     *)
(*                                                                         *)
(* A worker is one call of a handler; its steps are the database and       *)
(* Graph API calls between two awaits.  The inbound receipt (a unique row) *)
(* is what keeps two workers off one event; a failed attempt deletes it.   *)
(* The receipt of a comment automation remembers which of its two replies  *)
(* (a private message, a public comment) went out.                         *)
(*                                                                         *)
(* An event is a comment or message of its own customer (the order of one  *)
(* customer's turns is module SalesTurn's subject).  Times are abstracted: *)
(* the cursor is the set of events older than it, a backoff is over at     *)
(* some point.  The apology sent on a failure is left out.                 *)
(***************************************************************************)
EXTENDS Integers, FiniteSets

CONSTANTS
  Events,        \* comments and direct messages of customers
  Webhooks,      \* calls of the webhook being served
  Poller,        \* the worker of the polling bridge of the event's kind
  NoEvent,
  MaxDeliveries, \* bound: webhook deliveries
  MaxFailures,   \* bound: calls of the Graph API or the model that fail
  MaxFaults      \* bound: database errors and crashes

\* What the constants must be; the module that instantiates this one assumes it.
InstagramDeliveryAssumption ==
  /\ NoEvent \notin Events
  /\ Poller \notin Webhooks
  /\ MaxDeliveries \in Nat /\ MaxFailures \in Nat /\ MaxFaults \in Nat

Workers == Webhooks \cup {Poller}
Legs == {"private", "public"}
Replies == Legs \cup {"answer"}

VARIABLES
  rule,      \* how an event is matched: "quick", "semantic", or "none" (and DMs)
  legs,      \* the replies the matching automation makes
  posted,    \* the events that exist so far
  inbound,   \* rows of salesInboundReceipt
  recorded,  \* privateSentAt, publicSentAt of an automation receipt
  completed, \* completedAt of it
  backoff,   \* nextRetryAt of it is still ahead
  behind,    \* the poll cursor: the events older than it
  worker,    \* the handlers: step, event, replies still to try and done
  poller,    \* the tick: step, events at its start, still to do, one failed
  sent,      \* history: what was sent once, and more than once
  finished,  \* history: events whose handler returned true, duplicates aside
  overtaken, \* history: events the poller passed while a webhook held them
  excused,   \* history: events hit by a fault or a half-done call
  deliveries, failures, faults \* history: counts

replyVars == <<inbound, recorded, completed, backoff>>
history == <<sent, finished, overtaken, excused>>
counts == <<deliveries, failures, faults>>
vars == <<rule, legs, posted, replyVars, behind, worker, poller, history, counts>>

Idle == [pc |-> "idle", event |-> NoEvent, left |-> {}, done |-> {}]
Resting == [pc |-> "idle", started |-> {}, todo |-> {}, failed |-> FALSE]

Init ==
  /\ rule \in [Events -> {"quick", "semantic", "none"}]
  /\ legs \in SUBSET Legs \ {{}}
  /\ posted = {} /\ inbound = {} /\ completed = {} /\ backoff = {} /\ behind = {}
  /\ recorded = [e \in Events |-> {}]
  /\ worker = [w \in Workers |-> Idle]
  /\ poller = Resting
  /\ sent = [once |-> {}, again |-> {}]
  /\ finished = {} /\ overtaken = {} /\ excused = {}
  /\ deliveries = 0 /\ failures = 0 /\ faults = 0

GoesTo(w, pc) == worker' = [worker EXCEPT ![w].pc = pc]
Holds(w, e) == worker[w].event = e /\ worker[w].pc \notin {"idle", "reserve"}

\* The handler returns: the poller counts what did not return true.
Returns(w, ok) ==
  /\ worker' = [worker EXCEPT ![w] = Idle]
  /\ poller' = IF w = Poller /\ ~ok THEN [poller EXCEPT !.failed = TRUE] ELSE poller

Failure == failures < MaxFailures /\ failures' = failures + 1
Fault(S) == faults < MaxFaults /\ faults' = faults + 1 /\ excused' = excused \cup S

\* A reply reaches the customer.
Sends(e, reply) ==
  sent' = IF <<e, reply>> \in sent.once
            THEN [sent EXCEPT !.again = @ \cup {<<e, reply>>}]
            ELSE [sent EXCEPT !.once = @ \cup {<<e, reply>>}]

-----------------------------------------------------------------------------
(* Where the handlers are called.                                          *)

Post(e) ==
  /\ e \notin posted
  /\ posted' = posted \cup {e}
  /\ UNCHANGED <<rule, legs, replyVars, behind, worker, poller, history, counts>>

Starts(w, e) == worker' = [worker EXCEPT ![w] = [Idle EXCEPT !.pc = "reserve", !.event = e]]

\* handleWebhook calls the handler and does not wait for it.
Webhook(w, e) ==
  /\ worker[w].pc = "idle" /\ e \in posted
  /\ deliveries < MaxDeliveries /\ deliveries' = deliveries + 1
  /\ Starts(w, e)
  /\ UNCHANGED <<rule, legs, posted, replyVars, behind, poller, history, failures, faults>>

\* A tick notes when it started, ...
TickStarts ==
  /\ poller.pc = "idle"
  /\ poller' = [Resting EXCEPT !.pc = "list", !.started = posted]
  /\ UNCHANGED <<rule, legs, posted, replyVars, behind, worker, history, counts>>

\* ... lists what is there by then and keeps what the cursor has not passed ...
Newer == posted \ behind

Lists ==
  /\ poller.pc = "list"
  /\ poller' = [poller EXCEPT !.pc = "handle", !.todo = Newer]
  /\ UNCHANGED <<rule, legs, posted, replyVars, behind, worker, history, counts>>

\* ... (post by post, conversation by conversation: an error of any list call
\* ends the tick of the account, with some events handled and some not) ...
ListFails ==
  /\ \/ poller.pc = "list"
     \/ poller.pc = "handle" /\ poller.todo # {}
  /\ worker[Poller].pc = "idle"
  /\ Failure
  /\ poller' = Resting
  /\ UNCHANGED <<rule, legs, posted, replyVars, behind, worker, history, deliveries, faults>>

\* ... calls the handler for one after another, waiting for each ...
Polls(e) ==
  /\ poller.pc = "handle" /\ worker[Poller].pc = "idle"
  /\ e \in poller.todo
  /\ poller' = [poller EXCEPT !.todo = @ \ {e}]
  /\ Starts(Poller, e)
  /\ UNCHANGED <<rule, legs, posted, replyVars, behind, history, counts>>

\* ... and moves the cursor to its start if none failed; the variant always.
AdvancesAnyway == TRUE
Advances == ~poller.failed

TickEnds ==
  /\ poller.pc = "handle" /\ poller.todo = {} /\ worker[Poller].pc = "idle"
  /\ behind' = IF Advances THEN poller.started ELSE behind
  /\ poller' = Resting
  /\ UNCHANGED <<rule, legs, posted, replyVars, worker, history, counts>>

-----------------------------------------------------------------------------
(* handleComment and handleDm.                                             *)

\* The unique row can be inserted.
Accepts(e) == e \notin inbound

\* reserveSalesInboundTurn: another delivery of the event counts as handled.
Reserve(w) ==
  LET e == worker[w].event IN
  /\ worker[w].pc = "reserve"
  /\ IF Accepts(e)
       THEN /\ inbound' = inbound \cup {e}
            /\ GoesTo(w, "check")
            /\ UNCHANGED <<poller, overtaken>>
       ELSE /\ Returns(w, TRUE)
            /\ overtaken' = IF w = Poller /\ \E v \in Workers : Holds(v, e)
                              THEN overtaken \cup {e} ELSE overtaken
            /\ UNCHANGED inbound
  /\ UNCHANGED <<rule, legs, posted, recorded, completed, backoff, behind, sent,
                 finished, excused, counts>>

\* Any other error of the insert: the event is as good as never delivered.
ReserveFails(w) ==
  /\ worker[w].pc = "reserve"
  /\ Fault({})
  /\ Returns(w, FALSE)
  /\ UNCHANGED <<rule, legs, posted, replyVars, behind, sent, finished, overtaken,
                 deliveries, failures>>

\* The plan does not include the channel, the AI credits are used up, or the
\* connection is switched off: a fixed reply or none, and the receipt is kept.
Blocked(w) ==
  /\ worker[w].pc \in {"check", "ai", "answer"}
  /\ finished' = finished \cup {worker[w].event}
  /\ Returns(w, TRUE)
  /\ UNCHANGED <<rule, legs, posted, replyVars, behind, sent, overtaken, excused, counts>>

\* What an attempt still has to send.
Missing(e) == legs \ recorded[e]

\* runCommentAutomations found a rule: it is done already, it is too early to
\* try again, or this is an attempt.
Matched(w) ==
  LET e == worker[w].event IN
  \/ /\ e \in completed
     /\ finished' = finished \cup {e}
     /\ Returns(w, TRUE)
  \/ /\ e \notin completed /\ e \in backoff
     /\ GoesTo(w, "release")
     /\ UNCHANGED <<poller, finished>>
  \/ /\ e \notin completed /\ e \notin backoff
     /\ worker' = [worker EXCEPT ![w].pc = "legs", ![w].left = Missing(e),
                                 ![w].done = legs \ Missing(e)]
     /\ UNCHANGED <<poller, finished>>

\* First the cheap matching, before the AI credits are asked for ...
QuickMatch(w) ==
  /\ worker[w].pc = "check"
  /\ \/ rule[worker[w].event] = "quick" /\ Matched(w)
     \/ /\ rule[worker[w].event] # "quick" /\ GoesTo(w, "ai")
        /\ UNCHANGED <<poller, finished>>
  /\ UNCHANGED <<rule, legs, posted, replyVars, behind, sent, overtaken, excused, counts>>

\* ... then the model's, which may differ from one attempt to the next.
SemanticMatch(w) ==
  /\ worker[w].pc = "ai"
  /\ \/ rule[worker[w].event] = "semantic" /\ Matched(w)
     \/ GoesTo(w, "answer") /\ UNCHANGED <<poller, finished>>
  /\ UNCHANGED <<rule, legs, posted, replyVars, behind, sent, overtaken, excused, counts>>

\* The private reply comes first; the other is tried whatever became of it.
Leg(w) == IF "private" \in worker[w].left THEN "private" ELSE "public"
Skip(w) == worker' = [worker EXCEPT ![w].pc = "legs", ![w].left = @ \ {Leg(w)}]

\* The Graph call may fail, and it may fail after the reply went out.
SendLeg(w) ==
  LET e == worker[w].event IN
  /\ worker[w].pc = "legs" /\ worker[w].left # {}
  /\ \/ Sends(e, Leg(w)) /\ GoesTo(w, "record") /\ UNCHANGED <<excused, failures>>
     \/ Failure /\ Skip(w) /\ UNCHANGED <<sent, excused>>
     \/ Failure /\ Sends(e, Leg(w)) /\ Skip(w) /\ excused' = excused \cup {e}
  /\ UNCHANGED <<rule, legs, posted, replyVars, behind, poller, finished, overtaken,
                 deliveries, faults>>

\* privateSentAt or publicSentAt; an error here counts as a failed leg.
RecordLeg(w) ==
  LET e == worker[w].event IN
  /\ worker[w].pc = "record"
  /\ \/ /\ recorded' = [recorded EXCEPT ![e] = @ \cup {Leg(w)}]
        /\ worker' = [worker EXCEPT ![w].pc = "legs", ![w].left = @ \ {Leg(w)},
                                    ![w].done = @ \cup {Leg(w)}]
        /\ UNCHANGED <<excused, faults>>
     \/ Skip(w) /\ Fault({e}) /\ UNCHANGED recorded
  /\ UNCHANGED <<rule, legs, posted, inbound, completed, backoff, behind, poller,
                 sent, finished, overtaken, deliveries, failures>>

\* Both went out: completedAt. Otherwise nextRetryAt, and the event is released.
CloseAttempt(w) ==
  LET e == worker[w].event IN
  /\ worker[w].pc = "legs" /\ worker[w].left = {}
  /\ IF legs \subseteq worker[w].done
       THEN /\ completed' = completed \cup {e}
            /\ finished' = finished \cup {e}
            /\ Returns(w, TRUE)
            /\ UNCHANGED backoff
       ELSE /\ backoff' = backoff \cup {e}
            /\ GoesTo(w, "release")
            /\ UNCHANGED <<poller, completed, finished>>
  /\ UNCHANGED <<rule, legs, posted, inbound, recorded, behind, sent, overtaken,
                 excused, counts>>

\* The model's answer is sent; the model or the send may fail.
Answer(w) ==
  LET e == worker[w].event IN
  /\ worker[w].pc = "answer"
  /\ \/ Sends(e, "answer") /\ GoesTo(w, "wrapup") /\ UNCHANGED <<excused, failures>>
     \/ Failure /\ GoesTo(w, "release") /\ UNCHANGED <<sent, excused>>
     \/ /\ Failure /\ Sends(e, "answer") /\ GoesTo(w, "release")
        /\ excused' = excused \cup {e}
  /\ UNCHANGED <<rule, legs, posted, replyVars, behind, poller, finished, overtaken,
                 deliveries, faults>>

\* lastOutboundAt of the session.
WrapUp(w) ==
  /\ worker[w].pc = "wrapup"
  /\ finished' = finished \cup {worker[w].event}
  /\ Returns(w, TRUE)
  /\ UNCHANGED <<rule, legs, posted, replyVars, behind, sent, overtaken, excused, counts>>

\* The variant forgets to delete the receipt.
ReleasedNone(e) == {}
Released(e) == {e}

\* releaseCommentInboundReceipt, or the same for a message; then false.
Release(w) ==
  /\ worker[w].pc = "release"
  /\ inbound' = inbound \ Released(worker[w].event)
  /\ Returns(w, FALSE)
  /\ UNCHANGED <<rule, legs, posted, recorded, completed, backoff, behind, history, counts>>

\* A database error elsewhere in the handler ends in the release, too; one of
\* the release itself is ignored, and the receipt stays.
DatabaseError(w) ==
  /\ Fault({worker[w].event})
  /\ \/ /\ \/ worker[w].pc \in {"check", "ai", "answer", "wrapup"}
           \/ worker[w].pc = "legs" /\ worker[w].left = {}
        /\ GoesTo(w, "release") /\ UNCHANGED poller
     \/ worker[w].pc = "release" /\ Returns(w, FALSE)
  /\ UNCHANGED <<rule, legs, posted, replyVars, behind, sent, finished, overtaken,
                 deliveries, failures>>

-----------------------------------------------------------------------------

BackoffOver(e) ==
  /\ e \in backoff
  /\ backoff' = backoff \ {e}
  /\ UNCHANGED <<rule, legs, posted, inbound, recorded, completed, behind, worker,
                 poller, history, counts>>

\* The process stops; receipts and cursor are in the database.
Crash ==
  /\ \E w \in Workers : worker[w].pc # "idle"
  /\ Fault({worker[w].event : w \in Workers} \ {NoEvent})
  /\ worker' = [w \in Workers |-> Idle]
  /\ poller' = Resting
  /\ UNCHANGED <<rule, legs, posted, replyVars, behind, sent, finished, overtaken,
                 deliveries, failures>>

Handle(w) ==
  \/ Reserve(w) \/ QuickMatch(w) \/ SemanticMatch(w)
  \/ SendLeg(w) \/ RecordLeg(w) \/ CloseAttempt(w)
  \/ Answer(w) \/ WrapUp(w) \/ Release(w)

Tick == TickStarts \/ Lists \/ (\E e \in Events : Polls(e)) \/ TickEnds

Next ==
  \/ \E e \in Events :
       Post(e) \/ BackoffOver(e) \/ (\E w \in Webhooks : Webhook(w, e))
  \/ Tick \/ ListFails
  \/ \E w \in Workers : Handle(w) \/ Blocked(w) \/ ReserveFails(w) \/ DatabaseError(w)
  \/ Crash

\* Ticks repeat, handlers go on, backoffs end. Webhooks owe nothing.
Fairness ==
  /\ WF_vars(Tick)
  /\ \A w \in Workers : WF_vars(Handle(w))
  /\ \A e \in Events : WF_vars(BackoffOver(e))

Spec == Init /\ [][Next]_vars
FairSpec == Spec /\ Fairness

-----------------------------------------------------------------------------
(* Properties.                                                             *)

WorkerState ==
  [pc : {"idle", "reserve", "check", "ai", "legs", "record", "answer", "wrapup", "release"},
   event : Events \cup {NoEvent}, left : SUBSET Legs, done : SUBSET Legs]

\* Every variable holds a value of its type in the code.
TypeOK ==
  /\ rule \in [Events -> {"quick", "semantic", "none"}]
  /\ legs \in SUBSET Legs \ {{}}
  /\ posted \subseteq Events
  /\ inbound \subseteq posted /\ completed \subseteq posted /\ backoff \subseteq posted
  /\ behind \subseteq posted
  /\ recorded \in [Events -> SUBSET legs]
  /\ worker \in [Workers -> WorkerState]
  /\ poller \in [pc : {"idle", "list", "handle"}, started : SUBSET posted,
                 todo : SUBSET posted, failed : BOOLEAN]
  /\ sent \in [once : SUBSET (Events \X Replies), again : SUBSET (Events \X Replies)]
  /\ finished \subseteq posted /\ overtaken \subseteq posted /\ excused \subseteq posted
  /\ deliveries \in 0..MaxDeliveries /\ failures \in 0..MaxFailures
  /\ faults \in 0..MaxFaults

\* "A partial success only retries the missing leg": however often webhook and
\* poller deliver an event and its attempts fail, no reply goes out twice,
\* unless a call failed after its effect or the database or process did.
NothingSentTwice == \A r \in sent.again : r[1] \in excused

\* "Existing receipt means this exact message was already accepted by another
\* delivery path": never do two handlers work on one event, also when a failed
\* attempt has released it.
ExclusivelyHandled ==
  \A v, w \in Workers, e \in Events : Holds(v, e) /\ Holds(w, e) => v = w

\* The cursor passes no event that is to be retried: what is behind it has
\* its receipt, unless a webhook was working on it when the poller came by.
CursorLosesNone == behind \subseteq inbound \cup overtaken

\* An event that no fault hits and no webhook holds when the poller comes by
\* is answered or blocked in the end, although attempts fail and back off.
EveryEventSettles ==
  \A e \in Events : []<>(e \in posted => e \in finished \cup overtaken \cup excused)
=============================================================================
