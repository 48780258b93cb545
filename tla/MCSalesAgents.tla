--------------------------- MODULE MCSalesAgents ---------------------------
(***************************************************************************)
(* Small instances for TLC of how the sales agents take in what customers  *)
(* write: the turns of a chat, the comments of an Instagram account,       *)
(* polled and pushed, and the messages of a WhatsApp number.  They share   *)
(* no state, so in a behaviour one of them moves, `part`, and the others   *)
(* rest in an initial state.                                               *)
(***************************************************************************)
EXTENDS SalesTurn

CONSTANTS Events, Webhooks, Poller, NoEvent,
          MaxCalls, MaxFailures, MaxFaults, \* bounds of the comments' run
          Numbers, Inbound, Testers, Timer, KindOf, MaxTokens, InboxBounds

VARIABLES part,
          rule, legs, posted, inbound, recorded, completed, backoff, behind,
          worker, poller, sent, finished, overtaken, excused, deliveries,
          failures, faults,
          row, dead, hooked, linking, tester, turn, known, left

-----------------------------------------------------------------------------
Instagram == INSTANCE InstagramDelivery WITH
               MaxDeliveries <- MaxCalls
ASSUME CommentsAssumption == Instagram!InstagramDeliveryAssumption

\* A voice message and an image, with every kind of failure; and a number
\* that is linked twice, or whose subscription is lost, while tests run.
MCKindOf == <<"voice", "image">>
MCInboxBounds ==
  {[links |-> 2, edits |-> 1, tests |-> 1, faults |-> 1, losses |-> 0,
    limits |-> 0, messages |-> 0],
   [links |-> 1, edits |-> 0, tests |-> 1, faults |-> 1, losses |-> 1,
    limits |-> 0, messages |-> 0],
   [links |-> 1, edits |-> 1, tests |-> 0, faults |-> 1, losses |-> 1,
    limits |-> 1, messages |-> 2]}

WhatsApp == INSTANCE WhatsAppInbox WITH
              Messages <- Inbound, Bounds <- InboxBounds
ASSUME InboxAssumption == WhatsApp!WhatsAppAssumption

instagram ==
  <<rule, legs, posted, inbound, recorded, completed, backoff, behind, worker,
    poller, sent, finished, overtaken, excused, deliveries, failures, faults>>
whatsapp == <<row, dead, hooked, linking, tester, turn, known, left>>
parts == <<part, vars, instagram, whatsapp>>

MCInit ==
  /\ part \in {"chat", "comments", "inbox"}
  /\ Init
  /\ part # "chat" => receiptTable
  /\ Instagram!Init
  /\ part # "comments" =>
       legs = Instagram!Legs /\ rule = [e \in Events |-> "quick"]
  /\ WhatsApp!Init
  /\ part # "inbox" => left = CHOOSE b \in InboxBounds : TRUE

OfChat(act) == part = "chat" /\ act /\ UNCHANGED <<part, instagram, whatsapp>>
OfComments(act) == part = "comments" /\ act /\ UNCHANGED <<part, vars, whatsapp>>
OfInbox(act) == part = "inbox" /\ act /\ UNCHANGED <<part, vars, instagram>>

MCNext == OfChat(Next) \/ OfComments(Instagram!Next) \/ OfInbox(WhatsApp!Next)

\* The fairness of each, as its module states it.
MCFairness ==
  /\ WF_parts(OfChat(Reserve \/ ReserveFails)) /\ WF_parts(OfChat(RunTurn))
  /\ WF_parts(OfComments(Instagram!Tick))
  /\ \A w \in Instagram!Workers : WF_parts(OfComments(Instagram!Handle(w)))
  /\ \A e \in Events : WF_parts(OfComments(Instagram!BackoffOver(e)))
  /\ WF_parts(OfInbox(WhatsApp!Ages)) /\ WF_parts(OfInbox(WhatsApp!Repairs))

MCSpec == MCInit /\ [][MCNext]_parts /\ MCFairness
-----------------------------------------------------------------------------
(* No comment is answered twice or by two handlers at a time, and none     *)
(* that is to be retried falls behind the cursor                           *)
(* (instagram-sales-agent.service.ts, instagram-comment-poller.service.ts).*)
CommentsKept ==
  part = "comments" =>
    /\ Instagram!TypeOK /\ Instagram!NothingSentTwice
    /\ Instagram!ExclusivelyHandled /\ Instagram!CursorLosesNone

(* An event that nothing excuses is settled (the receipts of               *)
(* instagram-sales-agent.service.ts).                                      *)
EveryEventSettles == Instagram!EveryEventSettles

(* A message on WhatsApp that was answered is remembered, and one that was *)
(* not has a reason (whatsapp-sales-agent.service.ts).                     *)
InboxKept ==
  part = "inbox" =>
    /\ WhatsApp!TypeOK
    /\ WhatsApp!AnsweredIsRemembered /\ WhatsApp!SilenceExplained

(* The half-hourly test mends the subscription of a good connection        *)
(* (reconcileWebhookSubscriptions of whatsapp-sales-agent.service.ts).     *)
RepairedAtLast == WhatsApp!RepairedAtLast
=============================================================================
