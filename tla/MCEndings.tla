----------------------------- MODULE MCEndings -----------------------------
(***************************************************************************)
(* Small instances for TLC of what has to come to an end: the cards of the *)
(* assistant, a login to Telegram and its listener, and the sessions       *)
(* opened at a Bito server.  They share no state, so in a behaviour one of *)
(* them moves, `part`, and the others rest in an initial state.            *)
(***************************************************************************)
EXTENDS PendingAction

CONSTANTS
  Sockets, MaxKeys, TelegramBounds,              \* of TelegramAccount
  Requests, Lists, Servers, MaxPages, MaxFaults  \* of BitoSession

VARIABLES part,
          row, tg, login, listener, fresh, running, loop, reconciling,
          entitled, left,
          server, request, open, lost, faults

-----------------------------------------------------------------------------
\* Logins that overlap, with nobody listening; two logins one after the other,
\* and one with everything that can befall the listener.
MCTelegramBounds == {
  [ops |-> 4, faults |-> 1, restarts |-> 0, kills |-> 0, toggles |-> 0,
   listens |-> FALSE],
  [ops |-> 4, faults |-> 0, restarts |-> 0, kills |-> 1, toggles |-> 0,
   listens |-> FALSE],
  [ops |-> 4, faults |-> 0, restarts |-> 0, kills |-> 0, toggles |-> 1,
   listens |-> TRUE],
  [ops |-> 2, faults |-> 1, restarts |-> 1, kills |-> 1, toggles |-> 2,
   listens |-> TRUE]}

Telegram == INSTANCE TelegramAccount WITH
              Workers <- Sockets, Bounds <- TelegramBounds, worker <- login
ASSUME TelegramAssumption == Telegram!TelegramAccountAssumption

\* Two requests of every server with three pages, read at most two deep.
MCServers ==
  {s \in [modern : BOOLEAN, stateful : BOOLEAN, next : [1..3 -> 0..3]] :
     s.modern => ~s.stateful}

Bito == INSTANCE BitoSession
ASSUME BitoAssumption == Bito!BitoSessionAssumption

telegram == <<row, tg, login, listener, fresh, running, loop, reconciling,
              entitled, left>>
bito == <<server, request, open, lost, faults>>
parts == <<part, vars, telegram, bito>>

MCInit ==
  /\ part \in {"cards", "telegram", "bito"}
  /\ Init
  /\ Telegram!Init
  /\ part # "telegram" => left = CHOOSE b \in TelegramBounds : ~b.listens
  /\ Bito!Init
  /\ part # "bito" => server = CHOOSE s \in Servers : TRUE

OfCards(act) == part = "cards" /\ act /\ UNCHANGED <<part, telegram, bito>>
OfTelegram(act) == part = "telegram" /\ act /\ UNCHANGED <<part, vars, bito>>
OfBito(act) == part = "bito" /\ act /\ UNCHANGED <<part, vars, telegram>>

MCNext == OfCards(Next) \/ OfTelegram(Telegram!Next) \/ OfBito(Bito!Next)

\* The fairness of each, as its module states it.
MCFairness ==
  /\ \A w \in Workers : WF_parts(OfCards(ConfirmStep(w)))
  /\ \A w \in ChatWorkers : WF_parts(OfCards(NotifyCard(w)))
  /\ WF_parts(OfCards(ExpireStale)) /\ WF_parts(OfCards(Tick))
  /\ WF_parts(OfTelegram(Telegram!TimerRings))
  /\ WF_parts(OfTelegram(Telegram!GrowsStale))
  /\ \A l \in Telegram!Loops : WF_parts(OfTelegram(Telegram!Run(l)))
  /\ \A r \in Requests : WF_parts(OfBito(Bito!Step(r)))

MCSpec == MCInit /\ [][MCNext]_parts /\ MCFairness
-----------------------------------------------------------------------------
(* The row of a Telegram account says what the auth key it holds can do,   *)
(* one loop at most listens with it (telegram-client.service.ts), and a    *)
(* list of Bito's tools is whole (bito-mcp.client.ts).                     *)
LinksKept ==
  /\ part = "telegram" =>
       Telegram!TypeOK /\ Telegram!RowCoherent /\ Telegram!OneListener
  /\ part = "bito" => Bito!TypeOK /\ Bito!ListIsWhole

(* When logins and toggles cease, the listener listens with the account    *)
(* the row holds, if it should, or with none (reconcile of                 *)
(* telegram-sales-agent.service.ts).                                       *)
ListenerFollows == Telegram!ListenerFollows

(* A session opened at a server is closed again, whatever failed between   *)
(* (bito-mcp.client.ts).                                                   *)
SessionsClosed == <>[](part = "bito" => Bito!Closed)
=============================================================================
