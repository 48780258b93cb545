---------------------------- MODULE MCSalesData ----------------------------
(***************************************************************************)
(* Small instances for TLC of what a customer is told and when: the        *)
(* product a sales chat settles on, the reading of Bito's catalog behind   *)
(* it, and the chats the agent stays out of.  They share no state, so in a *)
(* behaviour one of them moves, `part`, and the others rest in an initial  *)
(* state.                                                                  *)
(***************************************************************************)
EXTENDS SalesSelection

CONSTANTS
  Cases, Limit, MaxPages, MaxRecords, MaxRows,         \* of BitoRead
  Threads, InFlight, Track, Pause, MaxTime, MaxPosts,  \* of CustomerThread
  ThreadBounds

VARIABLES part,
          shape, ask, rows, pass, read, answer,
          now, thread, session, pausedTo, sendingTo, reply, posts, owner, left

-----------------------------------------------------------------------------
\* Two products: one with two models at two prices, of which one comes in
\* later, and one with a single variant that has no color; nothing is red.
Variant(p, m, c) == [product |-> p, model |-> m, color |-> c]
MCRows == {Variant("phone", "m1", "black"), Variant("phone", "m2", "black"),
           Variant("watch", "m1", None)}
MCPriceOf == [r \in MCRows |-> IF r.model = "m2" THEN 2 ELSE 1]
MCFirstStock == MCRows \ {Variant("phone", "m2", "black")}

Text(p, m, c, w) == [product |-> p, model |-> m, color |-> c, word |-> w]
MCMessages ==
  {Text("phone", None, None, ""), Text("watch", None, None, ""),
   Text(None, "m1", None, ""), Text(None, "m2", None, ""),
   Text(None, None, "red", ""), Text("phone", "m2", "black", "")}
  \cup {Text(None, None, None, w) : w \in Words \ {""}}

\* One reading of every shape of provider, and every question about three
\* rows of a few of them.
Plain == [words |-> "none", meant |-> {}, found |-> {}, stocked |-> {1},
          opaque |-> {}]
AllShapes ==
  [pager : {"page", "offset", "cursor", "none"}, cap : {1, 2, 4, 5},
   limited : BOOLEAN, tells : SUBSET {"total", "pages", "hasMore"}, deaf : BOOLEAN,
   search : {FALSE}]
FewShapes ==
  [pager : {"page", "cursor"}, cap : {2}, limited : {TRUE},
   tells : {{"total"}}, deaf : {FALSE}, search : BOOLEAN]
Questions ==
  [words : {"model", "family"}, meant : SUBSET (1..3), found : SUBSET (1..3),
   stocked : SUBSET (1..3), opaque : {{}, {2}}]
MCCases ==
  [shape : AllShapes, ask : {Plain}, rows : 0..5]
    \cup [shape : FewShapes, ask : Questions, rows : {3}]

Catalog == INSTANCE BitoRead
ASSUME CatalogAssumption == Catalog!BitoReadAssumption

\* A customer of old, a stranger and a saved contact on Telegram, and a
\* customer on WhatsApp.
MCThreads == {
  [channel |-> "TELEGRAM", contact |-> FALSE, customer |-> TRUE],
  [channel |-> "TELEGRAM", contact |-> FALSE, customer |-> FALSE],
  [channel |-> "TELEGRAM", contact |-> TRUE, customer |-> FALSE],
  [channel |-> "WHATSAPP", contact |-> FALSE, customer |-> FALSE]}
MCThreadBounds == {
  [turns |-> 2, faults |-> 0, restarts |-> 0, owner |-> 1],
  [turns |-> 1, faults |-> 1, restarts |-> 0, owner |-> 1],
  [turns |-> 1, faults |-> 0, restarts |-> 1, owner |-> 1],
  [turns |-> 1, faults |-> 0, restarts |-> 0, owner |-> 2]}

Chat == INSTANCE CustomerThread WITH
          Bounds <- ThreadBounds, row <- session, turn <- reply
ASSUME ChatAssumption == Chat!CustomerThreadAssumption

catalog == <<shape, ask, rows, pass, read, answer>>
chat == <<now, thread, session, pausedTo, sendingTo, reply, posts, owner, left>>

FirstCase == CHOOSE c \in Cases : TRUE
FirstThread == CHOOSE t \in Threads : TRUE
FirstBound == CHOOSE b \in ThreadBounds : TRUE

MCInit ==
  /\ part \in {"selection", "catalog", "chat"}
  /\ Init
  /\ Catalog!Init
  /\ part # "catalog" =>
       [shape |-> shape, ask |-> ask, rows |-> rows] = FirstCase
  /\ Chat!Init
  /\ part # "chat" => thread = FirstThread /\ left = FirstBound

MCNext ==
  \/ part = "selection" /\ Next /\ UNCHANGED <<part, catalog, chat>>
  \/ part = "catalog" /\ Catalog!Next /\ UNCHANGED <<part, vars, chat>>
  \/ part = "chat" /\ Chat!Next /\ UNCHANGED <<part, vars, catalog>>

MCSpec == MCInit /\ [][MCNext]_<<part, vars, catalog, chat>>
-----------------------------------------------------------------------------
(* The price, the offers and the product of a chat belong together, and no *)
(* variant is sold that is not there (universal-sales-context.ts).         *)
SelectionKept ==
  TypeOK /\ PriceBelongs /\ OffersFollowTopic /\ NeverSellsUnavailable

(* A list that is said to be complete is, and what was meant and is there  *)
(* is not said to be missing (bito-tool-bridge.service.ts).                *)
ReadKept ==
  part = "catalog" =>
    /\ Catalog!TypeOK /\ Catalog!CompleteOrFails
    /\ Catalog!AbsentMeansAbsent /\ Catalog!FamilyShown

(* In a chat the owner took over, or that is not the agent's, the agent    *)
(* writes nothing, and it takes its own messages for its own               *)
(* (telegram-sales-agent.service.ts, whatsapp-sales-agent.service.ts).     *)
ChatsKept ==
  /\ [](part = "chat" =>
          /\ Chat!TypeOK
          /\ Chat!OneMessagePerTurn /\ Chat!ContactsLeftAlone)
  /\ Chat!PauseHonoured /\ Chat!OwnEchoKnown /\ Chat!DeafOnlyWhileSending
=============================================================================
