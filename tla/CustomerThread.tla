--------------------------- MODULE CustomerThread ---------------------------
(***************************************************************************)
(* One customer's private chat with a sales agent, and the owner of the    *)
(* account who may step in: processIncoming of Telegram and of WhatsApp,   *)
(* and on Telegram handleOutgoing and safeReply.                           *)
(*                                                                         *)
(* Turns of a thread run one after the other (SalesTurn), so there is one  *)
(* turn at a time; the updates about messages that left the account, the   *)
(* agent's own among them, are handled while it runs.  Every await is a    *)
(* step, and may throw while left.faults lasts.  A restart ends the turn   *)
(* and the handlers and forgets the maps of the process.                   *)
(*                                                                         *)
(* Left out: groups, which the owner cannot take over and whose replies    *)
(* are judged by text alone; the sales facts in salesState, which these    *)
(* steps carry without reading; the media themselves.                      *)
(***************************************************************************)
EXTENDS Integers, FiniteSets

CONSTANTS
  Threads,    \* the chats there may be, see Thread below
  InFlight,   \* AGENT_SEND_IN_FLIGHT_MS
  Track,      \* AGENT_OUTGOING_TRACK_MS
  Pause,      \* OWNER_TAKEOVER_PAUSE_MS
  Bounds,     \* how many turns, faults, restarts and messages of the owner
              \*   there may be, in different behaviours
  MaxTime, MaxPosts  \* more bounds

Thread == [channel : {"TELEGRAM", "WHATSAPP"},
           contact : BOOLEAN,   \* the customer is a saved contact
           customer : BOOLEAN]  \* the session exists and is marked CUSTOMER

\* What the constants must be; the module that instantiates this one assumes it.
CustomerThreadAssumption ==
  /\ Threads \subseteq Thread
  /\ Bounds \subseteq [turns : Nat, faults : Nat, restarts : Nat, owner : Nat]
  /\ {MaxTime, MaxPosts} \subseteq Nat
  /\ {InFlight, Track, Pause} \subseteq Nat \ {0}
  /\ InFlight <= Track

VARIABLES
  now,      \* the wall clock
  thread,   \* the chat of this behaviour
  row,      \* the sales session: made, and ownerPausedUntil (0: null)
  pausedTo, \* ownerPauseUntil of the process (0: no entry)
  sendingTo,\* agentSendInFlight of the process (0: no entry)
  turn,     \* the turn being processed
  posts,    \* messages that left the account, in order
  owner,    \* history: the last takeover the process noticed
  left      \* how many of each there may still be

vars == <<now, thread, row, pausedTo, sendingTo, turn, posts, owner, left>>

Posts == 1..MaxPosts
None == 0

\* `known`: customerThreadConfirmed; `what`: what is being sent; `said`, `since`
\* `erred` and `during` (history): messages sent, when the send began, whether
\* a step failed, and how long the takeover lasts that the turn began in.
Idle == [pc |-> "idle", known |-> FALSE, what |-> "nothing", post |-> None,
         said |-> 0, since |-> 0, erred |-> FALSE, during |-> 0]

\* `mine`: agentOutgoingMessageIds has it until then (0: not); `at`, `back` and
\* `orphan` (history): when its send began and came back, and that the send
\* failed after the message was out, or that its process is gone.
NoPost == [by |-> "nobody", step |-> "none", mine |-> 0, until |-> 0,
           at |-> 0, back |-> 0, orphan |-> FALSE]

\* `held`: by the map of the process that noticed it; `kept`: by the row.
NoTakeover == [until |-> 0, held |-> FALSE, kept |-> FALSE]

Init ==
  /\ now = 0
  /\ thread \in Threads
  /\ row = [made |-> thread.customer, pause |-> 0]
  /\ pausedTo = 0 /\ sendingTo = 0
  /\ turn = Idle
  /\ posts = [p \in Posts |-> NoPost]
  /\ owner = NoTakeover
  /\ left \in Bounds

Telegram == thread.channel = "TELEGRAM"
MadePosts == {p \in Posts : posts[p].by # "nobody"}
Handling == {p \in Posts : posts[p].step \in {"read", "write"}}

GoesTo(pc) == turn' = [turn EXCEPT !.pc = pc]

\* The finally clause of a turn.
Ends == turn' = Idle

\* An await of the turn throws: ForbiddenException, or anything else.
Throws(pc) ==
  /\ left.faults > 0
  /\ left' = [left EXCEPT !.faults = @ - 1]
  /\ turn' = [turn EXCEPT !.pc = pc, !.erred = TRUE]

-----------------------------------------------------------------------------
(* processIncoming                                                         *)

Arrive ==
  /\ turn.pc = "idle" /\ left.turns > 0
  /\ left' = [left EXCEPT !.turns = @ - 1]
  /\ turn' = [Idle EXCEPT !.pc = "gate", !.known = ~Telegram]
  /\ UNCHANGED <<now, thread, row, pausedTo, sendingTo, posts, owner>>

\* Until when a takeover lasts that has to be respected; 0 without one.
TakenOverTo == IF owner.held \/ owner.kept THEN owner.until ELSE 0

\* The pause as the process knows it; the variant leaves it to the row.
PausedByRow == FALSE
PausedInMemory == pausedTo > now

\* Entitlement, connection, pause in memory.  A Forbidden entitlement is told
\* to the customer before the pause is looked at.
Gate ==
  /\ turn.pc = "gate"
  /\ \/ /\ turn' = IF Telegram /\ PausedInMemory THEN Idle
                   ELSE [turn EXCEPT !.pc = "read", !.during = TakenOverTo]
        /\ UNCHANGED left
     \/ Ends /\ UNCHANGED left  \* the agent is switched off, or not connected
     \/ /\ turn' = [turn EXCEPT !.pc = "refused", !.during = TakenOverTo]
        /\ UNCHANGED left
     \/ Throws("failed")
  /\ UNCHANGED <<now, thread, row, pausedTo, sendingTo, posts, owner>>

\* A session of a customer goes on whoever they are; a saved contact without
\* one is left alone.
MayOpen == row.made \/ ~thread.contact

\* Telegram reads the session and the pause in it.
ReadSession ==
  /\ turn.pc = "read" /\ Telegram
  /\ \/ /\ turn' = IF row.pause > now \/ ~MayOpen THEN Idle
                   ELSE [turn EXCEPT !.pc = "hear", !.known = row.made]
        /\ UNCHANGED left
     \/ Throws("failed")
  /\ UNCHANGED <<now, thread, row, pausedTo, sendingTo, posts, owner>>

\* ensureSession: whoever writes to the business number is a customer.
EnsureWhatsApp ==
  /\ turn.pc = "read" /\ ~Telegram
  /\ \/ row' = [row EXCEPT !.made = TRUE] /\ GoesTo("hear") /\ UNCHANGED left
     \/ Throws("failed") /\ UNCHANGED row
  /\ UNCHANGED <<now, thread, pausedTo, sendingTo, posts, owner>>

\* Text, or what a voice or an image says: a voice too long or unreadable gets
\* a canned reply, no text at all ends the turn.
Hear ==
  /\ turn.pc = "hear"
  /\ \/ GoesTo(IF turn.known THEN "mark" ELSE "classify") /\ UNCHANGED left
     \/ turn' = [turn EXCEPT !.pc = "send", !.what = "canned"] /\ UNCHANGED left
     \/ Ends /\ UNCHANGED left
     \/ Throws("failed")
  /\ UNCHANGED <<now, thread, row, pausedTo, sendingTo, posts, owner>>

\* classifyNewExternalSalesTurn, then ensureSalesSession.
Classify ==
  /\ turn.pc = "classify"
  /\ \/ turn' = [turn EXCEPT !.pc = "ensure", !.known = TRUE] /\ UNCHANGED left
     \/ Ends /\ UNCHANGED left
     \/ Throws("failed")
     \/ Throws("refused")
  /\ UNCHANGED <<now, thread, row, pausedTo, sendingTo, posts, owner>>

EnsureSession ==
  /\ turn.pc = "ensure"
  /\ \/ row' = [row EXCEPT !.made = TRUE] /\ GoesTo("mark") /\ UNCHANGED left
     \/ Throws("failed") /\ UNCHANGED row
  /\ UNCHANGED <<now, thread, pausedTo, sendingTo, posts, owner>>

\* The customer marker, with ownerPausedUntil: null whatever it is by now.
Mark ==
  /\ turn.pc = "mark"
  /\ \/ row' = [row EXCEPT !.pause = 0] /\ GoesTo("chat") /\ UNCHANGED left
     \/ Throws("failed") /\ UNCHANGED row
  /\ UNCHANGED <<now, thread, pausedTo, sendingTo, posts, owner>>

\* The answer of the model; the state is written back after it, and once more
\* with the question last asked.
Chat ==
  /\ turn.pc = "chat"
  /\ \/ turn' = [turn EXCEPT !.pc = "send", !.what = "answer"] /\ UNCHANGED left
     \/ Throws("failed")
     \/ Throws("refused")
  /\ UNCHANGED <<now, thread, row, pausedTo, sendingTo, posts, owner>>

\* The catch clauses: who gets a message after an error.
Failed ==
  /\ turn.pc = "failed"
  /\ turn' = IF turn.known THEN [turn EXCEPT !.pc = "send", !.what = "fallback"]
             ELSE Idle
  /\ UNCHANGED <<now, thread, row, pausedTo, sendingTo, posts, owner, left>>

Refused ==
  /\ turn.pc = "refused"
  /\ turn' = IF turn.known \/ row.made
             THEN [turn EXCEPT !.pc = "send", !.what = "refusal"] ELSE Idle
  /\ UNCHANGED <<now, thread, row, pausedTo, sendingTo, posts, owner, left>>

-----------------------------------------------------------------------------
(* safeReply, sendMessage and markProcessed                                *)

Send ==
  /\ turn.pc = "send"
  /\ turn' = [turn EXCEPT !.pc = "post", !.since = now]
  /\ sendingTo' = IF Telegram THEN now + InFlight ELSE 0
  /\ UNCHANGED <<now, thread, row, pausedTo, posts, owner, left>>

\* A send throws; in the catch clause that ends the turn.
SendThrows ==
  /\ left.faults > 0
  /\ left' = [left EXCEPT !.faults = @ - 1]
  /\ turn' = IF turn.what \in {"answer", "canned"}
             THEN [turn EXCEPT !.pc = "failed", !.erred = TRUE] ELSE Idle

\* The finally clause of a send.
GuardLifted == 0

\* The client sends the message, or throws.
Post ==
  LET p == Cardinality(MadePosts) + 1 IN
  /\ turn.pc = "post" /\ p \in Posts
  /\ \/ /\ posts' = [posts EXCEPT ![p] = [NoPost EXCEPT !.by = "agent",
                      !.step = IF Telegram THEN "sent" ELSE "done",
                      !.at = IF Telegram THEN turn.since ELSE 0]]
        /\ turn' = [turn EXCEPT !.pc = "return", !.said = @ + 1, !.post = p]
        /\ UNCHANGED <<sendingTo, left>>
     \/ /\ SendThrows
        /\ sendingTo' = GuardLifted
        /\ UNCHANGED posts
  /\ UNCHANGED <<now, thread, row, pausedTo, owner>>

\* The entry that tells the agent's own message.
Tracked == now + Track

\* Only an answer is followed by markProcessed: the other messages are the
\* last thing their turn does.
AfterSend == IF turn.what = "answer" THEN GoesTo("finish") ELSE Ends

\* lastUsedAt and the activity log follow the send, and may throw as well.
Return ==
  /\ turn.pc = "return"
  /\ \/ /\ posts' = IF posts[turn.post].step # "sent" THEN posts
                    ELSE [posts EXCEPT ![turn.post] =
                            [@ EXCEPT !.mine = Tracked, !.back = now]]
        /\ AfterSend
        /\ UNCHANGED left
     \/ /\ SendThrows
        /\ posts' = IF posts[turn.post].step # "sent" THEN posts
                    ELSE [posts EXCEPT ![turn.post].orphan = TRUE]
  /\ sendingTo' = GuardLifted
  /\ UNCHANGED <<now, thread, row, pausedTo, owner>>

\* markProcessed, or the last update of WhatsApp.
Finish ==
  /\ turn.pc = "finish"
  /\ \/ Ends /\ UNCHANGED left
     \/ Throws("failed")
  /\ UNCHANGED <<now, thread, row, pausedTo, sendingTo, posts, owner>>

-----------------------------------------------------------------------------
(* handleOutgoing                                                          *)

\* The owner writes to the customer on a device of theirs.
OwnerWrites ==
  LET p == Cardinality(MadePosts) + 1 IN
  /\ Telegram /\ p \in Posts /\ left.owner > 0
  /\ left' = [left EXCEPT !.owner = @ - 1]
  /\ posts' = [posts EXCEPT ![p] = [NoPost EXCEPT !.by = "owner",
                                                  !.step = "sent"]]
  /\ UNCHANGED <<now, thread, row, pausedTo, sendingTo, turn, owner>>

\* Nothing looks at a message again once its update is handled.
Handled(p, step) ==
  [posts EXCEPT ![p] = [NoPost EXCEPT !.by = posts[p].by, !.step = step]]

\* The update about a message: the agent's own by its id, the agent's own
\* while a send is under way, or else a takeover.
Outgoing(p) ==
  LET until == now + Pause IN
  /\ Telegram /\ posts[p].step = "sent"
  /\ \/ /\ posts[p].mine > now
        /\ posts' = Handled(p, "done")
        /\ UNCHANGED <<pausedTo, owner>>
     \/ /\ posts[p].mine <= now /\ sendingTo > now
        /\ posts' = Handled(p, "ignored")
        /\ UNCHANGED <<pausedTo, owner>>
     \/ /\ posts[p].mine <= now /\ sendingTo <= now
        /\ posts' = [posts EXCEPT ![p].step = "read", ![p].until = until]
        /\ pausedTo' = until
        /\ owner' = [until |-> until, held |-> TRUE, kept |-> FALSE]
  /\ UNCHANGED <<now, thread, row, sendingTo, turn, left>>

\* findUnique(...).catch(() => null): either branch updates the pause.
OutgoingReads(p) ==
  /\ posts[p].step = "read"
  /\ posts' = [posts EXCEPT ![p].step = "write"]
  /\ UNCHANGED <<now, thread, row, pausedTo, sendingTo, turn, owner, left>>

\* The takeover is kept by the row if no turn that had passed the row's pause,
\* and no other update, is being handled as well.
Alone(p) ==
  /\ turn.pc \in {"idle", "gate", "read"}
  /\ Handling = {p}

\* The pause is written on the row there is; an error is swallowed.
PauseWritten(p) == posts[p].until

OutgoingWrites(p) ==
  /\ posts[p].step = "write"
  /\ posts' = Handled(p, "done")
  /\ \/ /\ row' = [row EXCEPT !.pause = IF row.made THEN PauseWritten(p) ELSE 0]
        /\ owner' = [owner EXCEPT !.kept = @ \/ /\ row.made /\ Alone(p)
                                                /\ posts[p].until = owner.until]
        /\ UNCHANGED left
     \/ /\ left.faults > 0
        /\ left' = [left EXCEPT !.faults = @ - 1]
        /\ UNCHANGED <<row, owner>>
  /\ UNCHANGED <<now, thread, pausedTo, sendingTo, turn>>

-----------------------------------------------------------------------------

\* The process goes down and comes back: turn, handlers and maps are gone.
Restart ==
  /\ left.restarts > 0
  /\ left' = [left EXCEPT !.restarts = @ - 1]
  /\ Ends
  /\ pausedTo' = 0 /\ sendingTo' = 0
  /\ posts' = [p \in Posts |->
       IF p \in Handling THEN [NoPost EXCEPT !.by = posts[p].by, !.step = "done"]
       ELSE IF posts[p].step = "sent" /\ posts[p].by = "agent"
         THEN [posts[p] EXCEPT !.mine = 0, !.orphan = TRUE]
       ELSE posts[p]]
  /\ owner' = [owner EXCEPT !.held = FALSE]
  /\ UNCHANGED <<now, thread, row>>

\* An entry or a pause that has run out is as good as none.
Lasting(until) == IF until > now + 1 THEN until ELSE 0

Tick ==
  /\ now < MaxTime
  /\ now' = now + 1
  /\ row' = [row EXCEPT !.pause = Lasting(@)]
  /\ pausedTo' = Lasting(pausedTo) /\ sendingTo' = Lasting(sendingTo)
  /\ posts' = [p \in Posts |-> [posts[p] EXCEPT !.mine = Lasting(@)]]
  /\ turn' = [turn EXCEPT !.during = Lasting(@)]
  /\ owner' = IF Lasting(owner.until) = 0 THEN NoTakeover ELSE owner
  /\ UNCHANGED <<thread, left>>

Turn ==
  \/ Gate \/ ReadSession \/ EnsureWhatsApp \/ Hear
  \/ Classify \/ EnsureSession \/ Mark \/ Chat
  \/ Failed \/ Refused \/ Send \/ Post \/ Return \/ Finish

Next ==
  \/ Arrive \/ Turn
  \/ OwnerWrites
  \/ \E p \in Posts : Outgoing(p) \/ OutgoingReads(p) \/ OutgoingWrites(p)
  \/ Restart \/ Tick

Spec == Init /\ [][Next]_vars

-----------------------------------------------------------------------------
(* Properties                                                              *)

\* Every variable holds a value of its type in the code.
TypeOK ==
  /\ now \in 0..MaxTime /\ thread \in Threads
  /\ row \in [made : BOOLEAN, pause : 0..(MaxTime + Pause)]
  /\ pausedTo \in 0..(MaxTime + Pause) /\ sendingTo \in 0..(MaxTime + InFlight)
  /\ turn.pc = "idle" <=> turn = Idle
  /\ turn.post \in Posts \cup {None}
  /\ MadePosts = 1..Cardinality(MadePosts)
  /\ ~thread.customer /\ ~row.made => row.pause = 0

\* The agent's message that this step sends, if it sends one.
SaysNow == turn'.said > turn.said

\* A turn that begins while the owner has taken the chat over says nothing
\* before the takeover ends,
\* as long as the process that noticed it lives, and after that if the row
\* kept the pause (handleOutgoing, processIncoming).  It kept it unless there
\* was no session yet, the update failed or a crash came before it, or a turn
\* that had begun before was still running and set it to null.  That the
\* agent is not entitled any more is said in any case.
PauseHonoured == [][SaysNow /\ turn.what # "refusal" => turn.during = 0]_vars

\* A message of the agent's own is not taken for the owner's: not within the
\* in-flight window of its send and not, once the send came back, while its
\* id is tracked, unless the send failed after the message was out or its
\* process is gone (handleOutgoing, safeReply).
OwnEchoKnown ==
  [][\A p \in Posts :
       posts[p].by = "agent" /\ posts[p].step = "sent"
         /\ posts'[p].step = "read"
       => \/ posts[p].orphan
          \/ /\ now >= posts[p].at + InFlight
             /\ posts[p].back # 0 => now >= posts[p].back + Track]_vars

\* A message of the owner's passes for the agent's only while a send of the
\* agent's is under way (handleOutgoing, the finally clause of safeReply).
DeafOnlyWhileSending ==
  [][\A p \in Posts :
       posts[p].by = "owner" /\ posts'[p].step = "ignored"
         /\ posts[p].step = "sent"
       => turn.pc \in {"post", "return"}]_vars

\* A turn sends one message; a second one only after a step that failed, and
\* never a third (the catch clauses of processIncoming).
OneMessagePerTurn == turn.said <= IF turn.erred THEN 2 ELSE 1

\* A saved contact who is no customer is never written to (processIncoming).
ContactsLeftAlone ==
  Telegram /\ thread.contact /\ ~thread.customer =>
    \A p \in Posts : posts[p].by # "agent"
=============================================================================
