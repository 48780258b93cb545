--------------------------- MODULE WhatsAppInbox ---------------------------
(***************************************************************************)
(* A user's WhatsApp number: connecting it, testing it and repairing its   *)
(* webhook subscription (whatsapp-sales-agent.service.ts with              *)
(* whatsapp-cloud.service.ts), and one customer's messages answered by the *)
(* sales agent behind it, each a turn in the customer's chain.             *)
(*                                                                         *)
(* The row is read again at every step that uses it, so what the user does *)
(* in between counts.  Left out: the order and the merging of turns        *)
(* (SalesTurn), what is answered (SalesSelection), two sessions begun at   *)
(* once (CustomerThread).                                                  *)
(***************************************************************************)
EXTENDS Integers

CONSTANTS
  Numbers,    \* phone numbers, each with its business account (WABA)
  Messages,   \* of the customer, in the order in which they come
  KindOf,     \* the kind of a message: text, voice or image
  Testers,    \* who tests the connection: Timer, and requests of the user
  Timer,      \* the interval of reconcileWebhookSubscriptions
  MaxTokens,  \* bound: tokens ever pasted or exchanged
  Bounds      \* bounds by kind, in different behaviours

\* What the constants must be; the module that instantiates this one assumes it.
Kinds == {"links", "edits", "tests", "faults", "losses", "limits", "messages"}
WhatsAppAssumption ==
  /\ Timer \in Testers /\ 0 \notin Numbers /\ Messages \subseteq Int
  /\ MaxTokens \in Nat /\ Bounds \subseteq [Kinds -> Nat]
  /\ \A b \in Bounds : b["links"] <= MaxTokens

VARIABLES
  row,      \* the connection's row
  dead,     \* the tokens that Meta no longer takes
  hooked,   \* the numbers whose messages Meta sends to the webhook
  linking,  \* the request that connects
  tester,   \* the tests under way
  turn,     \* what became of each message
  known,    \* the messages of which the session's salesState knows
  left      \* how much may still happen

vars == <<row, dead, hooked, linking, tester, turn, known, left>>

NoRow == [there |-> FALSE, number |-> 0, token |-> 0, status |-> "none",
          subscribed |-> FALSE, fresh |-> FALSE, enabled |-> FALSE,
          voice |-> FALSE]
NoLink == [pc |-> "idle", number |-> 0, token |-> 0, good |-> TRUE]
NoTest == [pc |-> "idle", conn |-> NoRow, new |-> NoRow]
\* `replies`: what was sent to the customer; `excused`: why nothing was.
NewTurn == [pc |-> "new", state |-> {}, word |-> "", replies |-> {},
            excused |-> FALSE]

Init ==
  /\ left \in Bounds
  /\ row = NoRow /\ dead = {} /\ hooked = {} /\ known = {}
  /\ linking = NoLink
  /\ tester = [t \in Testers |-> NoTest]
  /\ turn = [m \in Messages |-> NewTurn]

Spend(kind) == left[kind] > 0 /\ left' = [left EXCEPT ![kind] = @ - 1]
Active(r) == r.there /\ r.status \in {"CONNECTED", "DEGRADED"}
SetT(t, new) == tester' = [tester EXCEPT ![t] = new]
SetM(m, new) == turn' = [turn EXCEPT ![m] = new]

-----------------------------------------------------------------------------
(* Connecting                                                              *)

\* connect and connectEmbedded come with a token of their own.
Tokens == MaxTokens - left.links
Connect(n) ==
  /\ linking.pc = "idle" /\ Spend("links")
  /\ linking' = [pc |-> "hook", number |-> n, token |-> Tokens + 1,
                 good |-> TRUE]
  /\ UNCHANGED <<row, dead, hooked, tester, turn, known>>

\* exchangeEmbeddedSignupCode, verifyPhoneNumber or a bad account: the
\* request fails and leaves no trace.
ConnectFails ==
  /\ linking.pc = "hook" /\ Spend("faults")
  /\ linking' = NoLink
  /\ UNCHANGED <<row, dead, hooked, tester, turn, known>>

\* subscribeWaba: another failure is only noted.
Hook ==
  /\ linking.pc = "hook" /\ linking.token \notin dead
  /\ linking' = [linking EXCEPT !.pc = "save"]
  /\ hooked' = hooked \cup {linking.number}
  /\ UNCHANGED <<row, dead, tester, turn, known, left>>

HookFails ==
  /\ linking.pc = "hook" /\ Spend("faults")
  /\ linking' = [linking EXCEPT !.pc = "save", !.good = FALSE]
  /\ UNCHANGED <<row, dead, hooked, tester, turn, known>>

StatusOf(good) == IF good THEN "CONNECTED" ELSE "DEGRADED"

\* A new row is for voice too; an old one keeps what the user chose.
SaveConnection ==
  /\ linking.pc = "save"
  /\ row' = [there |-> TRUE, number |-> linking.number,
             token |-> linking.token, status |-> StatusOf(linking.good),
             subscribed |-> linking.good, fresh |-> TRUE, enabled |-> TRUE,
             voice |-> row.there => row.voice]
  /\ linking' = NoLink
  /\ UNCHANGED <<dead, hooked, tester, turn, known, left>>

UpdateSettings ==
  /\ row.there /\ Spend("edits")
  /\ \/ row' = [row EXCEPT !.enabled = ~@]
     \/ row' = [row EXCEPT !.voice = ~@]
  /\ UNCHANGED <<dead, hooked, linking, tester, turn, known>>

Disconnect ==
  /\ row.there /\ Spend("edits")
  /\ row' = NoRow
  /\ UNCHANGED <<dead, hooked, linking, tester, turn, known>>

-----------------------------------------------------------------------------
(* Testing: on request, and every half hour                                *)

\* Mutant of Stale: what is degraded is left to the user.
StaleWhenSound ==
  row.status = "CONNECTED" /\ row.enabled /\ (~row.subscribed \/ ~row.fresh)

\* What reconcileWebhookSubscriptions takes.
Stale ==
  /\ Active(row) /\ row.enabled
  /\ ~row.subscribed \/ row.status = "DEGRADED" \/ ~row.fresh

Wanted(t) == IF t = Timer THEN Stale /\ UNCHANGED left
             ELSE row.there /\ Spend("tests")

\* The timer has read the row's user, and the test reads the row.
StartTest(t) ==
  /\ tester[t].pc = "idle" /\ Wanted(t)
  /\ SetT(t, [pc |-> "hook", conn |-> row, new |-> row])
  /\ UNCHANGED <<row, dead, hooked, linking, turn, known>>

Result(t, pc, status) ==
  [tester[t] EXCEPT !.pc = pc, !.new.status = status]

\* verifyPhoneNumber with a token that Meta does not take.
TestRefused(t) ==
  /\ tester[t].pc = "hook" /\ tester[t].conn.token \in dead
  /\ SetT(t, Result(t, "note", "ERROR"))
  /\ UNCHANGED <<row, dead, hooked, linking, turn, known, left>>

TestUnavailable(t) ==
  /\ tester[t].pc = "hook" /\ Spend("faults")
  /\ SetT(t, Result(t, "note", "DEGRADED"))
  /\ UNCHANGED <<row, dead, hooked, linking, turn, known>>

\* subscribeWaba of the account that the row had.
Subscribed(t) == hooked \cup {tester[t].conn.number}

TestHooks(t) ==
  /\ tester[t].pc = "hook" /\ tester[t].conn.token \notin dead
  /\ hooked' = Subscribed(t)
  /\ SetT(t, [Result(t, "write", "CONNECTED") EXCEPT !.new.subscribed = TRUE])
  /\ UNCHANGED <<row, dead, linking, turn, known, left>>

\* The number is fine, the subscription is not.
TestHookFails(t) ==
  /\ tester[t].pc = "hook" /\ tester[t].conn.token \notin dead
  /\ Spend("faults")
  /\ SetT(t, [Result(t, "write", "DEGRADED") EXCEPT !.new.subscribed = FALSE])
  /\ UNCHANGED <<row, dead, hooked, linking, turn, known>>

\* By the user, into the row as it is by now.
WriteTest(t) ==
  /\ tester[t].pc = "write"
  /\ row' = IF row.there
            THEN [row EXCEPT !.status = tester[t].new.status,
                             !.subscribed = tester[t].new.subscribed,
                             !.fresh = TRUE]
            ELSE row
  /\ SetT(t, NoTest)
  /\ UNCHANGED <<dead, hooked, linking, turn, known, left>>

NoteFailure(t) ==
  /\ tester[t].pc = "note"
  /\ row' = IF row.there THEN [row EXCEPT !.status = tester[t].new.status]
            ELSE row
  /\ SetT(t, NoTest)
  /\ UNCHANGED <<dead, hooked, linking, turn, known, left>>

-----------------------------------------------------------------------------
(* A customer's messages                                                   *)

\* handleWebhook: by the number; a receipt is made in the order of coming.
Arrives(m, n) ==
  /\ turn[m].pc = "new" /\ n \in hooked /\ Spend("messages")
  /\ \A before \in Messages : before < m => turn[before].pc # "new"
  /\ SetM(m, [turn[m] EXCEPT !.pc =
        IF Active(row) /\ row.number = n /\ row.enabled
        THEN "queued" ELSE "ignored"])
  /\ UNCHANGED <<row, dead, hooked, linking, tester, known>>

Ended == {"new", "ignored", "done"}

\* Mutant of MayRun: turns of one customer overlap.
AnyTime(m) == turn[m].pc = "queued"

\* runSalesTurnSequential: the chain of the customer.
MayRun(m) ==
  /\ turn[m].pc = "queued"
  /\ \A before \in Messages : before < m => turn[before].pc \in Ended

Done(m) == [turn[m] EXCEPT !.pc = "done"]
Excused(m) == [Done(m) EXCEPT !.excused = TRUE]
Told(m, what) == [Done(m) EXCEPT !.replies = @ \cup {what}]
Reaches == Active(row) /\ row.token \notin dead

\* An apology or a notice is what is left of the turn.
Tells(m, what) == SetM(m, [turn[m] EXCEPT !.pc = "tell", !.word = what])

\* Its sendText swallows every error, and it may have gone out all the same.
Tell(m) ==
  /\ turn[m].pc = "tell"
  /\ SetM(m, IF Reaches THEN Told(m, turn[m].word) ELSE Excused(m))
  /\ UNCHANGED <<row, dead, hooked, linking, tester, known, left>>

TellFails(m) ==
  /\ turn[m].pc = "tell" /\ Spend("faults")
  /\ SetM(m, Excused(m))
  /\ UNCHANGED <<row, dead, hooked, linking, tester, known>>

\* assertFeatureAllowed, assertAiAllowed: the customer is told to wait.
Limited(m) ==
  /\ MayRun(m) /\ Spend("limits")
  /\ Tells(m, "limit")
  /\ UNCHANGED <<row, dead, hooked, linking, tester, known>>

\* What a message says to the agent: a voice message is transcribed.
Silent(m) ==
  ~Active(row) \/ ~row.enabled \/ (KindOf[m] = "voice" /\ ~row.voice)

\* The row is read again, and the session with its salesState.
Begin(m) ==
  /\ MayRun(m)
  /\ SetM(m, IF Silent(m) THEN Excused(m)
             ELSE [turn[m] EXCEPT !.pc = "media", !.state = known])
  /\ UNCHANGED <<row, dead, hooked, linking, tester, known, left>>

\* The catch of processIncoming.
Failed(m) == Tells(m, "apology")

MediaFails(m) ==
  /\ turn[m].pc = "media" /\ KindOf[m] # "text"
  /\ ~Reaches
  /\ IF KindOf[m] = "voice" THEN Failed(m)
     ELSE SetM(m, [turn[m] EXCEPT !.pc = "think"])
  /\ UNCHANGED <<row, dead, hooked, linking, tester, known, left>>

\* A voice message of more than a minute, or of no known length.
TooLong(m) ==
  /\ turn[m].pc = "media" /\ KindOf[m] = "voice" /\ Spend("faults")
  /\ Reaches
  /\ Tells(m, "tooLong")
  /\ UNCHANGED <<row, dead, hooked, linking, tester, known>>

Understand(m) ==
  /\ turn[m].pc = "media"
  /\ KindOf[m] = "text" \/ Reaches
  /\ SetM(m, [turn[m] EXCEPT !.pc = "think"])
  /\ UNCHANGED <<row, dead, hooked, linking, tester, known, left>>

ChatFails(m) ==
  /\ turn[m].pc = "think" /\ Spend("faults")
  /\ Failed(m)
  /\ UNCHANGED <<row, dead, hooked, linking, tester, known>>

\* ai.chat changes the salesState that the turn read, which is then saved.
Chat(m) ==
  /\ turn[m].pc = "think"
  /\ known' = turn[m].state \cup {m}
  /\ SetM(m, [turn[m] EXCEPT !.pc = "answer"])
  /\ UNCHANGED <<row, dead, hooked, linking, tester, left>>

\* sendText reads the row; the answer has gone out if its own answer is
\* lost, and an apology follows.
Answer(m) ==
  /\ turn[m].pc = "answer"
  /\ IF Reaches THEN SetM(m, Told(m, "answer")) ELSE Failed(m)
  /\ UNCHANGED <<row, dead, hooked, linking, tester, known, left>>

AnswerFails(m) ==
  /\ turn[m].pc = "answer" /\ Spend("faults")
  /\ Reaches
  /\ \E gone \in SUBSET {"answer"} :
       SetM(m, [turn[m] EXCEPT !.pc = "tell", !.word = "apology",
                               !.replies = gone])
  /\ UNCHANGED <<row, dead, hooked, linking, tester, known>>

-----------------------------------------------------------------------------
(* Time, and Meta                                                          *)

\* Six hours without a test.
Ages ==
  /\ row.there /\ row.fresh
  /\ row' = [row EXCEPT !.fresh = FALSE]
  /\ UNCHANGED <<dead, hooked, linking, tester, turn, known, left>>

Unhooks(n) ==
  /\ n \in hooked /\ Spend("losses")
  /\ hooked' = hooked \ {n}
  /\ UNCHANGED <<row, dead, linking, tester, turn, known>>

Dies ==
  /\ row.there /\ row.token \notin dead /\ Spend("losses")
  /\ dead' = dead \cup {row.token}
  /\ UNCHANGED <<row, hooked, linking, tester, turn, known>>

Testing(t) ==
  \/ StartTest(t) \/ TestRefused(t) \/ TestUnavailable(t) \/ TestHooks(t)
  \/ TestHookFails(t) \/ WriteTest(t) \/ NoteFailure(t)

Answering(m) ==
  \/ \E n \in Numbers : Arrives(m, n)
  \/ Limited(m) \/ Begin(m) \/ MediaFails(m) \/ TooLong(m) \/ Understand(m)
  \/ ChatFails(m) \/ Chat(m) \/ Answer(m) \/ AnswerFails(m)
  \/ Tell(m) \/ TellFails(m)

Next ==
  \/ \E n \in Numbers : Connect(n) \/ Unhooks(n)
  \/ ConnectFails \/ Hook \/ HookFails \/ SaveConnection
  \/ UpdateSettings \/ Disconnect \/ Ages \/ Dies
  \/ \E t \in Testers : Testing(t)
  \/ \E m \in Messages : Answering(m)

\* Time passes, the interval's timer fires and its test runs to its end.
Repairs ==
  \/ StartTest(Timer) \/ TestRefused(Timer) \/ TestHooks(Timer)
  \/ WriteTest(Timer) \/ NoteFailure(Timer)

Fairness == WF_vars(Ages) /\ WF_vars(Repairs)

Spec == Init /\ [][Next]_vars /\ Fairness

-----------------------------------------------------------------------------
(* Properties                                                              *)

Underway(m) == turn[m].pc \in {"media", "think", "answer", "tell"}

\* Every variable has its type, and one turn of the customer runs at a time.
TypeOK ==
  /\ row.status \in {"none", "CONNECTED", "DEGRADED", "ERROR"}
  /\ row.there <=> row.number \in Numbers
  /\ hooked \subseteq Numbers /\ dead \subseteq 1..MaxTokens
  /\ \A m, o \in Messages : Underway(m) /\ Underway(o) => m = o

\* The salesState of the session knows every message that was answered: a
\* turn is remembered before its answer goes out, and no other overwrites it.
AnsweredIsRemembered ==
  \A m \in Messages : "answer" \in turn[m].replies => m \in known

\* A turn that ends without a word to the customer ended so because the
\* agent, its voice or its number was off, or the apology failed as well; no
\* other failure is silent.
SilenceExplained ==
  \A m \in Messages :
    (turn[m].pc = "done" /\ turn[m].replies = {}) => turn[m].excused

\* Whatever happened to the webhook subscription of a number whose agent is
\* on and whose token is good, it is repaired without the user, unless the
\* connection is in error, which only he can mend.
RepairedAtLast ==
  <>[](Active(row) /\ row.enabled /\ row.token \notin dead)
    => <>[](row.number \in hooked)
=============================================================================
