--------------------------- MODULE TelegramAccount ---------------------------
(***************************************************************************)
(* The Telegram account of one user: logging in by a code or by a QR code, *)
(* using the session, logging out (telegram-integration.service.ts over    *)
(* telegram-client.service.ts), and the listener that follows the account  *)
(* (reconcile of telegram-sales-agent.service.ts).                         *)
(*                                                                         *)
(* A request reads the row, calls Telegram, and then writes the row, with  *)
(* no lock from the read to the write: requests may overlap in any way.    *)
(* Telegram is the state of each auth key.  A session string saved again   *)
(* stands for the same auth key; the client kept open behind a QR code     *)
(* only saves a reconnect.                                                 *)
(*                                                                         *)
(* Left out: the waiting times between codes, which only refuse requests,  *)
(* names and phone numbers, searches, and what is logged.                  *)
(***************************************************************************)
EXTENDS Integers, FiniteSets

CONSTANTS
  Workers,   \* requests served at a time
  MaxKeys,   \* bound: auth keys Telegram hands out
  Bounds     \* bounds: requests, faults, and so on, in different behaviours

\* What the constants must be; the module that instantiates this one assumes it.
TelegramAccountAssumption ==
  /\ MaxKeys \in Nat
  /\ Bounds \subseteq [ops : Nat, faults : Nat, restarts : Nat, kills : Nat,
                       toggles : Nat, listens : BOOLEAN]

VARIABLES
  row,      \* the TelegramConnection
  tg,       \* Telegram: the state of each auth key
  worker,   \* the requests
  listener, \* key of the listener in the map of the process, or None
  fresh,    \* that listener was checked less than a minute ago
  running,  \* how many clients of the process listen, by key
  loop,     \* runs of reconcile: the timer's and that of updateSettings
  reconciling,  \* the flag
  entitled, \* the subscription lets the agent run
  left      \* how much of each there may still be

vars == <<row, tg, worker, listener, fresh, running, loop, reconciling,
          entitled, left>>
login == <<row, tg, worker>>
listening == <<listener, fresh, running, loop, reconciling>>

Keys == 1..MaxKeys
None == 0
Loops == {"timer", "settings"}

\* `by`: the login is by "phone" or "qr"; `hash`: a phoneCodeHash is stored;
\* `version` and `late` (history): how often the row was written, and whether
\* a request that had read an older row wrote a part of it since it was last
\* written as a whole.
NoRow == [made |-> FALSE, status |-> "DISCONNECTED", key |-> None,
          hash |-> FALSE, by |-> "none", enabled |-> FALSE,
          version |-> 0, late |-> FALSE]
Idle == [pc |-> "idle", op |-> "none", key |-> None, version |-> 0,
         result |-> "none"]
Waiting == [pc |-> "idle", key |-> None]

Init ==
  /\ left \in Bounds
  /\ row = NoRow
  /\ tg = [k \in Keys |-> "none"]
  /\ worker = [w \in Workers |-> Idle]
  /\ listener = None /\ fresh = FALSE
  /\ running = [k \in Keys |-> 0]
  /\ loop = [l \in Loops |-> Waiting]
  /\ reconciling = FALSE
  /\ entitled = TRUE

-----------------------------------------------------------------------------
(* A request reads the row                                                 *)

\* connect, startQrLogin, qrStatus, resendCode, restartCode, verifyCode,
\* verifyPassword, disconnect, and any use of the session; each with the row
\* it goes on with.
Pending(status) == row.status = status /\ row.key # None

\* A QR code is shown; a code is asked for again by the phone number it was
\* sent to.
ShowsQr == row.status # "CONNECTED" /\ row.key # None /\ row.by = "qr"
MayRestart == Pending("AWAITING_CODE") /\ row.by = "phone"

Open(op) ==
  CASE op \in {"connect", "qr"} -> row.status # "CONNECTED"
    [] op = "qrStatus" -> ShowsQr
    [] op \in {"resend", "code"} -> Pending("AWAITING_CODE") /\ row.hash
    [] op = "restart" -> MayRestart
    [] op = "password" -> Pending("AWAITING_PASSWORD")
    [] op = "disconnect" -> row.made
    [] op = "use" -> Pending("CONNECTED")

Ops == {"connect", "qr", "qrStatus", "resend", "restart", "code", "password",
        "disconnect", "use"}

Begin(w, op) ==
  /\ worker[w].pc = "idle" /\ left.ops > 0
  /\ Open(op)
  /\ left' = [left EXCEPT !.ops = @ - 1]
  /\ worker' = [worker EXCEPT ![w] = [pc |-> "call", op |-> op, key |-> row.key,
                                      version |-> row.version,
                                      result |-> "none"]]
  /\ UNCHANGED <<row, tg, listening, entitled>>

-----------------------------------------------------------------------------
(* It calls Telegram                                                       *)

\* Telegram's answer `result` about key k, which is in state `state` then.
Answer(w, k, state, result) ==
  /\ worker[w].pc = "call"
  /\ worker' = [worker EXCEPT ![w] =
                  [@ EXCEPT !.pc = "store", !.key = k, !.result = result]]
  /\ tg' = IF k = None THEN tg ELSE [tg EXCEPT ![k] = state]
  /\ UNCHANGED <<row, listening, entitled, left>>

\* beginLogin and beginQrLogin: a new auth key.
CallLogin(w) ==
  \E k \in Keys :
    /\ worker[w].op \in {"connect", "qr", "restart"}
    /\ tg[k] = "none" /\ \A j \in Keys : tg[j] = "none" => k <= j
    /\ Answer(w, k, "open", "sent")

\* checkQrLogin and pollQrLogin: accepted, a password needed, or still to be
\* scanned, with the QR code shown or with a new one.
QrResults(k) ==
  CASE tg[k] = "authorized" -> {"connected"}
    [] tg[k] = "password" -> {"password"}
    [] tg[k] = "open" -> {"pending", "newCode"}
    [] tg[k] \in {"none", "dead"} -> {"error"}

\* qrStatus looks at the code while it is shown, and asks again when it has
\* expired.
CallQrStatus(w) ==
  LET k == worker[w].key IN
  /\ worker[w].op = "qrStatus"
  /\ \E r \in QrResults(k) : Answer(w, k, tg[k], r)

\* resendCode: sent again, or the login has to be started again.
CallResend(w) ==
  LET k == worker[w].key IN
  /\ worker[w].op = "resend"
  /\ \E r \in {"sent", "expired", "startOver"} : Answer(w, k, tg[k], r)

\* verifyCode: right, right but a password is needed, wrong or expired.
CallCode(w) ==
  LET k == worker[w].key IN
  /\ worker[w].op = "code"
  /\ \/ tg[k] = "open" /\ Answer(w, k, "authorized", "connected")
     \/ tg[k] = "open" /\ Answer(w, k, "password", "password")
     \/ \E r \in {"refused", "expired"} : Answer(w, k, tg[k], r)

CallPassword(w) ==
  LET k == worker[w].key IN
  /\ worker[w].op = "password"
  /\ \/ tg[k] = "password" /\ Answer(w, k, "authorized", "connected")
     \/ Answer(w, k, tg[k], "refused")

\* logout, best effort.
CallLogout(w) ==
  LET k == worker[w].key IN
  /\ worker[w].op = "disconnect"
  /\ Answer(w, k, "dead", "done")

\* validateSession, and likewise sendMessage and search: the auth key may be
\* dead.
Validated(k) == IF tg[k] = "authorized" THEN "done" ELSE "invalid"

\* status(), which validates the session when it was last five minutes ago,
\* and every other use of it.
CallUse(w) ==
  LET k == worker[w].key IN
  /\ worker[w].op = "use"
  /\ Answer(w, k, tg[k], Validated(k))

\* Telegram is unavailable; a logout goes on without it.
CallFails(w) ==
  /\ left.faults > 0 /\ worker[w].pc = "call"
  /\ left' = [left EXCEPT !.faults = @ - 1]
  /\ worker' = [worker EXCEPT ![w] = [@ EXCEPT !.pc = "store",
                  !.result = IF worker[w].op = "disconnect" THEN "done" ELSE "error"]]
  /\ UNCHANGED <<row, tg, listening, entitled>>

Call(w) ==
  \/ CallLogin(w) \/ CallQrStatus(w) \/ CallResend(w) \/ CallCode(w)
  \/ CallPassword(w) \/ CallLogout(w) \/ CallUse(w) \/ CallFails(w)

-----------------------------------------------------------------------------
(* It writes the row                                                       *)

Late(w) == row.late \/ worker[w].version # row.version

\* The whole row, or a part of it.
Write(w, r, late) ==
  /\ row' = [r EXCEPT !.made = TRUE, !.version = @ + 1, !.late = late]
  /\ worker' = [worker EXCEPT ![w] = Idle]
  /\ UNCHANGED <<tg, listening, entitled, left>>
WriteAll(w, r) == Write(w, r, FALSE)
WritePart(w, r) == Write(w, r, Late(w))

NoWrite(w) ==
  /\ worker' = [worker EXCEPT ![w] = Idle]
  /\ UNCHANGED <<row, tg, listening, entitled, left>>

Storing(w, ops, results) ==
  /\ worker[w].pc = "store"
  /\ worker[w].op \in ops /\ worker[w].result \in results

\* A login begins, by phone or by QR code.
LoginBy(by, k) ==
  [row EXCEPT !.status = "AWAITING_CODE", !.key = k, !.hash = by = "phone",
              !.by = by]

\* connect and restartCode, with the hash of the code that was sent.
StoreLogin(w) ==
  /\ Storing(w, {"connect"}, {"sent"})
  /\ WriteAll(w, LoginBy("phone", worker[w].key))
StoreRestart(w) ==
  /\ Storing(w, {"restart"}, {"sent"})
  /\ WriteAll(w, LoginBy("phone", worker[w].key))

\* startQrLogin, and a new code for the one that has expired.
StoreQr(w) ==
  /\ Storing(w, {"qr"}, {"sent"}) \/ Storing(w, {"qrStatus"}, {"newCode"})
  /\ WriteAll(w, LoginBy("qr", worker[w].key))

\* finalizeConnection
Final(k) ==
  [row EXCEPT !.status = "CONNECTED", !.key = k, !.by = "none", !.hash = FALSE]

StoreConnected(w) ==
  /\ Storing(w, {"qrStatus", "code"}, {"connected"})
  /\ WriteAll(w, Final(worker[w].key))
StoreVerified(w) ==
  /\ Storing(w, {"password"}, {"connected"})
  /\ WriteAll(w, Final(worker[w].key))

StorePassword(w) ==
  /\ Storing(w, {"qrStatus", "code"}, {"password"})
  /\ WritePart(w, [row EXCEPT
       !.status = "AWAITING_PASSWORD", !.key = worker[w].key,
       !.by = IF worker[w].op = "qrStatus" THEN "qr" ELSE @])

\* Only the session, whatever the status has become: a QR code still to be
\* scanned, and, with the hash, a code that was sent again.
StoreSession(w) ==
  LET r == worker[w] IN
  /\ Storing(w, {"qrStatus"}, {"pending"}) \/ Storing(w, {"resend"}, {"sent"})
  /\ WritePart(w, [row EXCEPT !.key = r.key, !.hash = @ \/ r.op = "resend"])

Cleared == [row EXCEPT !.status = "DISCONNECTED", !.key = None,
                       !.hash = FALSE, !.by = "none"]

\* disconnect, and revokeConnection after an error that says the key is dead.
StoreDisconnect(w) ==
  /\ Storing(w, {"disconnect"}, {"done"}) \/ Storing(w, {"use"}, {"invalid"})
  /\ WriteAll(w, Cleared)

\* invalidatePending, for a row that still awaits its code; restartLogin goes
\* on to a new code.
StoreInvalid(w) ==
  /\ Storing(w, {"resend", "code"}, {"expired", "startOver"})
  /\ row' = IF row.status = "AWAITING_CODE"
            THEN [Cleared EXCEPT !.version = @ + 1, !.late = FALSE] ELSE row
  /\ worker' = [worker EXCEPT ![w] =
                  IF @.result = "startOver"
                  THEN [@ EXCEPT !.pc = "call", !.op = "restart"] ELSE Idle]
  /\ UNCHANGED <<tg, listening, entitled, left>>

\* markError, whatever the status has become: connect and startQrLogin, and a
\* code or a password Telegram could not look at.
StoreError(w) ==
  /\ Storing(w, {"connect", "qr", "code", "password"}, {"error"})
  /\ IF row.made THEN WritePart(w, [row EXCEPT !.status = "ERROR"])
     ELSE NoWrite(w)

\* Refused, or an error that is only noted.
StoreNothing(w) ==
  /\ \/ Storing(w, {"code", "password"}, {"refused"})
     \/ Storing(w, {"use"}, {"done", "error"})
     \/ Storing(w, {"qrStatus", "resend", "restart"}, {"error"})
  /\ NoWrite(w)

Store(w) ==
  \/ StoreLogin(w) \/ StoreRestart(w) \/ StoreQr(w)
  \/ StoreConnected(w) \/ StoreVerified(w)
  \/ StorePassword(w) \/ StoreSession(w)
  \/ StoreDisconnect(w) \/ StoreInvalid(w) \/ StoreError(w) \/ StoreNothing(w)

-----------------------------------------------------------------------------
(* reconcile                                                               *)

\* updateSettings turns the agent on or off and then reconciles.
Toggle ==
  /\ left.toggles > 0 /\ row.status = "CONNECTED" /\ row.key # None
  /\ loop["settings"].pc = "idle"
  /\ left' = [left EXCEPT !.toggles = @ - 1]
  /\ row' = [row EXCEPT !.enabled = ~@]
  /\ loop' = [loop EXCEPT !["settings"].pc = "begin"]
  /\ UNCHANGED <<tg, worker, listener, fresh, running, reconciling, entitled>>

\* The timer, every 20 seconds.
TimerRings ==
  /\ left.listens /\ loop["timer"].pc = "idle"
  /\ loop' = [loop EXCEPT !["timer"].pc = "begin"]
  /\ UNCHANGED <<login, listener, fresh, running, reconciling, entitled, left>>

Wanted ==
  IF row.status = "CONNECTED" /\ row.enabled /\ entitled THEN row.key ELSE None

\* The flag; the variant begins beside a run that has not ended.
NotExclusive == TRUE
MayReconcile == ~reconciling

\* A run returns at once while another one is under way.  It goes by the rows
\* it reads when it begins.
Reconcile(l) ==
  /\ loop[l].pc = "begin"
  /\ \/ /\ MayReconcile
        /\ reconciling' = TRUE
        /\ loop' = [loop EXCEPT ![l] = [pc |-> "match", key |-> Wanted]]
     \/ /\ ~MayReconcile
        /\ loop' = [loop EXCEPT ![l] = Waiting]
        /\ UNCHANGED reconciling
  /\ UNCHANGED <<login, listener, fresh, running, entitled, left>>

\* A listener that stays is for the key the row holds (its fingerprint).
SameSession(k) == listener = k

\* The finally clause; the variant does without.
EndedLocked(l) ==
  /\ loop' = [loop EXCEPT ![l] = Waiting]
  /\ UNCHANGED reconciling
Ended(l) ==
  /\ loop' = [loop EXCEPT ![l] = Waiting]
  /\ reconciling' = FALSE

StopListener == running' = [running EXCEPT ![listener] = @ - 1]

\* A listener that is not wanted stops; one that is is left alone, or asked
\* how it is once a minute; without one, or with that of another key stopped,
\* a new one starts.
Match(l) ==
  LET k == loop[l].key IN
  /\ loop[l].pc = "match"
  /\ \/ /\ listener # None /\ SameSession(k) /\ fresh
        /\ Ended(l)
        /\ UNCHANGED <<listener, fresh, running>>
     \/ /\ listener # None /\ SameSession(k) /\ ~fresh
        /\ loop' = [loop EXCEPT ![l].pc = "health"]
        /\ UNCHANGED <<listener, fresh, running, reconciling>>
     \/ /\ listener # None /\ ~SameSession(k)
        /\ StopListener
        /\ listener' = None /\ fresh' = FALSE
        /\ IF k = None THEN Ended(l)
           ELSE /\ loop' = [loop EXCEPT ![l].pc = "start"]
                /\ UNCHANGED reconciling
     \/ /\ listener = None
        /\ IF k = None THEN Ended(l)
           ELSE /\ loop' = [loop EXCEPT ![l].pc = "start"]
                /\ UNCHANGED reconciling
        /\ UNCHANGED <<listener, fresh, running>>
  /\ UNCHANGED <<login, entitled, left>>

\* What the client answers: that it is well only if Telegram knows the key.
Well(k) == tg[k] = "authorized"

Unavailable ==
  /\ left.faults > 0
  /\ left' = [left EXCEPT !.faults = @ - 1]

\* listener.health().
Health(l) ==
  LET k == listener IN
  /\ loop[l].pc = "health"
  /\ \/ /\ Well(k)
        /\ fresh' = TRUE
        /\ Ended(l)
        /\ UNCHANGED <<listener, running, left>>
     \/ /\ IF Well(k) THEN Unavailable ELSE UNCHANGED left
        /\ StopListener
        /\ listener' = None /\ fresh' = FALSE
        /\ loop' = [loop EXCEPT ![l].pc = "start"]
        /\ UNCHANGED reconciling
  /\ UNCHANGED <<login, entitled>>

\* listenIncomingMessages: connects, and then listens.
Start(l) ==
  LET k == loop[l].key IN
  /\ loop[l].pc = "start"
  /\ \/ /\ Well(k)
        /\ running' = [running EXCEPT ![k] = @ + 1]
        /\ loop' = [loop EXCEPT ![l].pc = "started"]
        /\ UNCHANGED <<reconciling, left>>
     \/ /\ IF Well(k) THEN Unavailable ELSE UNCHANGED left
        /\ Ended(l)
        /\ UNCHANGED running
  /\ UNCHANGED <<login, listener, fresh, entitled>>

\* What becomes of a new listener that is not well.
Stopped(k) == [running EXCEPT ![k] = @ - 1]

\* Its health is looked at before it is put into the map.
Started(l) ==
  LET k == loop[l].key IN
  /\ loop[l].pc = "started"
  /\ \/ /\ Well(k)
        /\ listener' = k /\ fresh' = TRUE
        /\ UNCHANGED <<running, left>>
     \/ /\ IF Well(k) THEN Unavailable ELSE UNCHANGED left
        /\ running' = Stopped(k)
        /\ UNCHANGED <<listener, fresh>>
  /\ Ended(l)
  /\ UNCHANGED <<login, entitled>>

\* A minute passes.
GrowsStale ==
  /\ fresh /\ fresh' = FALSE
  /\ UNCHANGED <<login, listener, running, loop, reconciling, entitled, left>>

-----------------------------------------------------------------------------
(* Telegram, the subscription, and the process                             *)

\* The user scans the QR code, or ends the session on another device.
Scan(k) ==
  /\ tg[k] = "open" /\ row.key = k /\ row.by = "qr"
  /\ \E s \in {"authorized", "password"} : tg' = [tg EXCEPT ![k] = s]
  /\ UNCHANGED <<row, worker, listening, entitled, left>>

Kill(k) ==
  /\ left.kills > 0 /\ tg[k] = "authorized"
  /\ left' = [left EXCEPT !.kills = @ - 1]
  /\ tg' = [tg EXCEPT ![k] = "dead"]
  /\ UNCHANGED <<row, worker, listening, entitled>>

Entitle ==
  /\ left.toggles > 0 /\ left.listens
  /\ left' = [left EXCEPT !.toggles = @ - 1]
  /\ entitled' = ~entitled
  /\ UNCHANGED <<login, listening>>

Restart ==
  /\ left.restarts > 0
  /\ left' = [left EXCEPT !.restarts = @ - 1]
  /\ worker' = [w \in Workers |-> Idle]
  /\ listener' = None /\ fresh' = FALSE
  /\ running' = [k \in Keys |-> 0]
  /\ loop' = [l \in Loops |-> Waiting] /\ reconciling' = FALSE
  /\ UNCHANGED <<row, tg, entitled>>

Run(l) == Reconcile(l) \/ Match(l) \/ Health(l) \/ Start(l) \/ Started(l)

Next ==
  \/ \E w \in Workers : \/ \E op \in Ops : Begin(w, op)
                        \/ Call(w) \/ Store(w)
  \/ Toggle \/ TimerRings \/ GrowsStale
  \/ \E l \in Loops : Run(l)
  \/ \E k \in Keys : Scan(k) \/ Kill(k)
  \/ Entitle \/ Restart

\* The timer rings, time passes, and a run of reconcile goes on.
Spec == /\ Init /\ [][Next]_vars
        /\ WF_vars(TimerRings) /\ WF_vars(GrowsStale)
        /\ \A l \in Loops : WF_vars(Run(l))

-----------------------------------------------------------------------------
(* Properties                                                              *)

Statuses == {"DISCONNECTED", "AWAITING_CODE", "AWAITING_PASSWORD",
             "CONNECTED", "ERROR"}

\* Every variable holds a value of its type in the code.
TypeOK ==
  /\ row.status \in Statuses /\ row.key \in Keys \cup {None}
  /\ row.by \in {"none", "phone", "qr"}
  /\ tg \in [Keys -> {"none", "open", "password", "authorized", "dead"}]
  /\ \A w \in Workers : worker[w].pc = "idle" <=> worker[w] = Idle
  /\ listener \in Keys \cup {None}
  /\ running \in [Keys -> 0..1]
  /\ reconciling <=> \E l \in Loops : loop[l].pc \notin {"idle", "begin"}

\* The row has what its status needs and nothing else, and a connected one has
\* a key that Telegram took, unless a request that had read an older row wrote
\* a part of it (the writes of telegram-integration.service.ts).
RowCoherent ==
  row.late \/
  CASE row.status = "CONNECTED" ->
         /\ row.key # None /\ ~row.hash
         /\ tg[row.key] \in {"authorized", "dead"}
    [] row.status = "DISCONNECTED" -> row.key = None /\ ~row.hash
    [] row.status = "AWAITING_CODE" ->
         row.key # None /\ (row.by = "phone" <=> row.hash)
    [] OTHER -> TRUE

\* No listener but the one in the map and the one a run of reconcile has just
\* started, and never two (reconcile): each would answer every customer.
OneListener ==
  LET starting == {l \in Loops : loop[l].pc = "started"}
      all == IF listener = None THEN 0 ELSE 1 IN
  /\ all + Cardinality(starting) <= 1
  /\ \A k \in Keys : running[k] = Cardinality({l \in starting : loop[l].key = k})
                                  + (IF listener = k THEN 1 ELSE 0)

\* Once nothing changes any more, a listener runs for the key of the row if
\* there has to be one and Telegram knows the key, and else none does,
\* whatever reconcile missed while it was already running.
Listened ==
  listener = IF Wanted # None /\ tg[Wanted] = "authorized" THEN Wanted ELSE None
ListenerFollows == <>[](left.listens => Listened)
=============================================================================
