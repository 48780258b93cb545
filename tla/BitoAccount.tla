---------------------------- MODULE BitoAccount ----------------------------
(***************************************************************************)
(* The ERP connection of one user (bito-oauth.service.ts,                  *)
(* bito-integration.service.ts): authorizing with the home server,         *)
(* connecting to another one by hand, disconnecting, and the calls that    *)
(* use the row meanwhile, with the refresh of an expired token.            *)
(*                                                                         *)
(* Every remote call and every statement is a step of its own.  The        *)
(* provider gives an access and a refresh token under one number; a        *)
(* refresh token is good for one refresh.  Whether an access token has     *)
(* expired is the provider's choice, each time.  Left out: discovery and   *)
(* registration of the client, a home server that asks for no              *)
(* authorization, and what is only recorded (times, names, error codes).   *)
(***************************************************************************)
EXTENDS Integers, FiniteSets

CONSTANTS
  Workers,    \* calls of tools that are under way at a time
  MaxTokens,  \* bound: tokens the provider gives out
  Bounds      \* bounds of the requests and faults, in different behaviours

\* What the constants must be; the module that instantiates this one assumes it.
BitoAccountAssumption ==
  /\ MaxTokens \in Nat
  /\ Bounds \subseteq [begins : Nat, connects : Nat, disconnects : Nat,
                       calls : Nat, faults : Nat]

VARIABLES
  row,       \* the connection
  callback,  \* the browser coming back from the provider
  leaving,   \* a disconnect that is under way
  worker,    \* the calls
  refresh,   \* the refresh that is under way, if any
  provider,  \* which refresh tokens are good, and what was done
  history,   \* what excuses a row that is out of step, see below
  left

vars == <<row, callback, leaving, worker, refresh, provider, history, left>>

Key == MaxTokens + 1  \* the token of the other server
NoToken == 0
NoRow == [id |-> 0, write |-> 0, url |-> "none", mode |-> "NONE",
          status |-> "DISCONNECTED", state |-> 0, access |-> NoToken,
          refresh |-> NoToken]
NoCallback == [pc |-> "none", seen |-> NoRow, token |-> NoToken]
Idle == [pc |-> "idle", op |-> "read", force |-> FALSE, attempt |-> 1,
         seen |-> NoRow, again |-> NoRow, token |-> NoToken]
NoRefresh == [pc |-> "none", seen |-> NoRow, token |-> NoToken]

\* `overtaken`: a callback wrote over a row that had changed since it was
\* read; `lost`: an answer with new tokens did not arrive.
Init ==
  /\ left \in Bounds
  /\ row = NoRow /\ callback = NoCallback /\ leaving = "no"
  /\ worker = [w \in Workers |-> Idle]
  /\ refresh = NoRefresh
  /\ provider = [given |-> 0, good |-> {}, writes |-> 0, asked |-> 0]
  /\ history = [overtaken |-> FALSE, lost |-> FALSE]

There == row.id # 0
Usable(r) == r.id # 0 /\ r.status \in {"CONNECTED", "ERROR"}

\* Every write of the address encrypts it anew: `write` tells them apart.
\* A row that was deleted comes back under another id.
Rewritten(changes) ==
  [id |-> IF There THEN row.id ELSE left.begins + left.connects,
   write |-> left.begins + left.connects,
   url |-> changes.url, mode |-> changes.mode, status |-> changes.status,
   state |-> changes.state, access |-> changes.access, refresh |-> NoToken]

-----------------------------------------------------------------------------
(* The owner                                                               *)

\* begin: the row forgets its tokens and waits for the browser.
Begin ==
  /\ left.begins > 0
  /\ row' = Rewritten([url |-> "home", mode |-> "BEARER",
                       status |-> "AUTHORIZING", state |-> left.begins,
                       access |-> NoToken])
  /\ left' = [left EXCEPT !.begins = @ - 1]
  /\ UNCHANGED <<callback, leaving, worker, refresh, provider, history>>

\* connect: another server, with a key or a token that never changes.
Connect(mode) ==
  /\ left.connects > 0
  /\ row' = Rewritten([url |-> "other", mode |-> mode,
                       status |-> "CONNECTED", state |-> 0, access |-> Key])
  /\ left' = [left EXCEPT !.connects = @ - 1]
  /\ UNCHANGED <<callback, leaving, worker, refresh, provider, history>>

\* disconnect: the provider is told first, and the row deleted then, whatever
\* it has become.
Disconnect ==
  /\ There /\ leaving = "no" /\ left.disconnects > 0
  /\ leaving' = "yes"
  /\ left' = [left EXCEPT !.disconnects = @ - 1]
  /\ UNCHANGED <<row, callback, worker, refresh, provider, history>>

Delete ==
  /\ leaving = "yes" /\ leaving' = "no"
  /\ row' = NoRow
  /\ UNCHANGED <<callback, worker, refresh, provider, history, left>>

-----------------------------------------------------------------------------
(* The callback                                                            *)

CallbackReads ==
  /\ callback.pc = "none"
  /\ There /\ row.status = "AUTHORIZING" /\ row.state # 0
  /\ callback' = [NoCallback EXCEPT !.pc = "read", !.seen = row]
  /\ UNCHANGED <<row, leaving, worker, refresh, provider, history, left>>

Granted == provider.given + 1
Spare == provider.given < MaxTokens

CallbackExchanges ==
  /\ callback.pc = "read" /\ Spare
  /\ provider' = [provider EXCEPT !.given = Granted,
                    !.good = @ \cup {Granted}]
  /\ callback' = [callback EXCEPT !.pc = "write", !.token = Granted]
  /\ UNCHANGED <<row, leaving, worker, refresh, history, left>>

\* The row is found by its id alone.
CallbackWrites ==
  /\ callback.pc = "write"
  /\ row' = IF row.id = callback.seen.id
            THEN [row EXCEPT !.access = callback.token,
                    !.refresh = callback.token, !.mode = "BEARER",
                    !.status = "CONNECTED", !.state = 0]
            ELSE row
  /\ history' = [history EXCEPT !.overtaken =
                   @ \/ (row.id = callback.seen.id
                           /\ row # callback.seen)]
  /\ callback' = NoCallback
  /\ UNCHANGED <<leaving, worker, refresh, provider, left>>

\* The user says no, or the exchange fails: by id, or of the user's row.
CallbackCancelled ==
  /\ callback.pc = "read"
  /\ row' = IF row.id = callback.seen.id
            THEN [row EXCEPT !.status = "DISCONNECTED", !.state = 0] ELSE row
  /\ history' = [history EXCEPT !.overtaken =
                   @ \/ (row.id = callback.seen.id
                           /\ row # callback.seen)]
  /\ callback' = NoCallback
  /\ UNCHANGED <<leaving, worker, refresh, provider, left>>

CallbackFails ==
  /\ callback.pc \in {"read", "write"} /\ left.faults > 0
  /\ row' = IF There THEN [row EXCEPT !.status = "ERROR", !.state = 0] ELSE row
  /\ callback' = NoCallback
  /\ left' = [left EXCEPT !.faults = @ - 1]
  /\ UNCHANGED <<leaving, worker, refresh, provider, history>>

-----------------------------------------------------------------------------
(* The credentials of a call                                               *)

Set(w, new) == worker' = [worker EXCEPT ![w] = new]
Failed(w, why) == [worker[w] EXCEPT !.pc = why, !.token = NoToken]

Call(w, op) ==
  /\ worker[w].pc = "idle" /\ left.calls > 0
  /\ op = "write" => provider.asked = 0
  /\ Set(w, [Idle EXCEPT !.pc = "credentials", !.op = op])
  /\ provider' = [provider EXCEPT !.asked =
                    IF op = "write" THEN @ + 1 ELSE @]
  /\ left' = [left EXCEPT !.calls = @ - 1]
  /\ UNCHANGED <<row, callback, leaving, refresh, history>>

\* credentialsForUser: the address comes from this row; a token that may be
\* refreshed is asked for.
Credentials(w) ==
  /\ worker[w].pc = "credentials"
  /\ Set(w, IF ~Usable(row) THEN Idle
            ELSE [worker[w] EXCEPT !.seen = row,
                    !.pc = IF row.mode = "BEARER" THEN "token" ELSE "call",
                    !.token = row.access])
  /\ UNCHANGED <<row, callback, leaving, refresh, provider, history, left>>

\* accessToken reads the row a second time ...
AccessReads(w) ==
  /\ worker[w].pc = "token"
  /\ Set(w, IF Usable(row) /\ row.mode = "BEARER"
            THEN [worker[w] EXCEPT !.pc = "decide", !.again = row]
            ELSE Failed(w, "authFailed"))
  /\ UNCHANGED <<row, callback, leaving, refresh, provider, history, left>>

\* ... and takes its token, if it seems to be good for a while, ...
TakesToken(w) ==
  /\ worker[w].pc = "decide" /\ ~worker[w].force
  /\ worker[w].again.access # NoToken
  /\ Set(w, [worker[w] EXCEPT !.pc = "check",
               !.token = worker[w].again.access])
  /\ UNCHANGED <<row, callback, leaving, refresh, provider, history, left>>

\* (a token without an end, which comes without a refresh token, always is)
Expiring(r) == r.access = NoToken \/ r.refresh # NoToken

\* ... or has no way to refresh it, which the row is told, ...
CannotRefresh(w) ==
  /\ worker[w].pc = "decide"
  /\ worker[w].again.refresh = NoToken
  /\ worker[w].force \/ Expiring(worker[w].again)
  /\ row' = IF There THEN [row EXCEPT !.status = "ERROR"] ELSE row
  /\ Set(w, Failed(w, "authFailed"))
  /\ UNCHANGED <<callback, leaving, refresh, provider, history, left>>

\* ... or waits for a refresh that is under way, or begins one.
Refreshes(w) ==
  /\ worker[w].pc = "decide"
  /\ worker[w].again.refresh # NoToken
  /\ Set(w, [worker[w] EXCEPT !.pc = "waiting"])
  /\ refresh' = IF refresh.pc # "none" THEN refresh
                ELSE [NoRefresh EXCEPT !.pc = "ask",
                        !.seen = worker[w].again]
  /\ UNCHANGED <<row, callback, leaving, provider, history, left>>

Woken(pc, token) ==
  [w \in Workers |-> IF worker[w].pc = "waiting"
                     THEN [worker[w] EXCEPT !.pc = pc, !.token = token]
                     ELSE worker[w]]

\* The provider's answer; it may not arrive.
RefreshAsks ==
  /\ refresh.pc = "ask"
  /\ IF refresh.seen.refresh \in provider.good
     THEN /\ Spare
          /\ provider' = [provider EXCEPT !.given = Granted,
               !.good = (@ \ {refresh.seen.refresh}) \cup {Granted}]
          /\ refresh' = [refresh EXCEPT !.pc = "save", !.token = Granted]
     ELSE /\ refresh' = [refresh EXCEPT !.pc = "refused"]
          /\ UNCHANGED provider
  /\ UNCHANGED <<row, callback, leaving, worker, history, left>>

RefreshLost ==
  /\ refresh.pc = "save" /\ left.faults > 0
  /\ refresh' = [refresh EXCEPT !.pc = "refused"]
  /\ history' = [history EXCEPT !.lost = TRUE]
  /\ left' = [left EXCEPT !.faults = @ - 1]
  /\ UNCHANGED <<row, callback, leaving, worker, provider>>

\* The row is saved if it still is the one that was read, ...
Saves(r, seen) ==
  /\ r.id = seen.id /\ r.write = seen.write /\ r.refresh = seen.refresh
  /\ Usable(r)

RefreshSaves ==
  /\ refresh.pc = "save"
  /\ IF Saves(row, refresh.seen)
     THEN /\ row' = [row EXCEPT !.access = refresh.token,
                       !.refresh = refresh.token, !.status = "CONNECTED"]
          /\ worker' = Woken("check", refresh.token)
          /\ refresh' = NoRefresh
     ELSE /\ refresh' = [refresh EXCEPT !.pc = "refused"]
          /\ UNCHANGED <<row, worker>>
  /\ UNCHANGED <<callback, leaving, provider, history, left>>

\* ... and marked if the refresh failed and it still is.
RefreshFails ==
  /\ refresh.pc = "refused"
  /\ row' = IF /\ row.id = refresh.seen.id /\ row.write = refresh.seen.write
               /\ row.refresh = refresh.seen.refresh /\ There
            THEN [row EXCEPT !.status = "ERROR"] ELSE row
  /\ worker' = Woken("failed", NoToken)
  /\ refresh' = NoRefresh
  /\ UNCHANGED <<callback, leaving, provider, history, left>>

\* Mutant of SameConnection: the token is sent to the address that was read.
AnyConnection(seen) == TRUE

SameConnection(seen) == There /\ row.id = seen.id /\ row.write = seen.write

Checks(w) ==
  /\ worker[w].pc = "check"
  /\ Set(w, IF SameConnection(worker[w].seen)
            THEN [worker[w] EXCEPT !.pc = "call"]
            ELSE Failed(w, "authFailed"))
  /\ UNCHANGED <<row, callback, leaving, refresh, provider, history, left>>

-----------------------------------------------------------------------------
(* The call                                                                *)

Answered(w) ==
  /\ worker[w].pc = "call"
  /\ provider' = [provider EXCEPT !.writes =
                    IF worker[w].op = "write" THEN @ + 1 ELSE @]
  /\ Set(w, IF worker[w].op = "list" THEN [worker[w] EXCEPT !.pc = "listed"]
            ELSE Idle)
  /\ UNCHANGED <<row, callback, leaving, refresh, history, left>>

\* The token is refused before anything is done: once, it is refreshed.
Refused(w) ==
  /\ worker[w].pc = "call" /\ left.faults > 0
  /\ Set(w, IF worker[w].attempt = 1 /\ worker[w].seen.mode = "BEARER"
            THEN [worker[w] EXCEPT !.pc = "credentials", !.force = TRUE,
                                   !.attempt = 2]
            ELSE Failed(w, "authFailed"))
  /\ left' = [left EXCEPT !.faults = @ - 1]
  /\ UNCHANGED <<row, callback, leaving, refresh, provider, history>>

Repeatable(op) == op # "write"

\* No answer arrives, and what was asked for may have been done.
TimesOut(w) ==
  /\ worker[w].pc = "call" /\ left.faults > 0
  /\ \E done \in {0, 1} :
       provider' = [provider EXCEPT !.writes =
                      IF worker[w].op = "write" THEN @ + done ELSE @]
  /\ Set(w, IF worker[w].attempt = 1 /\ Repeatable(worker[w].op)
            THEN [worker[w] EXCEPT !.pc = "credentials", !.attempt = 2]
            ELSE Idle)
  /\ left' = [left EXCEPT !.faults = @ - 1]
  /\ UNCHANGED <<row, callback, leaving, refresh, history>>

\* After a list of tools the user's row is connected, whatever it was; after
\* an authentication failure it is in error.
Records(w) ==
  /\ worker[w].pc \in {"listed", "authFailed", "failed"}
  /\ row' = IF There /\ worker[w].pc # "failed"
            THEN [row EXCEPT !.status = IF worker[w].pc = "listed"
                                        THEN "CONNECTED" ELSE "ERROR"]
            ELSE row
  /\ Set(w, Idle)
  /\ UNCHANGED <<callback, leaving, refresh, provider, history, left>>

-----------------------------------------------------------------------------
Owner == \/ Begin \/ \E mode \in {"KEY", "BEARER"} : Connect(mode)
         \/ Disconnect \/ Delete
Back == \/ CallbackReads \/ CallbackExchanges \/ CallbackWrites
        \/ CallbackCancelled \/ CallbackFails
Renew == RefreshAsks \/ RefreshLost \/ RefreshSaves \/ RefreshFails
Work(w) == \/ \E op \in {"list", "read", "write"} : Call(w, op)
           \/ Credentials(w) \/ AccessReads(w) \/ TakesToken(w)
           \/ CannotRefresh(w) \/ Refreshes(w) \/ Checks(w) \/ Answered(w)
           \/ Refused(w) \/ TimesOut(w) \/ Records(w)

Next == Owner \/ Back \/ Renew \/ \E w \in Workers : Work(w)

Spec == Init /\ [][Next]_vars

-----------------------------------------------------------------------------
(* Properties                                                              *)

Tokens == 0..MaxTokens \cup {Key}

\* Every variable has its type, a row waits for the browser only while it
\* remembers what it is waiting for, and there is a refresh under way exactly
\* while somebody waits for it.
TypeOK ==
  /\ row.status \in {"DISCONNECTED", "AUTHORIZING", "CONNECTED", "ERROR"}
  /\ row.access \in Tokens /\ row.refresh \in Tokens
  /\ row.status = "AUTHORIZING" => row.state # 0
  /\ refresh.pc \in {"none", "ask", "save", "refused"}
  /\ refresh.pc # "none" <=> \E w \in Workers : worker[w].pc = "waiting"

Home(token) == IF token = Key THEN "other" ELSE "home"

\* A token is sent to no server but the one it was issued for, however the
\* row is changed between its readings, as long as no callback wrote over a
\* row that had changed (credentialsForUser).
TokenStaysHome ==
  \A w \in Workers :
    worker[w].pc = "call" /\ worker[w].token # NoToken /\ ~history.overtaken
      => Home(worker[w].token) = worker[w].seen.url

\* A refresh token is good once: the row has the good one, unless an answer
\* was lost or a refresh is about to save or mark the row.
LatestKept ==
  row.refresh # NoToken /\ ~history.lost /\ ~history.overtaken
    => \/ row.refresh \in provider.good
       \/ refresh.pc # "none" /\ refresh.seen.refresh = row.refresh

\* What was written in the ERP once is not written again, neither after an
\* answer that did not arrive nor after a refused token.
WrittenOnce == provider.writes <= provider.asked
=============================================================================
