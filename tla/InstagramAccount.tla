-------------------------- MODULE InstagramAccount --------------------------
(***************************************************************************)
(* The user's Instagram connection: the sign-in (instagram-oauth.service), *)
(* the row (instagram-integration.service.ts), and the token behind every  *)
(* call (instagram-graph.service.ts), which is renewed in its last week.   *)
(*                                                                         *)
(* Callbacks, calls, tests, renewals and a disconnect overlap, and all     *)
(* write the one row by its user.  Left out: the profile, the switches of  *)
(* the agent, the automations, and what the calls are for                  *)
(* (InstagramDelivery).                                                    *)
(***************************************************************************)
EXTENDS Integers, Sequences, FiniteSets

CONSTANTS
  Browsers,   \* requests that connect, at a time
  Callers,    \* calls of the API, at a time
  Accounts,   \* Instagram accounts
  States,     \* sign-ins begun (InstagramOAuthState)
  MaxTokens,  \* bound: tokens ever given
  Bounds      \* bounds by kind, in different behaviours

\* What the constants must be; the module that instantiates this one assumes it.
InstagramAccountAssumption ==
  /\ MaxTokens \in Nat
  /\ Bounds \subseteq [signIns : Nat, pastes : Nat, calls : Nat, ages : Nat,
                       faults : Nat, signOuts : Nat, withdrawals : Nat]

VARIABLES
  row,      \* the connection's row
  tokens,   \* Instagram's: the tokens given, in order
  states,   \* the sign-ins begun
  browser,  \* the requests that connect
  caller,   \* the calls
  refresh,  \* the renewal that is under way (tokenRefreshes)
  history,  \* what the properties speak of, see below
  left      \* how much may still happen

vars == <<row, tokens, states, browser, caller, refresh, history, left>>

None == 0
NoRow == [there |-> FALSE, account |-> None, token |-> None,
          login |-> FALSE, status |-> "DISCONNECTED"]
IdleBrowser == [pc |-> "idle", state |-> None, token |-> None,
                good |-> TRUE]
IdleCaller == [pc |-> "idle", test |-> FALSE, conn |-> NoRow, note |-> "none"]
NoRefresh == [pc |-> "none", conn |-> NoRow, token |-> None]

\* `raced`: the row was connected anew, or a token came to its last week or
\* its end, while a call or a renewal that had read the row was not done;
\* `wanted`: the user connected last, and did not disconnect; `grants`: how
\* often a sign-in was redeemed.
Init ==
  /\ left \in Bounds
  /\ row = NoRow /\ tokens = <<>> /\ refresh = NoRefresh
  /\ states = [s \in States |-> "open"]
  /\ browser = [b \in Browsers |-> IdleBrowser]
  /\ caller = [k \in Callers |-> IdleCaller]
  /\ history = [raced |-> FALSE, wanted |-> FALSE,
                grants |-> [s \in States |-> 0]]

Spend(kind) == left[kind] > 0 /\ left' = [left EXCEPT ![kind] = @ - 1]
SetB(b, new) == browser' = [browser EXCEPT ![b] = new]
SetC(k, new) == caller' = [caller EXCEPT ![k] = new]
Given(account, login) ==
  [account |-> account, login |-> login, life |-> "fresh", dead |-> FALSE]
Good(t) == ~tokens[t].dead /\ tokens[t].life # "expired"

-----------------------------------------------------------------------------
(* Connecting                                                              *)

\* callback: the state is signed and not old; it may come a second time.
Returns(b, s) ==
  /\ browser[b].pc = "idle" /\ Spend("signIns")
  /\ SetB(b, [IdleBrowser EXCEPT !.pc = "consume", !.state = s])
  /\ UNCHANGED <<row, tokens, states, caller, refresh, history>>

\* Mutant of Unused: a state may be used again while it is not old.
NotOld(s) == TRUE

Unused(s) == states[s] = "open"

\* consumeState: a compare-and-set, across server instances.
Consume(b) ==
  /\ browser[b].pc = "consume"
  /\ LET s == browser[b].state IN
     IF Unused(s) THEN /\ states' = [states EXCEPT ![s] = "used"]
                       /\ SetB(b, [browser[b] EXCEPT !.pc = "exchange"])
     ELSE SetB(b, IdleBrowser) /\ UNCHANGED states
  /\ UNCHANGED <<row, tokens, caller, refresh, history, left>>

\* The code for a short token, and that for a long one.
Exchange(b, account) ==
  /\ browser[b].pc = "exchange" /\ Len(tokens) < MaxTokens
  /\ tokens' = Append(tokens, Given(account, TRUE))
  /\ history' = [history EXCEPT !.grants[browser[b].state] = @ + 1]
  /\ SetB(b, [browser[b] EXCEPT !.pc = "subscribe",
                                !.token = Len(tokens) + 1])
  /\ UNCHANGED <<row, states, caller, refresh, left>>

\* connect with a token from elsewhere (FACEBOOK_LOGIN).
Paste(b, account) ==
  /\ browser[b].pc = "idle" /\ Len(tokens) < MaxTokens /\ Spend("pastes")
  /\ tokens' = Append(tokens, Given(account, FALSE))
  /\ SetB(b, [IdleBrowser EXCEPT !.pc = "subscribe",
                                 !.token = Len(tokens) + 1])
  /\ UNCHANGED <<row, states, caller, refresh, history>>

\* verifyProfile or an exchange fails: the request does.
ConnectFails(b) ==
  /\ browser[b].pc \in {"exchange", "subscribe"} /\ Spend("faults")
  /\ SetB(b, IdleBrowser)
  /\ UNCHANGED <<row, tokens, states, caller, refresh, history>>

\* subscribeWebhooks: if none of three field lists is taken, degraded.
Subscribe(b) ==
  /\ browser[b].pc = "subscribe"
  /\ \E good \in BOOLEAN : SetB(b, [browser[b] EXCEPT !.pc = "save",
                                                      !.good = good])
  /\ UNCHANGED <<row, tokens, states, caller, refresh, history, left>>

Busy == refresh.pc # "none" \/ \E k \in Callers : caller[k].pc # "idle"

\* The profile verified with the token, also when the row is there.
AccountSaved(b) == tokens[browser[b].token].account

Save(b) ==
  /\ browser[b].pc = "save"
  /\ row' = [there |-> TRUE, account |-> AccountSaved(b),
             token |-> browser[b].token,
             login |-> tokens[browser[b].token].login,
             status |-> IF browser[b].good THEN "CONNECTED" ELSE "DEGRADED"]
  /\ history' = [history EXCEPT !.raced = @ \/ Busy, !.wanted = TRUE]
  /\ SetB(b, IdleBrowser)
  /\ UNCHANGED <<tokens, states, caller, refresh, left>>

Disconnect ==
  /\ row.there /\ Spend("signOuts")
  /\ row' = NoRow
  /\ history' = [history EXCEPT !.wanted = FALSE]
  /\ UNCHANGED <<tokens, states, browser, caller, refresh>>

-----------------------------------------------------------------------------
(* Calls: connectionForUser, testConnection, sendText and the like         *)

Ask(k, test) ==
  /\ caller[k].pc = "idle" /\ Spend("calls")
  /\ SetC(k, [IdleCaller EXCEPT !.pc = "read", !.test = test])
  /\ UNCHANGED <<row, tokens, states, browser, refresh, history>>

Usable(test) ==
  row.there /\ (test \/ row.status \in {"CONNECTED", "DEGRADED"})
Life == IF row.login THEN tokens[row.token].life ELSE "fresh"
Holding(k, pc) == [caller[k] EXCEPT !.pc = pc, !.conn = row]

ReadRow(k) ==
  /\ caller[k].pc = "read" /\ ~(Usable(caller[k].test) /\ Life = "due")
  /\ SetC(k, CASE ~Usable(caller[k].test) -> IdleCaller
               [] Usable(caller[k].test) /\ Life = "expired" ->
                    [Holding(k, "note") EXCEPT !.note = "ERROR"]
               [] Usable(caller[k].test) /\ Life = "fresh" ->
                    Holding(k, "call"))
  /\ UNCHANGED <<row, tokens, states, browser, refresh, history, left>>

\* refreshConnectionToken: who comes later waits for the same renewal.
Joins == IF refresh.pc = "none" THEN [pc |-> "ask", conn |-> row,
                                      token |-> None]
         ELSE refresh

ReadDue(k) ==
  /\ caller[k].pc = "read" /\ Usable(caller[k].test) /\ Life = "due"
  /\ SetC(k, Holding(k, "waiting"))
  /\ refresh' = Joins
  /\ UNCHANGED <<row, tokens, states, browser, history, left>>

\* Who waited goes on with what the renewal came to.
Woken(new) == [k \in Callers |-> IF caller[k].pc = "waiting"
                                 THEN new[k] ELSE caller[k]]
WithToken(t) ==
  [k \in Callers |-> [caller[k] EXCEPT !.pc = "call", !.conn = refresh.conn,
                                       !.conn.token = t]]
WithOwn == [k \in Callers |-> [caller[k] EXCEPT !.pc = "call"]]
WithError ==
  [k \in Callers |-> [caller[k] EXCEPT !.pc = "note", !.note = "ERROR",
                                       !.test = FALSE]]

RefreshAsks ==
  /\ refresh.pc = "ask"
  /\ IF Good(refresh.conn.token)
     THEN /\ Len(tokens) < MaxTokens
          /\ tokens' = Append(tokens, Given(refresh.conn.account, TRUE))
          /\ refresh' = [refresh EXCEPT !.pc = "save",
                                        !.token = Len(tokens) + 1]
     ELSE /\ refresh' = [refresh EXCEPT !.pc = "invalid"]
          /\ UNCHANGED tokens
  /\ UNCHANGED <<row, states, browser, caller, history, left>>

\* The token there is may do: the call will tell.
RefreshUnavailable ==
  /\ refresh.pc = "ask" /\ Spend("faults")
  /\ caller' = Woken(WithOwn) /\ refresh' = NoRefresh
  /\ UNCHANGED <<row, tokens, states, browser, history>>

\* Only the token is written, into the row as it is by now.
Renewed == IF row.there THEN [row EXCEPT !.token = refresh.token] ELSE row

\* Without the row the write fails, and the call goes on with what it read.
RefreshSaves ==
  /\ refresh.pc = "save"
  /\ row' = Renewed
  /\ caller' = Woken(IF row.there THEN WithToken(refresh.token) ELSE WithOwn)
  /\ refresh' = NoRefresh
  /\ UNCHANGED <<tokens, states, browser, history, left>>

RefreshInvalid ==
  /\ refresh.pc = "invalid"
  /\ caller' = Woken(WithError) /\ refresh' = NoRefresh
  /\ UNCHANGED <<row, tokens, states, browser, history, left>>

\* A call of the agent notes nothing when it fails.
CallApi(k) ==
  /\ caller[k].pc = "call" /\ ~caller[k].test
  /\ SetC(k, IdleCaller)
  /\ UNCHANGED <<row, tokens, states, browser, refresh, history, left>>

\* isAuthFailure: anything else passes.
Refused(auth) == IF auth THEN "ERROR" ELSE "DEGRADED"

TestSays(k, status) == SetC(k, [caller[k] EXCEPT !.pc = "note",
                                                 !.note = status])

TestApi(k) ==
  /\ caller[k].pc = "call" /\ caller[k].test
  /\ IF Good(caller[k].conn.token)
     THEN \E status \in {"CONNECTED", "DEGRADED"} : TestSays(k, status)
     ELSE TestSays(k, Refused(TRUE))
  /\ UNCHANGED <<row, tokens, states, browser, refresh, history, left>>

TestUnavailable(k) ==
  /\ caller[k].pc = "call" /\ caller[k].test /\ Spend("faults")
  /\ TestSays(k, Refused(FALSE))
  /\ UNCHANGED <<row, tokens, states, browser, refresh, history>>

\* The status is written by the user, whatever the row is by now.
Note(k) ==
  /\ caller[k].pc = "note"
  /\ row' = IF row.there THEN [row EXCEPT !.status = caller[k].note] ELSE row
  /\ SetC(k, IdleCaller)
  /\ UNCHANGED <<tokens, states, browser, refresh, history, left>>

-----------------------------------------------------------------------------
(* Time, and Instagram                                                     *)

Older == [fresh |-> "due", due |-> "expired", expired |-> "expired"]

TimePasses ==
  /\ tokens # <<>> /\ Spend("ages")
  /\ tokens' = [t \in DOMAIN tokens |->
                  IF tokens[t].login THEN [tokens[t] EXCEPT !.life = Older[@]]
                  ELSE tokens[t]]
  /\ history' = [history EXCEPT !.raced = @ \/ Busy]
  /\ UNCHANGED <<row, states, browser, caller, refresh>>

\* The owner of the account withdraws what he allowed.
Withdrawn(account) ==
  /\ Spend("withdrawals")
  /\ tokens' = [t \in DOMAIN tokens |->
                  [tokens[t] EXCEPT !.dead = @ \/ tokens[t].account = account]]
  /\ UNCHANGED <<row, states, browser, caller, refresh, history>>

Connecting(b) ==
  \/ \E s \in States : Returns(b, s)
  \/ Consume(b) \/ ConnectFails(b) \/ Subscribe(b) \/ Save(b)
  \/ \E account \in Accounts : Exchange(b, account) \/ Paste(b, account)

Using(k) ==
  \/ \E test \in BOOLEAN : Ask(k, test)
  \/ ReadRow(k) \/ ReadDue(k) \/ CallApi(k) \/ TestApi(k)
  \/ TestUnavailable(k) \/ Note(k)

Next ==
  \/ \E b \in Browsers : Connecting(b)
  \/ \E k \in Callers : Using(k)
  \/ RefreshAsks \/ RefreshUnavailable \/ RefreshSaves \/ RefreshInvalid
  \/ Disconnect \/ TimePasses \/ \E account \in Accounts : Withdrawn(account)

Spec == Init /\ [][Next]_vars

-----------------------------------------------------------------------------
(* Properties                                                              *)

\* Every variable has its type, and one renewal is under way exactly while a
\* call waits for it.
TypeOK ==
  /\ row.status \in {"DISCONNECTED", "CONNECTED", "DEGRADED", "ERROR"}
  /\ row.token \in 0..Len(tokens) /\ Len(tokens) <= MaxTokens
  /\ \A s \in States : states[s] \in {"open", "used"}
  /\ refresh.pc # "none" <=> \E k \in Callers : caller[k].pc = "waiting"

\* A sign-in is redeemed once, however often its callback comes.
RedeemedOnce == \A s \in States : history.grants[s] <= 1

\* The token of the row is one of the row's account, unless the user
\* connected anew while the old connection was being renewed.
TokenOfAccount ==
  row.there /\ ~history.raced => tokens[row.token].account = row.account

\* Only a token that is no longer good puts the connection in error; what
\* passes degrades it, and the agent goes on.
ErrorMeansDead ==
  row.there /\ row.status = "ERROR" /\ ~history.raced => ~Good(row.token)

\* After a disconnect nothing that was under way brings the row back.
DisconnectHolds == row.there => history.wanted
=============================================================================
