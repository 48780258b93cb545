---------------------------- MODULE CalendarSync ----------------------------
(***************************************************************************)
(* Meetings and their events in the user's Google calendar                 *)
(* (meetings.service.ts, google-calendar.service.ts,                       *)
(* google-api-client.service.ts), and the connection the calls to the      *)
(* calendar need (google-auth.service.ts).                                 *)
(*                                                                         *)
(* A request reads and writes the meeting in statements of its own, and    *)
(* syncs it with remote calls in between.  Every request but a new meeting *)
(* begins by getForUser, and that syncs as if the meeting were new; an     *)
(* update is not passed on.  Left out: contacts, times, activity, the      *)
(* notifications (NotificationQueue), listing, and the profile.            *)
(***************************************************************************)
EXTENDS Integers, FiniteSets

CONSTANTS
  Workers,    \* requests served at a time
  MaxEvents,  \* bound: events ever made
  Bounds      \* bounds by kind, in different behaviours

\* What the constants must be; the module that instantiates this one assumes it.
CalendarSyncAssumption ==
  /\ MaxEvents \in Nat
  /\ Bounds \subseteq [signIns : Nat, signOuts : Nat, creates : Nat, gets : Nat,
                       stale : Nat, faults : Nat]

VARIABLES
  conn,      \* the connection's row
  google,    \* the grants that are good, and the events of the meeting
  meeting,   \* the meeting's row
  refresh,   \* the refresh of the access token that is under way
  signIn,    \* the browser coming back, and the disconnect under way
  worker,    \* the requests
  history,   \* what excuses a disagreement, see below
  left       \* how much may still happen

vars == <<conn, google, meeting, refresh, signIn, worker, history, left>>

None == 0
NoConn == [there |-> FALSE, status |-> "DISCONNECTED", token |-> FALSE,
           grant |-> None, scopes |-> FALSE]
NoMeeting == [there |-> FALSE, event |-> None, error |-> FALSE]
Idle == [pc |-> "idle", op |-> "get", event |-> None, attempt |-> 1]
NoRefresh == [pc |-> "none", grant |-> None]

\* `raced`: the connection was changed while a refresh was under way, or by
\* a disconnect and a callback at once, or cleared without Google; `lost`:
\* the answer to a new event did not arrive; `offline`: the meeting was
\* synced without a calendar.
Init ==
  /\ left \in Bounds
  /\ conn = NoConn
  /\ google = [grants |-> {}, given |-> 0, events |-> {}, made |-> 0]
  /\ meeting = NoMeeting /\ refresh = NoRefresh
  /\ signIn = [pc |-> "none", grant |-> None, kept |-> None, out |-> "none"]
  /\ worker = [w \in Workers |-> Idle]
  /\ history = [raced |-> FALSE, lost |-> FALSE, offline |-> FALSE]

Set(w, new) == worker' = [worker EXCEPT ![w] = new]
Spend(kind) == left[kind] > 0 /\ left' = [left EXCEPT ![kind] = @ - 1]
Racing == refresh.pc # "none" \/ signIn.pc # "none" \/ signIn.out # "none"

-----------------------------------------------------------------------------
(* The connection                                                          *)

\* The code is exchanged; Google gives a refresh token, or none when one
\* of the old ones is good.
Exchange ==
  /\ signIn.pc = "none" /\ Spend("signIns")
  /\ \E again \in IF google.grants = {} THEN {FALSE} ELSE BOOLEAN :
       LET grant == IF again THEN None ELSE google.given + 1 IN
       /\ google' = IF again THEN google
                    ELSE [google EXCEPT !.given = grant,
                            !.grants = @ \cup {grant}]
       /\ signIn' = [signIn EXCEPT !.pc = "exchanged", !.grant = grant]
  /\ UNCHANGED <<conn, meeting, refresh, worker, history>>

\* Mutant of KeptGrant: a sign-in without a refresh token forgets the old one.
Forgotten == None

KeptGrant == conn.grant

ReadExisting ==
  /\ signIn.pc = "exchanged"
  /\ signIn' = [signIn EXCEPT !.pc = "save", !.kept = KeptGrant]
  /\ UNCHANGED <<conn, google, meeting, refresh, worker, history, left>>

Connect ==
  /\ signIn.pc = "save"
  /\ conn' = [there |-> TRUE, status |-> "CONNECTED", token |-> TRUE,
              grant |-> IF signIn.grant # None THEN signIn.grant
                        ELSE signIn.kept, scopes |-> TRUE]
  /\ history' = [history EXCEPT !.raced = @ \/ refresh.pc # "none"
                                             \/ signIn.out # "none"]
  /\ signIn' = [signIn EXCEPT !.pc = "none", !.grant = None, !.kept = None]
  /\ UNCHANGED <<google, meeting, refresh, worker, left>>

\* disconnect: if Google is there the access token is revoked, and with it what
\* the user has allowed; the row is cleared then.
Revoke ==
  /\ conn.there /\ conn.token /\ signIn.out = "none" /\ Spend("signOuts")
  /\ \E there \in BOOLEAN :
       /\ google' = IF there THEN [google EXCEPT !.grants = {}]
                    ELSE google
       /\ history' = [history EXCEPT !.raced = @ \/ Racing \/ ~there]
  /\ signIn' = [signIn EXCEPT !.out = "clear"]
  /\ UNCHANGED <<conn, meeting, refresh, worker>>

Clear ==
  /\ signIn.out = "clear"
  /\ conn' = [NoConn EXCEPT !.there = TRUE]
  /\ signIn' = [signIn EXCEPT !.out = "none"]
  /\ history' = [history EXCEPT !.raced = @ \/ refresh.pc # "none"
                                             \/ signIn.pc # "none"]
  /\ UNCHANGED <<google, meeting, refresh, worker, left>>

\* markError: a passing failure leaves the status as it is.
Marked(transient) ==
  IF conn.there /\ ~transient THEN [conn EXCEPT !.status = "ERROR"] ELSE conn

-----------------------------------------------------------------------------
(* The token of a call: getAccessToken                                     *)

Fails(w) == [worker[w] EXCEPT !.pc = "failed"]

\* The row has a token that is good for a while.
TokenFresh(w) ==
  /\ worker[w].pc = "token"
  /\ Set(w, IF conn.there /\ conn.status = "CONNECTED" /\ conn.token
            THEN [worker[w] EXCEPT !.pc = "call"] ELSE Fails(w))
  /\ UNCHANGED <<conn, google, meeting, refresh, signIn, history, left>>

\* It has run out: one refresh at a time, for all who wait.
TokenStale(w) ==
  /\ worker[w].pc = "token" /\ Spend("stale")
  /\ conn.there /\ conn.status = "CONNECTED" /\ conn.token
  /\ Set(w, [worker[w] EXCEPT !.pc = "waiting"])
  /\ refresh' = IF refresh.pc # "none" THEN refresh
                ELSE [pc |-> "ask", grant |-> conn.grant]
  /\ UNCHANGED <<conn, google, meeting, signIn, history>>

Woken(pc) == [w \in Workers |-> IF worker[w].pc = "waiting"
                                THEN [worker[w] EXCEPT !.pc = pc]
                                ELSE worker[w]]

RefreshAsks ==
  /\ refresh.pc = "ask"
  /\ refresh' = [refresh EXCEPT !.pc = IF refresh.grant \in google.grants
                                       THEN "save" ELSE "invalid"]
  /\ UNCHANGED <<conn, google, meeting, signIn, worker, history, left>>

\* Three attempts without an answer.
RefreshUnavailable ==
  /\ refresh.pc = "ask" /\ Spend("faults")
  /\ conn' = Marked(TRUE)
  /\ refresh' = NoRefresh /\ worker' = Woken("failed")
  /\ UNCHANGED <<google, meeting, signIn, history>>

\* Whatever the row is by now, it is connected.
RefreshSaves ==
  /\ refresh.pc = "save"
  /\ conn' = IF conn.there
             THEN [conn EXCEPT !.token = TRUE, !.status = "CONNECTED"]
             ELSE conn
  /\ refresh' = NoRefresh /\ worker' = Woken("call")
  /\ UNCHANGED <<google, meeting, signIn, history, left>>

RefreshInvalid ==
  /\ refresh.pc = "invalid"
  /\ conn' = Marked(FALSE)
  /\ refresh' = NoRefresh /\ worker' = Woken("failed")
  /\ UNCHANGED <<google, meeting, signIn, history, left>>

-----------------------------------------------------------------------------
(* Meetings                                                                *)

Create(w) ==
  /\ worker[w].pc = "idle" /\ ~meeting.there /\ Spend("creates")
  /\ google.made = 0
  /\ meeting' = [NoMeeting EXCEPT !.there = TRUE]
  /\ Set(w, [Idle EXCEPT !.pc = "sync", !.op = "create"])
  /\ UNCHANGED <<conn, google, refresh, signIn, history>>

\* getForUser, by itself or for an update, a cancellation or a deletion.
Get(w, op) ==
  /\ worker[w].pc = "idle" /\ meeting.there /\ Spend("gets")
  /\ Set(w, [Idle EXCEPT !.pc = "sync", !.op = op, !.event = meeting.event])
  /\ UNCHANGED <<conn, google, meeting, refresh, signIn, history>>

Enabled == conn.there /\ conn.status = "CONNECTED" /\ conn.scopes

\* syncCreatedMeeting, as far as calendarEnabled.
Sync(w) ==
  /\ worker[w].pc = "sync"
  /\ Set(w, [worker[w] EXCEPT !.pc = IF Enabled THEN "token" ELSE "synced"])
  /\ history' = [history EXCEPT !.offline = @ \/ ~Enabled]
  /\ UNCHANGED <<conn, google, meeting, refresh, signIn, left>>

New == google.made + 1

\* The event is made, also if the meeting has one; ...
CallAnswered(w) ==
  /\ worker[w].pc = "call" /\ google.made < MaxEvents
  /\ google' = [google EXCEPT !.made = New, !.events = @ \cup {New}]
  /\ Set(w, [worker[w] EXCEPT !.pc = "save", !.event = New])
  /\ UNCHANGED <<conn, meeting, refresh, signIn, history, left>>

\* ... also if its answer is lost, and then it is made again.
CallLost(w) ==
  /\ worker[w].pc = "call" /\ google.made < MaxEvents /\ Spend("faults")
  /\ google' = [google EXCEPT !.made = New, !.events = @ \cup {New}]
  /\ Set(w, IF worker[w].attempt < 3 THEN [worker[w] EXCEPT !.attempt = @ + 1]
            ELSE Fails(w))
  /\ history' = [history EXCEPT !.lost = TRUE]
  /\ UNCHANGED <<conn, meeting, refresh, signIn>>

CallRefused(w) ==
  /\ worker[w].pc = "call" /\ Spend("faults")
  /\ Set(w, Fails(w))
  /\ UNCHANGED <<conn, google, meeting, refresh, signIn, history>>

SaveEvent(w) ==
  /\ worker[w].pc = "save"
  /\ IF meeting.there
     THEN /\ meeting' = [meeting EXCEPT !.event = worker[w].event,
                                        !.error = FALSE]
          /\ Set(w, [worker[w] EXCEPT !.pc = "synced"])
     ELSE Set(w, Fails(w)) /\ UNCHANGED meeting
  /\ UNCHANGED <<conn, google, refresh, signIn, history, left>>

FailureNoted == [meeting EXCEPT !.error = TRUE]

\* markSyncFailure; without the row the request fails.
MarkFailure(w) ==
  /\ worker[w].pc = "failed"
  /\ IF meeting.there
     THEN /\ meeting' = FailureNoted
          /\ Set(w, [worker[w] EXCEPT !.pc = "synced", !.event = meeting.event])
     ELSE Set(w, Idle) /\ UNCHANGED meeting
  /\ UNCHANGED <<conn, google, refresh, signIn, history, left>>

\* What was asked for; an update or a cancellation is not passed on.
Finish(w) ==
  /\ worker[w].pc = "synced" /\ worker[w].op # "delete"
  /\ Set(w, Idle)
  /\ UNCHANGED <<conn, google, meeting, refresh, signIn, history, left>>

DeleteRow(w) ==
  /\ worker[w].pc = "synced" /\ worker[w].op = "delete"
  /\ Set(w, IF meeting.there THEN [worker[w] EXCEPT !.pc = "remove"] ELSE Idle)
  /\ meeting' = NoMeeting
  /\ UNCHANGED <<conn, google, refresh, signIn, history, left>>

\* deleteGoogleEvent, of the event getForUser has just made or found.
DeleteEvent(w) ==
  /\ worker[w].pc = "remove"
  /\ google' = [google EXCEPT !.events = @ \ {worker[w].event}]
  /\ Set(w, Idle)
  /\ UNCHANGED <<conn, meeting, refresh, signIn, history, left>>

DeleteEventFails(w) ==
  /\ worker[w].pc = "remove" /\ Spend("faults")
  /\ Set(w, Idle)
  /\ UNCHANGED <<conn, google, meeting, refresh, signIn, history>>

-----------------------------------------------------------------------------
Account == Exchange \/ ReadExisting \/ Connect \/ Revoke \/ Clear
Renew == RefreshAsks \/ RefreshUnavailable \/ RefreshSaves \/ RefreshInvalid
Work(w) == \/ Create(w) \/ \E op \in {"get", "update", "delete"} : Get(w, op)
           \/ Sync(w) \/ TokenFresh(w) \/ TokenStale(w) \/ CallAnswered(w)
           \/ CallLost(w) \/ CallRefused(w) \/ SaveEvent(w) \/ MarkFailure(w)
           \/ Finish(w) \/ DeleteRow(w) \/ DeleteEvent(w)
           \/ DeleteEventFails(w)

Next == Account \/ Renew \/ \E w \in Workers : Work(w)

Spec == Init /\ [][Next]_vars

-----------------------------------------------------------------------------
(* Properties                                                              *)

\* Every variable has its type, and one refresh is under way exactly while
\* somebody waits for it.
TypeOK ==
  /\ conn.status \in {"DISCONNECTED", "CONNECTED", "ERROR"}
  /\ google.events \subseteq 1..google.made
  /\ meeting.event \in 0..MaxEvents
  /\ refresh.pc # "none" <=> \E w \in Workers : worker[w].pc = "waiting"

Resting == \A w \in Workers : worker[w].pc = "idle"

\* Once nobody works on it, a meeting that was made with a calendar at hand
\* has its event or says that the sync failed (googleSyncError).
SyncedOrSaid ==
  Resting /\ meeting.there /\ ~history.offline
    => meeting.event # None \/ meeting.error

\* Who signs in again without being given a refresh token keeps the one there
\* is (callback), unless something else changed the connection meanwhile.
GrantKept ==
  conn.status = "CONNECTED" /\ ~history.raced => conn.grant # None

\* A meeting has one event in the calendar: the one it was created with.
OneEvent == ~history.lost => Cardinality(google.events) <= 1
=============================================================================
