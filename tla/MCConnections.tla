--------------------------- MODULE MCConnections ---------------------------
(***************************************************************************)
(* The sessions of an account and its connections to Bito, Google and      *)
(* Instagram.  They share no state, so one of them moves in a behaviour    *)
(* and the others rest in an initial state: `part` says which.             *)
(***************************************************************************)
EXTENDS Sessions

CONSTANTS
  Browsers, Callers, Accounts, States,
  MaxTokens, MaxEvents,
  BitoBounds, CalendarBounds, InstagramBounds

VARIABLES
  part,
  bitoRow, callback, leaving, bitoWorker, bitoRefresh, provider, bitoHistory,
  bitoLeft,
  conn, google, meeting, calendarRefresh, signIn, calendarWorker,
  calendarHistory, calendarLeft,
  instagramRow, instagramTokens, states, browser, caller, instagramRefresh,
  instagramHistory, instagramLeft

-----------------------------------------------------------------------------
\* Sessions without links, links with one session, a little of both.
MCRooms == {[tokens |-> 3, links |-> 0, revocations |-> 1],
            [tokens |-> 1, links |-> 2, revocations |-> 1],
            [tokens |-> 2, links |-> 1, revocations |-> 2]}

\* Two calls over one row that is replaced or deleted, and one with a fault.
MCBitoBounds ==
  {[begins |-> 1, connects |-> 1, disconnects |-> 0, calls |-> 2,
    faults |-> 0],
   [begins |-> 2, connects |-> 0, disconnects |-> 1, calls |-> 1,
    faults |-> 1],
   [begins |-> 1, connects |-> 0, disconnects |-> 1, calls |-> 2,
    faults |-> 1]}

Bito == INSTANCE BitoAccount WITH
          Bounds <- BitoBounds,
          row <- bitoRow, worker <- bitoWorker, refresh <- bitoRefresh,
          history <- bitoHistory, left <- bitoLeft
ASSUME BitoAssumption == Bito!BitoAccountAssumption

\* One meeting, two requests at a time, and a user who signs in and out.
MCCalendarBounds ==
  {[signIns |-> 2, signOuts |-> 1, creates |-> 1, gets |-> 1, stale |-> 1,
    faults |-> 0],
   [signIns |-> 1, signOuts |-> 1, creates |-> 1, gets |-> 1, stale |-> 1,
    faults |-> 1],
   [signIns |-> 1, signOuts |-> 0, creates |-> 1, gets |-> 2, stale |-> 1,
    faults |-> 1]}

Google == INSTANCE CalendarSync WITH
            Bounds <- CalendarBounds,
            refresh <- calendarRefresh, worker <- calendarWorker,
            history <- calendarHistory, left <- calendarLeft
ASSUME CalendarAssumption == Google!CalendarSyncAssumption

\* Two callbacks and two calls; and one of each, with a pasted token.
MCInstagramBounds ==
  {[signIns |-> 2, pastes |-> 0, calls |-> 2, ages |-> 2, faults |-> 1,
    signOuts |-> 1, withdrawals |-> 0],
   [signIns |-> 1, pastes |-> 1, calls |-> 1, ages |-> 1, faults |-> 0,
    signOuts |-> 0, withdrawals |-> 1]}

Instagram == INSTANCE InstagramAccount WITH
               Bounds <- InstagramBounds,
               row <- instagramRow, tokens <- instagramTokens,
               refresh <- instagramRefresh, history <- instagramHistory,
               left <- instagramLeft
ASSUME InstagramAssumption == Instagram!InstagramAccountAssumption

bito == <<bitoRow, callback, leaving, bitoWorker, bitoRefresh, provider,
          bitoHistory, bitoLeft>>
calendar == <<conn, google, meeting, calendarRefresh, signIn, calendarWorker,
              calendarHistory, calendarLeft>>
instagram == <<instagramRow, instagramTokens, states, browser, caller,
               instagramRefresh, instagramHistory, instagramLeft>>
parts == <<part, vars, bito, calendar, instagram>>

MCInit ==
  /\ part \in {"sessions", "bito", "google", "instagram"}
  /\ Init /\ (part # "sessions" => room = CHOOSE r \in Rooms : TRUE)
  /\ Bito!Init
  /\ part # "bito" => bitoLeft = CHOOSE b \in BitoBounds : TRUE
  /\ Google!Init
  /\ part # "google" => calendarLeft = CHOOSE b \in CalendarBounds : TRUE
  /\ Instagram!Init
  /\ part # "instagram" => instagramLeft = CHOOSE b \in InstagramBounds : TRUE

OfSessions(act) ==
  part = "sessions" /\ act /\ UNCHANGED <<part, bito, calendar, instagram>>

MCNext ==
  \/ OfSessions(Next)
  \/ /\ part = "bito" /\ Bito!Next
     /\ UNCHANGED <<part, vars, calendar, instagram>>
  \/ /\ part = "google" /\ Google!Next
     /\ UNCHANGED <<part, vars, bito, instagram>>
  \/ /\ part = "instagram" /\ Instagram!Next
     /\ UNCHANGED <<part, vars, bito, calendar>>

\* Of these, only the sessions are asked what comes in the end.
MCSpec ==
  /\ MCInit /\ [][MCNext]_parts
  /\ \A w \in Workers : SF_parts(OfSessions(Serve(w)))
-----------------------------------------------------------------------------
(* Bito's tokens are sent nowhere but to the server that gave them, the    *)
(* newest is the one kept, and no write is sent twice                      *)
(* (bito-oauth.service.ts, bito-tool-bridge.service.ts).                   *)
BitoKept ==
  part = "bito" =>
    Bito!TypeOK /\ Bito!TokenStaysHome /\ Bito!LatestKept /\ Bito!WrittenOnce

(* A meeting that is not in Google's calendar says so, and the grant that  *)
(* lets it get there is not lost (meetings.service.ts,                     *)
(* google-calendar.service.ts).                                            *)
CalendarKept ==
  part = "google" => Google!TypeOK /\ Google!SyncedOrSaid /\ Google!GrantKept

(* A sign-in to Instagram is redeemed once, for the account whose token it *)
(* brought; an error means a dead token, and a disconnected account stays  *)
(* so (instagram-integration.service.ts).                                  *)
InstagramKept ==
  part = "instagram" =>
    /\ Instagram!TypeOK
    /\ Instagram!RedeemedOnce /\ Instagram!TokenOfAccount
    /\ Instagram!ErrorMeansDead /\ Instagram!DisconnectHolds

(* "persists locally first, creates a Google event and stores its id"      *)
(* (test/meetings.service.spec.ts:56): one event for one meeting.          *)
OneMeetingEvent == part = "google" => Google!OneEvent
=============================================================================
