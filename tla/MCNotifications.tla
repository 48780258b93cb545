-------------------------- MODULE MCNotifications --------------------------
(***************************************************************************)
(* Small instances for TLC of what reaches the owner unasked: the queue of *)
(* notifications, one row that two instances compete for, and the rounds   *)
(* that brief him and make him suggestions.  The rounds' notifications are *)
(* queued and not followed further, so they share no state: in a behaviour *)
(* one of the two moves, `part`, and the other rests in an initial state.  *)
(***************************************************************************)
EXTENDS NotificationQueue

CONSTANTS
  Calendars, BusyDay, MaxDay, MaxMinute, Cases

VARIABLES part,
          pref, day, minute, inst, suggestion, told, log, queued, unlogged,
          left

-----------------------------------------------------------------------------
Wish(proactive, from, to) ==
  [proactive |-> proactive, quiet |-> <<from, to>>, notify |-> TRUE,
   due |-> [MORNING |-> 0, EVENING |-> 1]]
Meet(from, to) == [start |-> from, end |-> to]
MCCalendars ==
  {<<>>, <<Meet(1, 2), Meet(2, 3)>>, <<Meet(1, 2), Meet(3, 5), Meet(4, 6)>>,
   <<Meet(1, 5), Meet(2, 3), Meet(4, 5)>>}

\* One instance over two days, with answers or with faults; and two at a time
\* that fail or restart.
MCCases == {
  [pref |-> Wish(TRUE, 2, 1),
   left |-> [up |-> {"i1"}, minutes |-> 5, answers |-> 1, faults |-> 0,
             restarts |-> 0]],
  [pref |-> Wish(FALSE, 0, 0),
   left |-> [up |-> {"i1"}, minutes |-> 4, answers |-> 0, faults |-> 2,
             restarts |-> 1]],
  [pref |-> Wish(TRUE, 1, 2),
   left |-> [up |-> {"i1", "i2"}, minutes |-> 1, answers |-> 0, faults |-> 1,
             restarts |-> 0]],
  [pref |-> Wish(TRUE, 0, 0),
   left |-> [up |-> {"i1", "i2"}, minutes |-> 0, answers |-> 1, faults |-> 0,
             restarts |-> 1]]}

Rounds == INSTANCE DailyRounds WITH excused <- unlogged
ASSUME RoundsAssumption == Rounds!DailyRoundsAssumption

rounds == <<pref, day, minute, inst, suggestion, told, log, queued, unlogged,
            left>>
parts == <<part, vars, rounds>>

MCInit ==
  /\ part \in {"queue", "rounds"}
  /\ Init
  /\ Rounds!Init
  /\ part # "rounds" =>
       [pref |-> pref, left |-> left] = CHOOSE c \in Cases : TRUE

OfQueue(act) == part = "queue" /\ act /\ UNCHANGED <<part, rounds>>
OfRounds(act) == part = "rounds" /\ act /\ UNCHANGED <<part, vars>>

MCNext == OfQueue(Next) \/ OfRounds(Rounds!Next)

\* The fairness of each, as its module states it.
MCFairness ==
  /\ \A i \in Instances : WF_parts(OfQueue(Scan(i)))
  /\ \A l \in Lanes : WF_parts(OfQueue(LaneStep(l)))
  /\ \A n \in Notes :
       /\ WF_parts(OfQueue(ComesDue(n)))
       /\ WF_parts(OfQueue(LeaseExpires(n)))
       /\ WF_parts(OfQueue(BackoffOver(n)))
  /\ \A i \in Instances :
       /\ WF_parts(OfRounds(Rounds!Tick(i)))
       /\ WF_parts(OfRounds(Rounds!Works(i)))

MCSpec == MCInit /\ [][MCNext]_parts /\ MCFairness
-----------------------------------------------------------------------------
(* A briefing goes out once a day, and a clash of meetings that a tick saw *)
(* is told of (agent-scheduler.service.ts, proactive-trigger.service.ts).  *)
RoundsKept ==
  part = "rounds" =>
    Rounds!TypeOK /\ Rounds!BriefedOnce /\ Rounds!ConflictNoticed

(* A row is delivered, given up or cancelled in the end                   *)
(* (notification-worker.service.ts); a suggestion is made once and not     *)
(* against an answer, and a briefing that is due is sent or said to have   *)
(* failed (proactive-trigger.service.ts, agent-scheduler.service.ts).      *)
RowsAndRoundsEnd ==
  EveryRowSettles /\ Rounds!SuggestedOnce /\ Rounds!BriefedAtLast
=============================================================================
