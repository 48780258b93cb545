----------------------------- MODULE DailyRounds -----------------------------
(***************************************************************************)
(* The rounds of the agent for one user: every few minutes a tick of each  *)
(* instance of the server looks for something to suggest                   *)
(* (proactive-trigger.service.ts) and sends the briefings that are due     *)
(* (agent-scheduler.service.ts); the user answers the suggestions          *)
(* (proactive-suggestions.service.ts).                                     *)
(*                                                                         *)
(* What is sent once is kept apart only by two unique keys: of a           *)
(* suggestion, written before its notification, and of the log of a        *)
(* briefing, written after it.                                             *)
(*                                                                         *)
(* What the triggers look at is abstracted to which of them fire, but for  *)
(* meetings in conflict; the text of a briefing is left out: its parts are *)
(* read only, and a failing model gives a fixed text.                      *)
(***************************************************************************)
EXTENDS Integers, Sequences, FiniteSets

CONSTANTS
  Instances,    \* processes of the server
  Calendars,    \* meetings a day may hold: sequences of [start, end], sorted
  BusyDay,      \* how many make a busy day
  MaxDay,       \* bound: the last day
  MaxMinute,    \* the last minute of a day
  Cases         \* preferences, and bounds: instances, faults, and so on

Types == {"MORNING", "EVENING"}
Triggers == {"TASK_OVERDUE", "BUSY_DAY", "CALENDAR_CONFLICT"}
Meeting == [start : Int, end : Int]
Days == 1..MaxDay

\* What the constants must be; the module that instantiates this one assumes it.
DailyRoundsAssumption ==
  /\ MaxDay \in Nat \ {0} /\ MaxMinute \in Nat /\ BusyDay \in Nat
  /\ IsFiniteSet(Instances)
  /\ \A s \in Calendars :
       /\ s \in Seq(Meeting)
       /\ \A i, j \in DOMAIN s : i < j => s[i].start <= s[j].start
  /\ \A c \in Cases :
       /\ c.pref \in
            [proactive : BOOLEAN, quiet : (0..MaxMinute) \X (0..MaxMinute),
             due : [Types -> 0..MaxMinute], notify : BOOLEAN]
       /\ c.left \in [up : SUBSET Instances, minutes : Nat, answers : Nat,
                      faults : Nat, restarts : Nat]

VARIABLES
  pref,       \* the preferences
  day,        \* the date where the user is
  minute,     \* and the time there
  inst,       \* the instances
  suggestion, \* status of the suggestion of a trigger and a day
  told,       \* notifications of it
  log,        \* the DailyBriefingLog of a day and a type
  queued,     \* notifications of that briefing
  excused,    \* history: how many of them no log could tell of
  left        \* how much of each there may still be

vars == <<pref, day, minute, inst, suggestion, told, log, queued, excused,
          left>>
clock == <<pref, day, minute>>
suggestions == <<suggestion, told>>
briefings == <<log, queued, excused>>

None == "none"

\* `running`: the flag of tick; `key`: the dateKey; `at`: the trigger or the
\* type it is at; `out`: this attempt at a briefing has queued it; `clash`
\* (history): it looked at meetings that take the same time.
Idle == [pc |-> "idle", running |-> FALSE, key |-> 1, todo |-> {},
         at |-> None, due |-> {}, out |-> FALSE, clash |-> FALSE]

Init ==
  /\ \E c \in Cases : pref = c.pref /\ left = c.left
  /\ day = 1 /\ minute = 0
  /\ inst = [i \in Instances |-> Idle]
  /\ suggestion = [k \in Triggers \X Days |-> None]
  /\ told = [k \in Triggers \X Days |-> 0]
  /\ log = [b \in Types \X Days |-> None]
  /\ queued = [b \in Types \X Days |-> 0]
  /\ excused = [b \in Types \X Days |-> 0]

-----------------------------------------------------------------------------
(* What a tick decides by                                                  *)

\* isQuietHours; the hours may go over midnight.
IsQuietHours(now, start, end) ==
  \/ start < end /\ now >= start /\ now < end
  \/ start > end /\ (now >= start \/ now < end)

IsDue(now, target) == now >= target

\* findConflict, of meetings sorted by their start: the neighbours that meet.
FindConflict(s) ==
  {<<i - 1, i>> : i \in {j \in 2..Len(s) : s[j].start < s[j - 1].end}}

\* Two meetings take the same time.
Overlap(s) == \E i, j \in DOMAIN s : i < j /\ s[j].start < s[i].end

-----------------------------------------------------------------------------
(* The tick                                                                *)

Move(i, changes) == inst' = [inst EXCEPT ![i] = changes]

\* The timer; a tick that finds another one running returns.
Tick(i) ==
  /\ i \in left.up /\ inst[i].pc = "idle" /\ ~inst[i].running
  /\ Move(i, [Idle EXCEPT !.pc = "evaluate", !.running = TRUE, !.key = day])
  /\ UNCHANGED <<clock, suggestions, briefings, left>>

\* evaluateForUser: whether tasks are overdue, and the meetings of the day.
Evaluate(i, overdue, meetings) ==
  /\ inst[i].pc = "evaluate"
  /\ LET fires == {t \in Triggers :
           CASE t = "TASK_OVERDUE" -> overdue
             [] t = "BUSY_DAY" -> Len(meetings) >= BusyDay
             [] t = "CALENDAR_CONFLICT" -> FindConflict(meetings) # {}}
         silent == \/ ~pref.proactive
                   \/ IsQuietHours(minute, pref.quiet[1], pref.quiet[2]) IN
     Move(i, [inst[i] EXCEPT !.pc = "upsert",
                !.clash = ~silent /\ Overlap(meetings),
                !.todo = IF silent THEN {} ELSE fires])
  /\ UNCHANGED <<clock, suggestions, briefings, left>>

Loud == {"TASK_OVERDUE", "CALENDAR_CONFLICT"}

\* The unique key lets the row be created.
Created(k) == suggestion[k] = None

\* The order in which evaluateForUser comes to the triggers.
First(todo) ==
  CASE "TASK_OVERDUE" \in todo -> "TASK_OVERDUE"
    [] "TASK_OVERDUE" \notin todo /\ "BUSY_DAY" \in todo -> "BUSY_DAY"
    [] OTHER -> "CALENDAR_CONFLICT"

\* upsert: the row, or nothing when its key is there.
Upsert(i) ==
  /\ inst[i].pc = "upsert" /\ inst[i].todo # {}
  /\ LET t == First(inst[i].todo)
         k == <<t, inst[i].key>>
         rest == [inst[i] EXCEPT !.todo = @ \ {t}] IN
     \/ /\ Created(k)
        /\ suggestion' = [suggestion EXCEPT ![k] = "ACTIVE"]
        /\ Move(i, IF t \in Loud /\ pref.notify
                   THEN [rest EXCEPT !.pc = "notify", !.at = t] ELSE rest)
     \/ /\ ~Created(k)
        /\ Move(i, rest) /\ UNCHANGED suggestion
  /\ UNCHANGED <<clock, told, briefings, left>>

Notify(i) ==
  /\ inst[i].pc = "notify"
  /\ told' = [told EXCEPT ![<<inst[i].at, inst[i].key>>] = @ + 1]
  /\ Move(i, [inst[i] EXCEPT !.pc = "upsert", !.at = None])
  /\ UNCHANGED <<clock, suggestion, briefings, left>>

\* dispatchBriefings: the time is read anew, the date is not.
Dispatch(i) ==
  /\ inst[i].pc = "upsert" /\ inst[i].todo = {}
  /\ Move(i, [inst[i] EXCEPT !.pc = "brief",
                !.due = {t \in Types : IsDue(minute, pref.due[t])}])
  /\ UNCHANGED <<clock, suggestions, briefings, left>>

\* Mutant of Done: only a briefing that was sent counts.
DoneIfSent(b) == log[b] = "SENT"

\* A row of the log, of either status.
Done(b) == log[b] # None

\* Another instance is on its way from the log to the log.
Raced(i, b) == \E j \in Instances \ {i} :
  /\ inst[j].pc \in {"build", "log", "failed"}
  /\ <<inst[j].at, inst[j].key>> = b

\* sendBriefingIfNotSent, the morning's first.
Check(i, t) ==
  /\ inst[i].pc = "brief" /\ t \in inst[i].due
  /\ t = "EVENING" => "MORNING" \notin inst[i].due
  /\ LET b == <<t, inst[i].key>>
         rest == [inst[i] EXCEPT !.due = @ \ {t}] IN
     \/ /\ Done(b)
        /\ Move(i, rest) /\ UNCHANGED excused
     \/ /\ ~Done(b)
        /\ Move(i, [rest EXCEPT !.pc = "build", !.at = t])
        /\ excused' = [excused EXCEPT ![b] = @ + IF Raced(i, b) THEN 1 ELSE 0]
  /\ UNCHANGED <<clock, suggestions, log, queued, left>>

Current(i) == <<inst[i].at, inst[i].key>>
Onward(i) == [inst[i] EXCEPT !.pc = "brief", !.at = None, !.out = FALSE]

\* The text is made and queued for the channels there are.
Queue(i) ==
  /\ inst[i].pc = "build"
  /\ queued' = [queued EXCEPT ![Current(i)] = @ + 1]
  /\ Move(i, [inst[i] EXCEPT !.pc = "log", !.out = TRUE])
  /\ UNCHANGED <<clock, suggestions, log, excused, left>>

\* The row, unless its key is there: the error is caught, and so is that of
\* the FAILED row which is tried next.
Log(i) ==
  /\ inst[i].pc = "log"
  /\ log' = [log EXCEPT ![Current(i)] = IF @ = None THEN "SENT" ELSE @]
  /\ Move(i, Onward(i))
  /\ UNCHANGED <<clock, suggestions, queued, excused, left>>

BriefingFails(i) ==
  /\ inst[i].pc \in {"build", "log"} /\ left.faults > 0
  /\ Move(i, [inst[i] EXCEPT !.pc = "failed"])
  /\ left' = [left EXCEPT !.faults = @ - 1]
  /\ UNCHANGED <<clock, suggestions, briefings>>

LogFailed(i) ==
  /\ inst[i].pc = "failed"
  /\ log' = [log EXCEPT ![Current(i)] = IF @ = None THEN "FAILED" ELSE @]
  /\ Move(i, Onward(i))
  /\ UNCHANGED <<clock, suggestions, queued, excused, left>>

Unlogged(i) ==
  excused' = IF inst[i].out /\ inst[i].pc \in {"log", "failed"}
             THEN [excused EXCEPT ![Current(i)] = @ + 1] ELSE excused

\* The FAILED row cannot be written either; that error is dropped.
LogLost(i) ==
  /\ inst[i].pc = "failed" /\ left.faults > 0
  /\ Unlogged(i)
  /\ Move(i, Onward(i))
  /\ left' = [left EXCEPT !.faults = @ - 1]
  /\ UNCHANGED <<clock, suggestions, log, queued>>

\* Mutant of Ended: an error before the briefings leaves the flag set.
StillRunning(i) == [Idle EXCEPT !.running = inst[i].due # {}]

\* The tick is over, and its flag is cleared whatever happened.
Ended(i) == Idle

End(i) ==
  /\ inst[i].pc = "brief" /\ inst[i].due = {}
  /\ Move(i, Ended(i))
  /\ UNCHANGED <<clock, suggestions, briefings, left>>

\* An error that is not a briefing's: the user is passed over until the next
\* tick.
UserFails(i) ==
  /\ inst[i].pc \in {"evaluate", "upsert", "notify", "brief"}
  /\ left.faults > 0
  /\ Move(i, Ended(i))
  /\ left' = [left EXCEPT !.faults = @ - 1]
  /\ UNCHANGED <<clock, suggestions, briefings>>

Restart(i) ==
  /\ inst[i].pc # "idle" /\ left.restarts > 0
  /\ Unlogged(i)
  /\ Move(i, Idle)
  /\ left' = [left EXCEPT !.restarts = @ - 1]
  /\ UNCHANGED <<clock, suggestions, log, queued>>

-----------------------------------------------------------------------------
(* The user and the clock                                                  *)

\* dismiss and snooze, of a suggestion of any status; wakeSnoozed.
Answer(k, status) ==
  /\ suggestion[k] # None /\ left.answers > 0
  /\ status \in {"DISMISSED", "SNOOZED"}
  /\ suggestion' = [suggestion EXCEPT ![k] = status]
  /\ left' = [left EXCEPT !.answers = @ - 1]
  /\ UNCHANGED <<clock, inst, told, briefings>>

Wake(k) ==
  /\ suggestion[k] = "SNOOZED"
  /\ suggestion' = [suggestion EXCEPT ![k] = "ACTIVE"]
  /\ UNCHANGED <<clock, inst, told, briefings, left>>

Passes ==
  /\ left.minutes > 0
  /\ minute < MaxMinute \/ day < MaxDay
  /\ minute' = (minute + 1) % (MaxMinute + 1)
  /\ day' = IF minute = MaxMinute THEN day + 1 ELSE day
  /\ left' = [left EXCEPT !.minutes = @ - 1]
  /\ UNCHANGED <<pref, inst, suggestions, briefings>>

Next ==
  \/ Passes
  \/ \E i \in Instances :
       \/ Tick(i) \/ Upsert(i) \/ Notify(i) \/ Dispatch(i) \/ Queue(i)
       \/ Log(i) \/ BriefingFails(i) \/ LogFailed(i) \/ LogLost(i) \/ End(i)
       \/ UserFails(i) \/ Restart(i)
       \/ \E t \in Types : Check(i, t)
       \/ \E overdue \in BOOLEAN, c \in Calendars : Evaluate(i, overdue, c)
  \/ \E k \in Triggers \X Days :
       Wake(k) \/ \E s \in {"DISMISSED", "SNOOZED"} : Answer(k, s)

\* The timer rings again and again, and what a tick awaits is answered, or
\* fails.
Works(i) ==
  \/ Upsert(i) \/ Notify(i) \/ Dispatch(i) \/ Queue(i) \/ Log(i)
  \/ LogFailed(i) \/ End(i) \/ \E t \in Types : Check(i, t)
  \/ \E overdue \in BOOLEAN, c \in Calendars : Evaluate(i, overdue, c)

Fairness == \A i \in Instances : WF_vars(Tick(i)) /\ WF_vars(Works(i))

Spec == Init /\ [][Next]_vars /\ Fairness

-----------------------------------------------------------------------------
(* Properties                                                              *)

\* Types, and a suggestion is told of only when it was made.
TypeOK ==
  /\ day \in Days /\ minute \in 0..MaxMinute
  /\ suggestion \in
       [Triggers \X Days -> {None, "ACTIVE", "SNOOZED", "DISMISSED"}]
  /\ log \in [Types \X Days -> {None, "SENT", "FAILED"}]
  /\ \A i \in Instances :
       /\ (inst[i].pc # "idle") = inst[i].running
       /\ (inst[i].pc \in {"build", "log", "failed"}) =>
            inst[i].at \in Types
  /\ \A k \in Triggers \X Days : told[k] > 0 => suggestion[k] # None

\* A briefing goes out once a day, and again only when no log could tell of
\* the first: another instance was sending it too, the process died before
\* the log, or neither row could be written.
BriefedOnce == \A b \in Types \X Days : queued[b] <= 1 + excused[b]

\* A suggestion is made and told of once a day, whatever number of ticks and
\* instances find the reason for it; one the user dismissed does not come
\* back, but by the user's own snooze.
SuggestedOnce ==
  /\ [][\A k \in Triggers \X Days :
          suggestion[k] = "DISMISSED" => suggestion'[k] # "ACTIVE"]_vars
  /\ [](\A k \in Triggers \X Days : told[k] <= 1)

\* A tick that saw meetings take the same time makes a suggestion of it before
\* it goes on, or there is one, although it compares neighbours only.
ConflictNoticed ==
  \A i \in Instances : inst[i].clash =>
    \/ suggestion[<<"CALENDAR_CONFLICT", inst[i].key>>] # None
    \/ inst[i].pc \in {"upsert", "notify"}
       /\ "CALENDAR_CONFLICT" \in inst[i].todo

\* While the day lasts, a briefing that is due is logged at last, as sent or
\* as failed: no error and no restart ends the rounds.
BriefedAtLast ==
  \A t \in Types :
    []<>(left.up # {} /\ day = MaxDay /\ minute >= pref.due[t]
           => log[<<t, MaxDay>>] # None)
=============================================================================
