------------------------------ MODULE Planner ------------------------------
(***************************************************************************)
(* One task or reminder and one meeting of a user, and the requests that   *)
(* change them (tasks.service.ts, reminders.service.ts, and                *)
(* meetings.service.ts).  A request reads the row and then writes a part   *)
(* of it, with no lock and no transaction from the read to the write: what *)
(* it does not change it may still write as it was, or have checked only   *)
(* as it was.                                                              *)
(*                                                                         *)
(* Left out: titles, priorities, and contacts, and what follows each       *)
(* write: its notifications (NotificationQueue) and the calendar           *)
(* (CalendarSync).                                                         *)
(***************************************************************************)
EXTENDS Naturals

CONSTANTS
  Requests,   \* requests served at a time
  Times,      \* times of day
  MaxBegun    \* bound: requests

\* What the constants must be; the module that instantiates this one assumes it.
PlannerAssumption == MaxBegun \in Nat /\ Times \subseteq Nat \ {0}

VARIABLES
  kind,      \* "task" or "reminder"
  item,      \* its row: status, and when it was completed
  meeting,   \* the row of the meeting: status, start, end
  request,   \* what each request is at, has read and is asked to write
  begun,
  completed, \* history: the item was completed, and nobody asked to reopen it
  stale,     \* history: an update wrote the status of the item it had read
             \* before another request changed it
  crossed    \* history: two updates of the meeting overlapped

history == <<completed, stale, crossed>>
vars == <<kind, item, meeting, request, begun, history>>

NoItem == [status |-> "gone", at |-> 0]
NoMeeting == [status |-> "gone", start |-> 0, end |-> 0]
Idle == [op |-> "idle"]

Opens == IF kind = "task" THEN {"TODO", "IN_PROGRESS"} ELSE {"ACTIVE", "CANCELLED"}
First == IF kind = "task" THEN "TODO" ELSE "ACTIVE"
Keep == "keep"

\* A request begins; `begun` is also the time.
Begins(r, what) ==
  /\ request[r] = Idle /\ begun < MaxBegun
  /\ begun' = begun + 1
  /\ request' = [request EXCEPT ![r] = what]

Done(r) == request' = [request EXCEPT ![r] = Idle]

\* When a row of this status was completed; `since` if it was before.
CompletedAt(status, since) ==
  IF status # "COMPLETED" THEN 0 ELSE IF since # 0 THEN since ELSE begun

-----------------------------------------------------------------------------
(* The task or the reminder                                                *)

\* createForUser, of one that may be completed already.
Create ==
  /\ item = NoItem /\ begun < MaxBegun /\ begun' = begun + 1
  /\ \E s \in {First, "COMPLETED"} :
       /\ item' = [status |-> s, at |-> IF s = "COMPLETED" THEN begun + 1 ELSE 0]
       /\ completed' = (s = "COMPLETED")
  /\ stale' = FALSE
  /\ UNCHANGED <<kind, meeting, request, crossed>>

\* updateForUser, completeForUser, reopenForUser (of a task) and
\* deleteForUser find the row.
BeginItem(r) ==
  /\ item # NoItem
  /\ \/ \E s \in Opens \cup {"COMPLETED", Keep} :
          Begins(r, [op |-> "update", status |-> s, read |-> item])
     \/ Begins(r, [op |-> "complete", read |-> item])
     \/ kind = "task" /\ Begins(r, [op |-> "reopen", read |-> item])
     \/ Begins(r, [op |-> "delete", read |-> item])
  /\ UNCHANGED <<kind, item, meeting, history>>

\* Mutant of StatusOf: a status that is not given is the first.
StatusOrFirst(q) == IF q.status = Keep THEN First ELSE q.status

StatusOf(q) == IF q.status = Keep THEN q.read.status ELSE q.status

\* The status and the time it was completed are written in any case.
Update(r) ==
  LET q == request[r]
      s == StatusOf(q) IN
  /\ q.op = "update" /\ item # NoItem
  /\ item' = [status |-> s, at |-> CompletedAt(s, q.read.at)]
  /\ completed' = CASE q.status = "COMPLETED" -> TRUE
                    [] q.status = Keep -> completed
                    [] q.status \in Opens -> FALSE
  /\ stale' = (stale \/ (q.status = Keep /\ q.read.status # item.status))
  /\ Done(r)
  /\ UNCHANGED <<kind, meeting, begun, crossed>>

Complete(r) ==
  /\ request[r].op = "complete" /\ item # NoItem
  /\ item' = [status |-> "COMPLETED", at |-> begun]
  /\ completed' = TRUE
  /\ Done(r)
  /\ UNCHANGED <<kind, meeting, begun, stale, crossed>>

Reopen(r) ==
  /\ request[r].op = "reopen" /\ item # NoItem
  /\ item' = [status |-> "TODO", at |-> 0]
  /\ completed' = FALSE
  /\ Done(r)
  /\ UNCHANGED <<kind, meeting, begun, stale, crossed>>

Delete(r) ==
  /\ request[r].op = "delete" /\ item # NoItem
  /\ item' = NoItem
  /\ completed' = FALSE
  /\ Done(r)
  /\ UNCHANGED <<kind, meeting, begun, stale, crossed>>

\* A row that is gone by the time of the write is an error.
WriteFails(r) ==
  /\ request[r].op \in {"update", "complete", "reopen", "delete"} /\ item = NoItem
  /\ Done(r)
  /\ UNCHANGED <<kind, item, meeting, begun, history>>

-----------------------------------------------------------------------------
(* The meeting                                                             *)

\* assertTimeOrder.
InOrder(start, end) == start < end

CreateMeeting ==
  /\ meeting = NoMeeting /\ begun < MaxBegun /\ begun' = begun + 1
  /\ \E s, e \in Times :
       InOrder(s, e) /\ meeting' = [status |-> "SCHEDULED", start |-> s, end |-> e]
  /\ UNCHANGED <<kind, item, request, history>>

\* updateForUser checks the times given, 0 for one that is not, with those of
\* the row.
Accepted(start, end) ==
  InOrder(IF start = 0 THEN meeting.start ELSE start,
          IF end = 0 THEN meeting.end ELSE end)

Rescheduling == {q \in Requests : request[q].op = "reschedule"}

BeginReschedule(r) ==
  /\ meeting # NoMeeting
  /\ \E s, e \in Times \cup {0} :
       /\ Accepted(s, e)
       /\ Begins(r, [op |-> "reschedule", start |-> s, end |-> e])
  /\ crossed' = (crossed \/ Rescheduling # {})
  /\ UNCHANGED <<kind, item, meeting, completed, stale>>

\* It writes what was given.
Reschedule(r) ==
  LET q == request[r] IN
  /\ q.op = "reschedule"
  /\ meeting' = [meeting EXCEPT !.start = IF q.start = 0 THEN @ ELSE q.start,
                                 !.end = IF q.end = 0 THEN @ ELSE q.end]
  /\ Done(r)
  /\ UNCHANGED <<kind, item, begun, history>>

\* cancelForUser.
Cancel ==
  /\ meeting.status = "SCHEDULED"
  /\ meeting' = [meeting EXCEPT !.status = "CANCELLED"]
  /\ UNCHANGED <<kind, item, request, begun, history>>

-----------------------------------------------------------------------------
Init ==
  /\ kind \in {"task", "reminder"}
  /\ item = NoItem /\ meeting = NoMeeting
  /\ request = [r \in Requests |-> Idle]
  /\ begun = 0
  /\ completed = FALSE /\ stale = FALSE /\ crossed = FALSE

Next ==
  \/ Create \/ CreateMeeting \/ Cancel
  \/ \E r \in Requests :
       \/ BeginItem(r) \/ Update(r) \/ Complete(r) \/ Reopen(r) \/ Delete(r)
       \/ WriteFails(r) \/ BeginReschedule(r) \/ Reschedule(r)

Spec == Init /\ [][Next]_vars

-----------------------------------------------------------------------------
(* Properties                                                              *)

\* Every variable holds a value of its type in the code.
TypeOK ==
  /\ item.status \in Opens \cup {"COMPLETED", "gone"} /\ item.at \in 0..MaxBegun
  /\ meeting.status \in {"SCHEDULED", "CANCELLED", "gone"}
  /\ begun \in 0..MaxBegun

\* A task or reminder has the time of its completion if and only if it is
\* completed, however requests that read it earlier write over each other.
CompletionDated == item.status = "COMPLETED" <=> item.at # 0

\* What was completed stays so until somebody asks for another status, unless
\* an update that had read it open writes that status back (updateForUser
\* writes the status it read when none is given).
CompletionLasts ==
  completed /\ ~stale => item.status = "COMPLETED"

\* A meeting ends after it starts, unless two updates that were each in order
\* with the row they read overlapped.
MeetingInOrder == ~crossed /\ meeting # NoMeeting => InOrder(meeting.start, meeting.end)
=============================================================================
