---------------------------- MODULE RecordsProofs ----------------------------
(***************************************************************************)
(* Proofs about what a user keeps (MCRecords), for any number of requests, *)
(* folders, files and times and every bound: tasks, reminders and meetings *)
(* (Planner), files and folders (FileStore), accounts, transactions and    *)
(* budgets (Ledger, Budgets) with the sums over any of them, and the       *)
(* devices that are told of what is due (WebPush).                         *)
(***************************************************************************)
EXTENDS MCRecords, FiniteSetTheorems, WellFoundedInduction, TLAPS

-----------------------------------------------------------------------------
(* Tasks, reminders and meetings.  What a request has read tells what it   *)
(* will write: the time of a completion it read is dated, and while the    *)
(* updates of a meeting do not overlap, what one of them was found to be   *)
(* in order with is still what the row holds.                              *)

Statuses == Plans!Opens \cup {"COMPLETED"}
Read(i) == /\ i.status \in Statuses /\ i.at \in 0..MaxBegun
           /\ i.status = "COMPLETED" <=> i.at # 0

\* What a request on the item or on the meeting may be asked to write.
Asked(q) ==
  \/ q = Plans!Idle
  \/ /\ q.op = "update" /\ q.status \in Statuses \cup {Plans!Keep}
     /\ Read(q.read)
  \/ q.op \in {"complete", "delete"}
  \/ q.op = "reopen" /\ kind = "task"
  \/ /\ q.op = "reschedule"
     /\ q.start \in Times \cup {0} /\ q.end \in Times \cup {0}

\* The types, and a request under way was counted.
PlansTyped ==
  /\ kind \in {"task", "reminder"} /\ begun \in 0..MaxBegun
  /\ completed \in BOOLEAN /\ stale \in BOOLEAN /\ crossed \in BOOLEAN
  /\ item = Plans!NoItem \/ Read(item)
  /\ \/ meeting = Plans!NoMeeting
     \/ meeting \in [status : {"SCHEDULED", "CANCELLED"}, start : Times, end : Times]
  /\ DOMAIN change = Workers
  /\ \A r \in Workers : /\ Asked(change[r])
                        /\ change[r] # Plans!Idle => begun # 0
                        /\ change[r].op = "reschedule" => meeting # Plans!NoMeeting

\* One update of the meeting at a time is in order with the row as it is.
OneReschedule ==
  ~crossed =>
    \A r \in Workers : change[r].op = "reschedule" =>
      /\ Plans!Accepted(change[r].start, change[r].end)
      /\ \A s \in Workers : change[s].op = "reschedule" => s = r

PlansInv == /\ PlansTyped /\ OneReschedule
            /\ Plans!CompletionLasts /\ Plans!MeetingInOrder

LEMMA PlansInit == Plans!Init => PlansInv
<1> SUFFICES ASSUME Plans!Init PROVE PlansInv
  OBVIOUS
<1> USE PlansAssumption DEF Plans!PlannerAssumption, Plans!Init
<1>1. PlansTyped
  <2>1. \A r \in Workers : change[r] = Plans!Idle /\ Asked(change[r])
    BY DEF Asked
  <2>2. begun \in 0..MaxBegun /\ DOMAIN change = Workers
    OBVIOUS
  <2> QED BY <2>1, <2>2 DEF PlansTyped, Plans!Idle
<1>2. OneReschedule
  BY DEF OneReschedule, Plans!Idle
<1>3. Plans!CompletionLasts /\ Plans!MeetingInOrder
  BY DEF Plans!CompletionLasts, Plans!MeetingInOrder
<1> QED BY <1>1, <1>2, <1>3 DEF PlansInv

\* What a request is doing after one of them has begun or is done.
LEMMA Changes ==
  ASSUME PlansTyped, NEW r \in Workers, NEW q, Asked(q),
         change' = [change EXCEPT ![r] = q], kind' = kind
  PROVE  /\ DOMAIN change' = Workers /\ change'[r] = q
         /\ \A s \in Workers : s # r => change'[s] = change[s]
         /\ \A s \in Workers : Asked(change[s])'
<1>1. /\ DOMAIN change' = Workers /\ change'[r] = q
      /\ \A s \in Workers : s # r => change'[s] = change[s]
  BY DEF PlansTyped
<1>2. \A x : Asked(x) => (Asked(x))'
  BY DEF Asked, Read, Statuses, Plans!Opens, Plans!Idle, Plans!Keep
<1> QED BY <1>1, <1>2 DEF PlansTyped

\* The item: its completion is dated, and lasts.
LEMMA ItemStep ==
  ASSUME PlansInv, NEW r \in Workers, NEW q, q = change[r],
         \/ Plans!BeginItem(r) \/ Plans!Update(r) \/ Plans!Complete(r)
         \/ Plans!Reopen(r) \/ Plans!Delete(r) \/ Plans!WriteFails(r)
  PROVE  /\ PlansTyped' /\ Plans!CompletionLasts'
         /\ UNCHANGED <<meeting, crossed>>
         /\ \A s \in Workers : change'[s].op = "reschedule" =>
              change[s].op = "reschedule" /\ change'[s] = change[s]
<1> USE PlansAssumption DEF Plans!PlannerAssumption, PlansInv
<1>1. Asked(Plans!Idle)
  BY DEF Asked
<1>2. Asked(q) /\ (q # Plans!Idle => begun # 0)
  BY DEF PlansTyped
<1>3. CASE Plans!BeginItem(r)
  <2>1. PICK w : /\ Asked(w) /\ w # Plans!Idle /\ w.op # "reschedule"
                 /\ change' = [change EXCEPT ![r] = w]
                 /\ change[r] = Plans!Idle
                 /\ begun < MaxBegun /\ begun' = begun + 1
    <3>1. Read(item)
      BY <1>3 DEF Plans!BeginItem, PlansTyped
    <3> QED BY <1>3, <3>1 DEF Plans!BeginItem, Plans!Begins, Asked, Statuses,
              Plans!Idle
  <2>2. UNCHANGED <<kind, item, meeting, completed, stale, crossed>>
    BY <1>3 DEF Plans!BeginItem, Plans!history
  <2>3. begun' \in 0..MaxBegun /\ begun' # 0
    BY <2>1 DEF PlansTyped
  <2>4. /\ DOMAIN change' = Workers
        /\ \A s \in Workers : s # r => change'[s] = change[s]
        /\ change'[r] = w
        /\ \A s \in Workers : Asked(change[s])'
    BY <2>1, <2>2, Changes
  <2>5. PlansTyped'
    <3>1. /\ item' = Plans!NoItem \/ Read(item)'
          /\ \/ meeting' = Plans!NoMeeting
             \/ meeting' \in [status : {"SCHEDULED", "CANCELLED"},
                               start : Times, end : Times]
      BY <2>2 DEF PlansTyped, Read, Statuses, Plans!Opens
    <3>2. \A s \in Workers : /\ change'[s] # Plans!Idle => begun' # 0
                             /\ change'[s].op = "reschedule" =>
                                  meeting' # Plans!NoMeeting
      BY <2>1, <2>2, <2>3, <2>4 DEF PlansTyped
    <3> QED BY <2>2, <2>3, <2>4, <3>1, <3>2 DEF PlansTyped
  <2>6. Plans!CompletionLasts'
    BY <2>2 DEF Plans!CompletionLasts
  <2> QED BY <2>1, <2>2, <2>4, <2>5, <2>6
<1>4. ASSUME Plans!Done(r), UNCHANGED <<kind, begun, meeting, crossed>>,
             item' = Plans!NoItem \/ Read(item'),
             completed' \in BOOLEAN, stale' \in BOOLEAN
      PROVE  /\ PlansTyped'
             /\ \A s \in Workers : change'[s].op = "reschedule" =>
                  change[s].op = "reschedule" /\ change'[s] = change[s]
  <2>1. /\ DOMAIN change' = Workers /\ change'[r] = Plans!Idle
        /\ \A s \in Workers : s # r => change'[s] = change[s]
        /\ \A s \in Workers : Asked(change[s])'
    BY <1>1, <1>4, Changes DEF Plans!Done
  <2>2. item' = Plans!NoItem' \/ Read(item)'
    BY <1>4 DEF Read, Statuses, Plans!Opens, Plans!NoItem
  <2>3. PlansTyped'
    <3>1. \/ meeting' = Plans!NoMeeting
          \/ meeting' \in [status : {"SCHEDULED", "CANCELLED"},
                            start : Times, end : Times]
      BY <1>4 DEF PlansTyped
    <3>2. \A s \in Workers : /\ change'[s] # Plans!Idle => begun' # 0
                             /\ change'[s].op = "reschedule" =>
                                  meeting' # Plans!NoMeeting
      BY <1>4, <2>1 DEF PlansTyped, Plans!Idle
    <3>3. /\ kind' \in {"task", "reminder"} /\ begun' \in 0..MaxBegun
          /\ completed' \in BOOLEAN /\ stale' \in BOOLEAN /\ crossed' \in BOOLEAN
      BY <1>4 DEF PlansTyped
    <3> QED BY <2>1, <2>2, <3>1, <3>2, <3>3 DEF PlansTyped
  <2> QED BY <2>1, <2>3 DEF Plans!Idle
<1>5. CASE Plans!Update(r)
  <2> DEFINE s == Plans!StatusOf(q)
  <2>1. /\ q.op = "update" /\ item # Plans!NoItem /\ begun # 0
        /\ q.status \in Statuses \cup {Plans!Keep} /\ Read(q.read)
    BY <1>2, <1>5 DEF Plans!Update, Asked, Plans!Idle
  <2>2. s \in Statuses
    BY <2>1 DEF Plans!StatusOf, Read
  <2>3. /\ item' = [status |-> s, at |-> Plans!CompletedAt(s, q.read.at)]
        /\ completed' = CASE q.status = "COMPLETED" -> TRUE
                          [] q.status = Plans!Keep -> completed
                          [] q.status \in Plans!Opens -> FALSE
        /\ stale' = (stale \/ (q.status = Plans!Keep /\ q.read.status # item.status))
        /\ Plans!Done(r) /\ UNCHANGED <<kind, begun, meeting, crossed>>
    BY <1>5 DEF Plans!Update
  <2>4. Read(item')
    BY <2>1, <2>2, <2>3 DEF Read, Plans!CompletedAt, PlansTyped
  <2>5. completed' \in BOOLEAN /\ stale' \in BOOLEAN
    BY <2>1, <2>3 DEF PlansTyped, Statuses
  <2>6. Plans!CompletionLasts'
    BY <2>1, <2>3 DEF Plans!CompletionLasts, Plans!StatusOf, Statuses, Plans!Opens,
       Plans!Keep
  <2> QED BY <1>4, <2>3, <2>4, <2>5, <2>6
<1>6. CASE Plans!Complete(r)
  <2>1. Read(item') /\ completed' \in BOOLEAN /\ stale' \in BOOLEAN
    BY <1>2, <1>6 DEF Plans!Complete, Read, Statuses, PlansTyped, Plans!Idle
  <2>2. Plans!CompletionLasts'
    BY <1>6 DEF Plans!Complete, Plans!CompletionLasts
  <2> QED BY <1>4, <1>6, <2>1, <2>2 DEF Plans!Complete
<1>7. CASE Plans!Reopen(r)
  <2>1. Read(item') /\ completed' \in BOOLEAN /\ stale' \in BOOLEAN
    <3>1. kind = "task"
      BY <1>2, <1>7 DEF Plans!Reopen, Asked, Plans!Idle
    <3>2. /\ item' = [status |-> "TODO", at |-> 0] /\ completed' = FALSE
          /\ stale' = stale
      BY <1>7 DEF Plans!Reopen
    <3>3. "TODO" \in Statuses /\ stale \in BOOLEAN
      BY <3>1 DEF Statuses, Plans!Opens, PlansTyped
    <3>4. Read(item')
      BY <3>2, <3>3 DEF Read
    <3>5. completed' \in BOOLEAN /\ stale' \in BOOLEAN
      BY <3>2, <3>3
    <3> QED BY <3>4, <3>5
  <2>2. Plans!CompletionLasts'
    BY <1>7 DEF Plans!Reopen, Plans!CompletionLasts
  <2> QED BY <1>4, <1>7, <2>1, <2>2 DEF Plans!Reopen
<1>8. CASE Plans!Delete(r)
  BY <1>4, <1>8 DEF Plans!Delete, Plans!CompletionLasts, PlansTyped
<1>9. CASE Plans!WriteFails(r)
  BY <1>4, <1>9 DEF Plans!WriteFails, Plans!history, Plans!CompletionLasts, PlansTyped
<1> QED BY <1>3, <1>5, <1>6, <1>7, <1>8, <1>9

\* The meeting: one update at a time finds it as it was when it was checked.
LEMMA MeetingStep ==
  ASSUME PlansInv, NEW r \in Workers, NEW q, q = change[r],
         Plans!BeginReschedule(r) \/ Plans!Reschedule(r)
  PROVE  PlansTyped' /\ OneReschedule' /\ Plans!MeetingInOrder'
<1> USE PlansAssumption DEF Plans!PlannerAssumption, PlansInv
<1>1. Asked(Plans!Idle)
  BY DEF Asked
<1>2. Asked(q) /\ (q # Plans!Idle => begun # 0)
  BY DEF PlansTyped
<1>3. CASE Plans!BeginReschedule(r)
  <2>1. PICK st \in Times \cup {0}, en \in Times \cup {0} :
          /\ Plans!Accepted(st, en)
          /\ Plans!Begins(r, [op |-> "reschedule", start |-> st, end |-> en])
    BY <1>3 DEF Plans!BeginReschedule
  <2> DEFINE w == [op |-> "reschedule", start |-> st, end |-> en]
  <2>2. Asked(w) /\ w # Plans!Idle
    BY DEF Asked, Plans!Idle
  <2>3. /\ change' = [change EXCEPT ![r] = w] /\ change[r] = Plans!Idle
        /\ begun' \in 0..MaxBegun /\ begun' # 0
        /\ UNCHANGED <<kind, item, meeting, completed, stale>>
        /\ crossed' = (crossed \/ Plans!Rescheduling # {})
    <3>1. begun \in 0..MaxBegun /\ begun < MaxBegun /\ begun' = begun + 1
      BY <2>1 DEF Plans!Begins, PlansTyped
    <3>2. begun' \in 0..MaxBegun /\ begun' # 0
      BY <3>1
    <3> QED BY <1>3, <2>1, <3>2 DEF Plans!BeginReschedule, Plans!Begins
  <2>4. /\ DOMAIN change' = Workers
        /\ \A s \in Workers : s # r => change'[s] = change[s]
        /\ change'[r] = w
        /\ \A s \in Workers : Asked(change[s])'
    BY <2>2, <2>3, Changes
  <2>8. meeting # Plans!NoMeeting
    BY <1>3 DEF Plans!BeginReschedule
  <2>5. PlansTyped'
    BY <2>2, <2>3, <2>4, <2>8 DEF PlansTyped, Read, Statuses, Plans!Opens,
       Plans!NoItem, Plans!NoMeeting
  <2>6. OneReschedule'
    <3>1. ~crossed' => /\ ~crossed
                       /\ \A s \in Workers : s # r => change'[s].op # "reschedule"
      BY <2>3, <2>4 DEF Plans!Rescheduling
    <3> QED BY <2>1, <2>3, <2>4, <3>1 DEF OneReschedule, Plans!Accepted
  <2>7. Plans!MeetingInOrder'
    BY <2>3 DEF Plans!MeetingInOrder, Plans!NoMeeting
  <2> QED BY <2>5, <2>6, <2>7
<1>4. CASE Plans!Reschedule(r)
  <2>1. /\ q.op = "reschedule" /\ q.start \in Times \cup {0} /\ q.end \in Times \cup {0}
        /\ change' = [change EXCEPT ![r] = Plans!Idle]
        /\ UNCHANGED <<kind, item, begun, completed, stale, crossed>>
    BY <1>2, <1>4 DEF Plans!Reschedule, Plans!Done, Plans!history, Asked, Plans!Idle
  <2>2. meeting' = [meeting EXCEPT !.start = IF q.start = 0 THEN @ ELSE q.start,
                                    !.end = IF q.end = 0 THEN @ ELSE q.end]
    BY <1>4 DEF Plans!Reschedule
  <2>3. /\ DOMAIN change' = Workers
        /\ \A s \in Workers : s # r => change'[s] = change[s]
        /\ change'[r] = Plans!Idle
        /\ \A s \in Workers : Asked(change[s])'
    BY <1>1, <2>1, Changes
  <2>4. meeting # Plans!NoMeeting
    BY <2>1 DEF PlansTyped
  <2>5. /\ meeting' \in [status : {"SCHEDULED", "CANCELLED"}, start : Times, end : Times]
        /\ meeting'.start = IF q.start = 0 THEN meeting.start ELSE q.start
        /\ meeting'.end = IF q.end = 0 THEN meeting.end ELSE q.end
    BY <2>1, <2>2, <2>4 DEF PlansTyped
  <2>6. meeting' # Plans!NoMeeting
    BY <2>5 DEF Plans!NoMeeting
  <2>7. PlansTyped'
    BY <2>1, <2>3, <2>5, <2>6 DEF PlansTyped, Read, Statuses, Plans!Opens,
       Plans!NoItem, Plans!Idle
  <2>8. OneReschedule'
    BY <2>1, <2>3 DEF OneReschedule, Plans!Idle
  <2>9. Plans!MeetingInOrder'
    BY <2>1, <2>5 DEF Plans!MeetingInOrder, OneReschedule, Plans!Accepted,
       Plans!InOrder
  <2> QED BY <2>7, <2>8, <2>9
<1> QED BY <1>3, <1>4

\* No step of a request on either leaves the invariant.
LEMMA PlansStep == ASSUME PlansInv, [Plans!Next]_(Plans!vars) PROVE PlansInv'
<1> USE PlansAssumption DEF Plans!PlannerAssumption, PlansInv
<1>1. ASSUME NEW r \in Workers,
             \/ Plans!BeginItem(r) \/ Plans!Update(r) \/ Plans!Complete(r)
             \/ Plans!Reopen(r) \/ Plans!Delete(r) \/ Plans!WriteFails(r)
      PROVE  PlansInv'
  <2>1. /\ PlansTyped' /\ Plans!CompletionLasts'
        /\ UNCHANGED <<meeting, crossed>>
        /\ \A s \in Workers : change'[s].op = "reschedule" =>
              change[s].op = "reschedule" /\ change'[s] = change[s]
    BY <1>1, ItemStep
  <2>2. OneReschedule'
    BY <2>1 DEF OneReschedule, Plans!Accepted, Plans!InOrder
  <2>3. Plans!MeetingInOrder'
    BY <2>1 DEF Plans!MeetingInOrder, Plans!NoMeeting, Plans!InOrder
  <2> QED BY <2>1, <2>2, <2>3
<1>2. ASSUME NEW r \in Workers, Plans!BeginReschedule(r) \/ Plans!Reschedule(r)
      PROVE  PlansInv'
  <2>1. PlansTyped' /\ OneReschedule' /\ Plans!MeetingInOrder'
    BY <1>2, MeetingStep
  <2>2. UNCHANGED <<item, completed, stale>>
    BY <1>2 DEF Plans!BeginReschedule, Plans!Reschedule, Plans!history
  <2>3. Plans!CompletionLasts'
    BY <2>2 DEF Plans!CompletionLasts
  <2> QED BY <2>1, <2>3
<1>3. CASE Plans!Create
  <2>1. PICK st \in {Plans!First, "COMPLETED"} :
          /\ item' = [status |-> st, at |-> IF st = "COMPLETED" THEN begun + 1 ELSE 0]
          /\ completed' = (st = "COMPLETED")
    BY <1>3 DEF Plans!Create
  <2>2. /\ begun' = begun + 1 /\ begun + 1 \in 1..MaxBegun /\ stale' = FALSE
        /\ UNCHANGED <<kind, meeting, change, crossed>>
    BY <1>3 DEF Plans!Create, PlansTyped
  <2>3. Read(item)'
    BY <2>1, <2>2 DEF Read, Statuses, Plans!Opens, Plans!First
  <2>4. PlansTyped'
    <3>1. \A q : Asked(q) => Asked(q)'
      BY <2>2 DEF Asked, Read, Statuses, Plans!Opens, Plans!Idle, Plans!Keep
    <3>2. \A s \in Workers : /\ change'[s] # Plans!Idle => begun' # 0
                             /\ change'[s].op = "reschedule" =>
                                  meeting' # Plans!NoMeeting
      BY <2>2 DEF PlansTyped
    <3>3. \/ meeting' = Plans!NoMeeting
          \/ meeting' \in [status : {"SCHEDULED", "CANCELLED"},
                            start : Times, end : Times]
      BY <2>2 DEF PlansTyped
    <3>4. completed' \in BOOLEAN /\ stale' \in BOOLEAN /\ crossed' \in BOOLEAN
      BY <2>1, <2>2 DEF PlansTyped
    <3>5. kind' \in {"task", "reminder"} /\ begun' \in 0..MaxBegun
      BY <2>2 DEF PlansTyped
    <3>6. DOMAIN change' = Workers /\ \A r \in Workers : Asked(change[r])'
      BY <2>2, <3>1 DEF PlansTyped
    <3> QED BY <2>3, <3>2, <3>3, <3>4, <3>5, <3>6 DEF PlansTyped
  <2>5. OneReschedule'
    BY <2>2 DEF OneReschedule, Plans!Accepted, Plans!InOrder
  <2>6. Plans!CompletionLasts' /\ Plans!MeetingInOrder'
    BY <2>1, <2>2 DEF Plans!CompletionLasts, Plans!MeetingInOrder, Plans!NoMeeting,
       Plans!InOrder
  <2> QED BY <2>4, <2>5, <2>6
<1>4. CASE Plans!CreateMeeting
  <2>1. /\ meeting' \in [status : {"SCHEDULED"}, start : Times, end : Times]
        /\ meeting'.start < meeting'.end /\ meeting = Plans!NoMeeting
    BY <1>4 DEF Plans!CreateMeeting, Plans!InOrder
  <2>2. /\ begun' \in 1..MaxBegun
        /\ UNCHANGED <<kind, item, change, completed, stale, crossed>>
    BY <1>4 DEF Plans!CreateMeeting, Plans!history, PlansTyped
  <2>3. PlansTyped'
    <3>1. \A q : Asked(q) => Asked(q)'
      BY <2>2 DEF Asked, Read, Statuses, Plans!Opens, Plans!Idle, Plans!Keep
    <3> QED BY <2>1, <2>2, <3>1 DEF PlansTyped, Plans!NoItem, Plans!NoMeeting,
              Plans!Idle, Read, Statuses, Plans!Opens
  <2>4. OneReschedule'
    BY <2>1, <2>2 DEF OneReschedule, PlansTyped
  <2>5. Plans!CompletionLasts' /\ Plans!MeetingInOrder'
    BY <2>1, <2>2 DEF Plans!CompletionLasts, Plans!MeetingInOrder, Plans!InOrder
  <2> QED BY <2>3, <2>4, <2>5
<1>5. CASE Plans!Cancel
  <2>1. /\ meeting' = [meeting EXCEPT !.status = "CANCELLED"]
        /\ meeting # Plans!NoMeeting
        /\ UNCHANGED <<kind, item, change, begun, completed, stale, crossed>>
    BY <1>5 DEF Plans!Cancel, Plans!history, Plans!NoMeeting
  <2>2. /\ meeting' \in [status : {"CANCELLED"}, start : Times, end : Times]
        /\ meeting'.start = meeting.start /\ meeting'.end = meeting.end
    BY <2>1 DEF PlansTyped
  <2>3. PlansTyped'
    <3>1. \A q : Asked(q) => Asked(q)'
      BY <2>1 DEF Asked, Read, Statuses, Plans!Opens, Plans!Idle, Plans!Keep
    <3> QED BY <2>1, <2>2, <3>1 DEF PlansTyped, Plans!NoItem, Plans!NoMeeting,
              Plans!Idle, Read, Statuses, Plans!Opens
  <2>4. OneReschedule'
    BY <2>1, <2>2 DEF OneReschedule, Plans!Accepted, Plans!InOrder
  <2>5. Plans!CompletionLasts' /\ Plans!MeetingInOrder'
    BY <2>1, <2>2 DEF Plans!CompletionLasts, Plans!MeetingInOrder, Plans!InOrder
  <2> QED BY <2>3, <2>4, <2>5
<1>6. CASE UNCHANGED Plans!vars
  <2>1. UNCHANGED <<kind, item, meeting, change, begun, completed, stale, crossed>>
    BY <1>6 DEF Plans!vars, Plans!history
  <2>2. PlansTyped' /\ OneReschedule'
    BY <2>1 DEF PlansTyped, OneReschedule, Asked, Read, Statuses, Plans!Opens,
       Plans!NoItem, Plans!NoMeeting, Plans!Idle, Plans!Keep, Plans!Accepted,
       Plans!InOrder
  <2>3. Plans!CompletionLasts' /\ Plans!MeetingInOrder'
    BY <2>1 DEF Plans!CompletionLasts, Plans!MeetingInOrder, Plans!NoMeeting,
       Plans!InOrder
  <2> QED BY <2>2, <2>3
<1> QED BY <1>1, <1>2, <1>3, <1>4, <1>5, <1>6 DEF Plans!Next

\* What is promised of them follows.
LEMMA PlansPromised ==
  ASSUME PlansInv
  PROVE  /\ Plans!TypeOK /\ Plans!CompletionDated
         /\ Plans!CompletionLasts /\ Plans!MeetingInOrder
BY PlansAssumption
DEF Plans!PlannerAssumption, PlansInv, PlansTyped, Read, Statuses, Plans!NoItem,
    Plans!NoMeeting, Plans!TypeOK, Plans!CompletionDated

\* What is completed has the time of its completion and stays so, and a meeting
\* ends after it starts, whatever requests on them are under way at the same
\* time, but for the two ways named (tasks.service.ts, reminders.service.ts,
\* meetings.service.ts).
THEOREM PlansAreKept == MCSpec => []PlansKept
<1>1. MCInit => PlansInv
  BY PlansInit DEF MCInit
<1>2. PlansInv /\ [MCNext]_<<part, vars, files, budgets, plans, pushes>> => PlansInv'
  <2>1. ASSUME UNCHANGED plans PROVE UNCHANGED Plans!vars
    BY <2>1 DEF plans, Plans!vars, Plans!history
  <2> QED BY <2>1, PlansStep DEF MCNext
<1>3. PlansInv => PlansKept
  BY PlansPromised DEF PlansKept
<1> QED BY <1>1, <1>2, <1>3, PTL DEF MCSpec

-----------------------------------------------------------------------------
(* Files and folders.  A move that walked up from its new parent came past *)
(* folders whose parents are among them, or are where it stands: the moved *)
(* folder is not one of them.  A file's object and its row are in step but *)
(* for the request that is between the two.                                *)

Steps == {"idle", "walk", "move", "drop", "insert", "undo", "remove", "mark"}
Places == Devices \cup {Root}

RequestType == [pc : Steps, folder : Places, at : Places, steps : Nat,
                to : Places, file : Uploads \cup {NoFile}]
RowType == [status : {"none", "ACTIVE", "DELETED"}, folder : Places,
            text : {"PENDING", "READY", "FAILED", "UNSUPPORTED"}]

\* Where a request stands it names what it is about.
Names(q) ==
  /\ q.pc \in {"walk", "move", "drop"} => q.folder \in Devices /\ q.file = NoFile
  /\ q.pc = "walk" => q.at # Root
  /\ q.pc = "move" => q.at = Root
  /\ q.pc \in {"insert", "undo", "remove", "mark"} => q.file \in Uploads

FilesTyped ==
  /\ parent \in [Devices -> Places \cup {Unmade, Gone}]
  /\ file \in [Uploads -> RowType]
  /\ \A x \in Uploads : Store!There(file[x].folder)
  /\ object \subseteq Uploads /\ reading \subseteq Uploads
  /\ upload \in [Workers -> RequestType]
  /\ \A r \in Workers : Names(upload[r])
  /\ crossing \in [crossed : BOOLEAN, cut : SUBSET Uploads]

\* The parent of a folder is there.
ParentsThere ==
  \A f \in Devices : parent[f] \in Devices => Store!There(parent[f])

\* What a move came past on its way from its new parent.
Clear(q) ==
  \E A \in SUBSET Devices :
    /\ q.folder \notin A /\ q.to \in A \cup {q.at}
    /\ \A g \in A : parent[g] \in A \cup {q.at, Root, Gone}

Moves(r) == upload[r].pc \in {"walk", "move"}
OneMove ==
  ~crossing.crossed =>
    \A r \in Workers : Moves(r) =>
      Clear(upload[r]) /\ \A s \in Workers : Moves(s) => s = r

FoldersInv == ParentsThere /\ OneMove /\ Store!MovesKeepTree

Adds(r, x) == upload[r].pc \in {"insert", "undo"} /\ upload[r].file = x
Removes(r, x) == upload[r].pc \in {"remove", "mark"} /\ upload[r].file = x
Marks(r, x) == upload[r].pc = "mark" /\ upload[r].file = x

\* Who adds a file is alone with it; one that marks it has removed the object.
Attended(x) ==
  /\ \A r \in Workers : Adds(r, x) =>
       /\ x \in object /\ file[x].status = "none"
       /\ \A s \in Workers : upload[s].file = x => s = r
  /\ \A r \in Workers : Removes(r, x) => file[x].status # "none"
  /\ \A r \in Workers : Marks(r, x) => x \notin object

\* Object and row are in step but for these two.
InStep(x) ==
  x \notin crossing.cut =>
    /\ x \in object => Store!Live(x) \/ \E r \in Workers : Adds(r, x)
    /\ Store!Live(x) => x \in object \/ \E r \in Workers : Marks(r, x)

ObjectsInv == \A x \in Uploads : Attended(x) /\ InStep(x)

FilesInv == FilesTyped /\ FoldersInv /\ ObjectsInv

LEMMA FilesInit == Store!Init => FilesInv
<1> SUFFICES ASSUME Store!Init PROVE FilesInv
  OBVIOUS
<1> USE FilesAssumption DEF Store!FileStoreAssumption, Store!Init
<1>1. FilesTyped
  <2>1. Store!Idle \in RequestType /\ Names(Store!Idle)
    BY DEF Store!Idle, RequestType, Steps, Places, Names
  <2>2. Store!NoRow \in RowType /\ Store!There(Root)
    BY DEF Store!NoRow, RowType, Places, Store!There
  <2> QED BY <2>1, <2>2 DEF FilesTyped, Store!NoRow
<1>2. FoldersInv
  BY DEF FoldersInv, ParentsThere, OneMove, Moves, Store!Idle, Store!MovesKeepTree,
     Store!FoldersFormTree
<1>3. ObjectsInv
  BY DEF ObjectsInv, Attended, InStep, Adds, Removes, Marks, Store!Idle,
     Store!Live, Store!NoRow
<1> QED BY <1>1, <1>2, <1>3 DEF FilesInv

\* A step of request r leaves the others where they are.
LEMMA Stands ==
  ASSUME FilesTyped, NEW r \in Workers, NEW q \in RequestType, Names(q),
         Store!Set(r, q)
  PROVE  /\ upload' \in [Workers -> RequestType] /\ upload'[r] = q
         /\ \A s \in Workers : s # r => upload'[s] = upload[s]
         /\ \A s \in Workers : Names(upload'[s])
BY DEF FilesTyped, Store!Set

\* Steps that are not about the folders ...
FoldersRest ==
  /\ UNCHANGED parent /\ crossing'.crossed = crossing.crossed
  /\ \A r \in Workers : Moves(r)' => Moves(r) /\ upload'[r] = upload[r]

LEMMA FoldersKept == ASSUME FilesInv, FoldersRest PROVE FoldersInv'
<1>1. ParentsThere' /\ Store!MovesKeepTree'
  BY DEF FilesInv, FoldersInv, FoldersRest, ParentsThere, Store!There,
     Store!MovesKeepTree, Store!FoldersFormTree
<1>2. OneMove'
  BY DEF FilesInv, FoldersInv, FoldersRest, OneMove, Clear
<1> QED BY <1>1, <1>2 DEF FoldersInv

\* ... and those that are not about the files.
ObjectsRest ==
  /\ UNCHANGED object /\ crossing'.cut = crossing.cut
  /\ \A x \in Uploads : file'[x].status = file[x].status
  /\ \A r \in Workers :
       \/ upload'[r].pc = upload[r].pc /\ upload'[r].file = upload[r].file
       \/ /\ {upload[r].pc, upload'[r].pc} \subseteq {"idle", "walk", "move", "drop"}
          /\ upload'[r].file = NoFile

LEMMA ObjectsKept == ASSUME FilesInv, ObjectsRest PROVE ObjectsInv'
<1> SUFFICES ASSUME NEW x \in Uploads PROVE (Attended(x) /\ InStep(x))'
  BY DEF ObjectsInv
<1>1. Attended(x) /\ InStep(x)
  BY DEF FilesInv, ObjectsInv
<1>2. \A r \in Workers : /\ Adds(r, x)' <=> Adds(r, x)
                         /\ Removes(r, x)' <=> Removes(r, x)
                         /\ Marks(r, x)' <=> Marks(r, x)
                         /\ upload'[r].file = x => upload[r].file = x
  BY FilesAssumption DEF Store!FileStoreAssumption, ObjectsRest, Adds, Removes, Marks
<1>3. Attended(x)'
  BY <1>1, <1>2 DEF Attended, ObjectsRest
<1>4. InStep(x)'
  BY <1>1, <1>2 DEF InStep, ObjectsRest, Store!Live
<1> QED BY <1>3, <1>4

\* A folder is made: nothing came past it, and no folder was under it.
LEMMA CreateFolderStep ==
  ASSUME FilesInv, NEW f \in Devices, NEW p \in Places, Store!CreateFolder(f, p)
  PROVE  FilesInv'
<1> USE FilesAssumption DEF Store!FileStoreAssumption
<1>1. /\ parent' = [parent EXCEPT ![f] = p] /\ parent[f] = Unmade
      /\ Store!There(p) /\ UNCHANGED <<file, object, reading, upload, crossing>>
  BY DEF Store!CreateFolder
<1>2. \A g : Store!There(g) => Store!There(g)'
  BY <1>1 DEF FilesInv, FilesTyped, Store!There, Places
<1>3. FilesTyped'
  BY <1>1, <1>2 DEF FilesInv, FilesTyped, Places
<1>4. ParentsThere'
  <2>1. \A g \in Devices : parent'[g] = parent[g] \/ parent'[g] = p
    BY <1>1 DEF FilesInv, FilesTyped
  <2> QED BY <2>1, <1>1, <1>2 DEF FilesInv, FoldersInv, ParentsThere
<1>5. ASSUME NEW g \in Devices PROVE parent[g] # f
  BY <1>1 DEF FilesInv, FoldersInv, ParentsThere, Store!There, Places
<1>6. Store!MovesKeepTree'
  <2> SUFFICES ASSUME Store!FoldersFormTree, NEW S \in SUBSET Devices, S # {}
               PROVE  \E g \in S : parent'[g] \notin S
    BY <1>1 DEF FilesInv, FoldersInv, Store!MovesKeepTree, Store!FoldersFormTree
  <2>1. CASE S = {f}
    <3>1. parent'[f] = p /\ p # f
      BY <1>1 DEF FilesInv, FilesTyped, Store!There, Places
    <3> QED BY <2>1, <3>1
  <2>2. CASE S # {f}
    <3>1. PICK g \in S \ {f} : parent[g] \notin S \ {f}
      BY <2>2 DEF Store!FoldersFormTree
    <3>2. parent'[g] = parent[g] /\ parent[g] # f
      BY <1>1, <1>5, <3>1 DEF FilesInv, FilesTyped
    <3> QED BY <3>1, <3>2
  <2> QED BY <2>1, <2>2
<1>7. OneMove'
  <2>1. ASSUME NEW q \in RequestType, Clear(q) PROVE Clear(q)'
    <3>1. PICK A \in SUBSET Devices :
            /\ q.folder \notin A /\ q.to \in A \cup {q.at}
            /\ \A g \in A : parent[g] \in A \cup {q.at, Root, Gone}
      BY <2>1 DEF Clear
    <3>2. CASE f \notin A
      BY <1>1, <3>1, <3>2 DEF Clear, FilesInv, FilesTyped
    <3>3. CASE f \in A
      BY <3>1, <3>3, <1>1 DEF RequestType, Places
    <3> QED BY <3>2, <3>3
  <2> QED BY <2>1, <1>1 DEF FilesInv, FilesTyped, FoldersInv, OneMove, Moves
<1>8. ObjectsInv'
  BY <1>1, ObjectsKept DEF ObjectsRest
<1> QED BY <1>3, <1>4, <1>6, <1>7, <1>8 DEF FilesInv, FoldersInv

\* A move begins where nothing was come past; if others move, it is known.
LEMMA BeginMoveStep ==
  ASSUME FilesInv, NEW r \in Workers, NEW f \in Devices, NEW p \in Places,
         Store!BeginMove(r, f, p)
  PROVE  FilesInv'
<1> USE FilesAssumption DEF Store!FileStoreAssumption
<1> DEFINE q == [Store!Idle EXCEPT !.pc = IF p = Root THEN "move" ELSE "walk",
                                   !.folder = f, !.at = p, !.to = p]
<1>1. /\ Store!Set(r, q) /\ crossing' = [crossing EXCEPT !.crossed = @ \/ Store!Moving # {}]
      /\ upload[r].pc = "idle" /\ UNCHANGED <<parent, object, reading, file>>
  BY DEF Store!BeginMove, Store!Free
<1>2. /\ q \in RequestType /\ Names(q) /\ q.file = NoFile
      /\ q.pc \in {"walk", "move"} /\ q.to = q.at
  BY DEF Store!Idle, RequestType, Steps, Places, Names
<1> HIDE DEF q
<1>3. /\ upload' \in [Workers -> RequestType] /\ upload'[r] = q
      /\ \A s \in Workers : s # r => upload'[s] = upload[s]
      /\ \A s \in Workers : Names(upload'[s])
  BY <1>1, <1>2, Stands DEF FilesInv
<1>4. /\ crossing' \in [crossed : BOOLEAN, cut : SUBSET Uploads]
      /\ crossing'.cut = crossing.cut
      /\ ~crossing'.crossed => ~crossing.crossed /\ \A s \in Workers : ~Moves(s)
  BY <1>1 DEF FilesInv, FilesTyped, Store!Moving, Moves
<1>5. FilesTyped'
  BY <1>1, <1>3, <1>4 DEF FilesInv, FilesTyped, Store!There
<1>6. ParentsThere' /\ Store!MovesKeepTree'
  BY <1>1, <1>4 DEF FilesInv, FoldersInv, ParentsThere, Store!There,
     Store!MovesKeepTree, Store!FoldersFormTree
<1>7. Clear(q)
  BY <1>2 DEF Clear
<1>8. OneMove'
  <2>1. Clear(q)'
    BY <1>7, <1>1 DEF Clear, q
  <2> QED BY <2>1, <1>3, <1>4 DEF OneMove, Moves
<1>9. ObjectsInv'
  BY <1>1, <1>2, <1>3, <1>4, ObjectsKept DEF ObjectsRest
<1> QED BY <1>5, <1>6, <1>8, <1>9 DEF FilesInv, FoldersInv

\* One step of a walk.
Up(q, p, n, pc) == [q EXCEPT !.at = p, !.steps = n, !.pc = pc]

LEMMA OneUp ==
  ASSUME NEW q \in RequestType, NEW p \in Places, NEW n \in Nat, NEW pc \in Steps
  PROVE  /\ Up(q, p, n, pc) \in RequestType
         /\ Up(q, p, n, pc).pc = pc /\ Up(q, p, n, pc).at = p
         /\ Up(q, p, n, pc).file = q.file /\ Up(q, p, n, pc).to = q.to
         /\ Up(q, p, n, pc).folder = q.folder
BY DEF RequestType, Up

\* The walk has come past the folder it stood at.
LEMMA WalkStep ==
  ASSUME FilesInv, NEW r \in Workers, Store!Walk(r)
  PROVE  FilesInv'
<1> USE FilesAssumption DEF Store!FileStoreAssumption
<1> DEFINE at == upload[r].at
<1>1. /\ upload[r].pc = "walk" /\ at \in Devices /\ upload[r] \in RequestType
      /\ upload[r].file = NoFile
      /\ UNCHANGED <<parent, object, reading, file, crossing, filesLeft>>
  BY DEF FilesInv, FilesTyped, Names, Store!Walk, RequestType, Places
<1>2. CASE Store!Set(r, Store!Idle)
  <2>1. Store!Idle \in RequestType /\ Names(Store!Idle)
    BY DEF Store!Idle, RequestType, Steps, Places, Names
  <2>2. /\ upload' \in [Workers -> RequestType] /\ upload'[r] = Store!Idle
        /\ \A s \in Workers : s # r => upload'[s] = upload[s]
        /\ \A s \in Workers : Names(upload'[s])
    BY <1>2, <2>1, Stands DEF FilesInv
  <2>3. FilesTyped'
    BY <1>1, <2>2 DEF FilesInv, FilesTyped, Store!There
  <2>4. FoldersInv'
    BY <1>1, <2>2, FoldersKept DEF FoldersRest, Moves, Store!Idle
  <2>5. ObjectsInv'
    BY <1>1, <2>2, ObjectsKept DEF ObjectsRest, Store!Idle
  <2> QED BY <2>3, <2>4, <2>5 DEF FilesInv
<1>3. CASE ~Store!Set(r, Store!Idle)
  <2> DEFINE q == [upload[r] EXCEPT !.at = parent[at], !.steps = @ + 1,
                     !.pc = IF parent[at] = Root THEN "move" ELSE "walk"]
  <2>1. Store!Set(r, q) /\ ~Store!Closes(r) /\ Store!There(at)
    BY <1>3 DEF Store!Walk
  <2>2. parent[at] \in Places /\ upload[r].folder # at
    BY <1>1, <2>1 DEF FilesInv, FilesTyped, Store!There, Store!Closes, Places
  <2>3. /\ q \in RequestType /\ Names(q) /\ q.file = NoFile
        /\ q.pc \in {"walk", "move"} /\ q.to = upload[r].to
        /\ q.at = parent[at] /\ q.folder = upload[r].folder
    <3>1. /\ q \in RequestType /\ q.file = NoFile
          /\ q.pc = (IF parent[at] = Root THEN "move" ELSE "walk")
          /\ q.to = upload[r].to /\ q.at = parent[at]
          /\ q.folder = upload[r].folder
      <4> DEFINE pc == IF parent[at] = Root THEN "move" ELSE "walk"
                 n == upload[r].steps + 1
      <4>1. pc \in Steps /\ n \in Nat
        BY <1>1 DEF RequestType, Steps
      <4>2. q = Up(upload[r], parent[at], n, pc)
        BY Zenon DEF pc, Up
      <4> HIDE DEF q, n, pc
      <4>3. /\ q \in RequestType /\ q.pc = pc /\ q.at = parent[at]
            /\ q.file = upload[r].file /\ q.to = upload[r].to
            /\ q.folder = upload[r].folder
        BY <1>1, <2>2, <4>1, <4>2, OneUp
      <4> QED BY <1>1, <4>3, Zenon DEF pc
    <3>2. upload[r].folder \in Devices
      BY <1>1 DEF FilesInv, FilesTyped, Names
    <3> HIDE DEF q
    <3> QED BY <3>1, <3>2 DEF Names
  <2> HIDE DEF q
  <2>4. /\ upload' \in [Workers -> RequestType] /\ upload'[r] = q
        /\ \A s \in Workers : s # r => upload'[s] = upload[s]
        /\ \A s \in Workers : Names(upload'[s])
    BY <2>1, <2>3, Stands DEF FilesInv
  <2>5. FilesTyped'
    BY <1>1, <2>4 DEF FilesInv, FilesTyped, Store!There
  <2>6. ParentsThere' /\ Store!MovesKeepTree'
    BY <1>1 DEF FilesInv, FoldersInv, ParentsThere, Store!There,
       Store!MovesKeepTree, Store!FoldersFormTree
  <2>7. ASSUME Clear(upload[r]) PROVE Clear(q)
    <3>1. PICK A \in SUBSET Devices :
            /\ upload[r].folder \notin A /\ upload[r].to \in A \cup {at}
            /\ \A g \in A : parent[g] \in A \cup {at, Root, Gone}
      BY <2>7 DEF Clear
    <3> DEFINE B == A \cup {at}
    <3>2. /\ B \in SUBSET Devices /\ q.folder \notin B /\ q.to \in B \cup {q.at}
          /\ \A g \in B : parent[g] \in B \cup {q.at, Root, Gone}
      BY <1>1, <2>2, <2>3, <3>1
    <3> QED BY <3>2 DEF Clear
  <2>8. OneMove'
    <3>1. ASSUME NEW s \in Workers, Clear(upload[s]), s # r PROVE Clear(upload[s])'
      BY <3>1, <1>1, <2>4 DEF Clear
    <3>2. Clear(q) => Clear(upload[r])'
      BY <1>1, <2>4 DEF Clear
    <3> QED BY <3>1, <3>2, <1>1, <2>3, <2>4, <2>7 DEF FilesInv, FoldersInv, OneMove, Moves
  <2>9. ObjectsInv'
    BY <1>1, <2>3, <2>4, ObjectsKept DEF ObjectsRest
  <2> QED BY <2>5, <2>6, <2>8, <2>9 DEF FilesInv, FoldersInv
<1> QED BY <1>2, <1>3

\* What the move came past leads to the root or to what is gone, and the moved
\* folder is not of it: hung below it, it closes no circle.
LEMMA MoveStep ==
  ASSUME FilesInv, NEW r \in Workers, Store!Move(r)
  PROVE  FilesInv'
<1> USE FilesAssumption DEF Store!FileStoreAssumption
<1> DEFINE f == upload[r].folder
           p == upload[r].to
<1>1. /\ upload[r].pc = "move" /\ upload[r].at = Root /\ f \in Devices /\ p \in Places
      /\ upload[r].file = NoFile
      /\ parent' = IF Store!There(f) /\ Store!There(p)
                   THEN [parent EXCEPT ![f] = p] ELSE parent
      /\ Store!Set(r, Store!Idle)
      /\ UNCHANGED <<object, reading, file, crossing>>
  BY DEF FilesInv, FilesTyped, Names, Store!Move, RequestType, Places
<1>2. Store!Idle \in RequestType /\ Names(Store!Idle)
  BY DEF Store!Idle, RequestType, Steps, Places, Names
<1>3. /\ upload' \in [Workers -> RequestType] /\ upload'[r] = Store!Idle
      /\ \A s \in Workers : s # r => upload'[s] = upload[s]
      /\ \A s \in Workers : Names(upload'[s])
  BY <1>1, <1>2, Stands DEF FilesInv
<1>4. \A g : Store!There(g) => Store!There(g)'
  BY <1>1 DEF FilesInv, FilesTyped, Store!There, Places
<1>5. FilesTyped'
  BY <1>1, <1>3, <1>4 DEF FilesInv, FilesTyped, Places
<1>6. ParentsThere'
  <2>1. \A g \in Devices : \/ parent'[g] = parent[g]
                           \/ parent'[g] = p /\ Store!There(p)
    BY <1>1 DEF FilesInv, FilesTyped
  <2> QED BY <2>1, <1>4 DEF FilesInv, FoldersInv, ParentsThere
<1>7. OneMove'
  BY <1>1, <1>3 DEF FilesInv, FoldersInv, OneMove, Moves, Store!Idle
<1>8. Store!MovesKeepTree'
  <2> SUFFICES ASSUME ~crossing.crossed, parent' = [parent EXCEPT ![f] = p],
                      NEW S \in SUBSET Devices, S # {}
               PROVE  \E g \in S : parent'[g] \notin S
    BY <1>1 DEF FilesInv, FoldersInv, Store!MovesKeepTree, Store!FoldersFormTree
  <2>1. Store!FoldersFormTree /\ Clear(upload[r])
    BY <1>1 DEF FilesInv, FoldersInv, OneMove, Moves, Store!MovesKeepTree
  <2>2. PICK A \in SUBSET Devices :
          /\ f \notin A /\ p \in A \cup {Root}
          /\ \A g \in A : parent[g] \in A \cup {Root, Gone}
    BY <2>1, <1>1 DEF Clear
  <2>3. /\ parent'[f] = p
        /\ \A g \in Devices : g # f => parent'[g] = parent[g]
    BY <1>1 DEF FilesInv, FilesTyped
  <2>4. CASE f \notin S
    <3>1. PICK g \in S : parent[g] \notin S
      BY <2>1 DEF Store!FoldersFormTree
    <3> QED BY <2>3, <2>4, <3>1
  <2>5. CASE f \in S /\ p \notin S
    BY <2>3, <2>5
  <2>6. CASE f \in S /\ p \in S
    <3>1. p \in S \cap A
      BY <2>2, <2>6
    <3>2. PICK g \in S \cap A : parent[g] \notin S \cap A
      BY <2>1, <3>1 DEF Store!FoldersFormTree
    <3>3. parent'[g] = parent[g] /\ parent[g] \in A \cup {Root, Gone}
      BY <2>2, <2>3, <3>2
    <3>4. parent[g] \notin S
      BY <3>2, <3>3
    <3> QED BY <3>2, <3>3, <3>4
  <2> QED BY <2>4, <2>5, <2>6
<1>9. ObjectsInv'
  BY <1>1, <1>3, ObjectsKept DEF ObjectsRest, Store!Idle
<1> QED BY <1>5, <1>6, <1>7, <1>8, <1>9 DEF FilesInv, FoldersInv

\* A look for children changes nothing.
LEMMA BeginDropStep ==
  ASSUME FilesInv, NEW r \in Workers, NEW f \in Devices, Store!BeginDrop(r, f)
  PROVE  FilesInv'
<1> USE FilesAssumption DEF Store!FileStoreAssumption
<1> DEFINE q == [Store!Idle EXCEPT !.pc = "drop", !.folder = f]
<1>1. /\ upload[r].pc = "idle" /\ Store!Set(r, q)
      /\ UNCHANGED <<parent, object, reading, file, crossing>>
  BY DEF Store!BeginDrop, Store!Free
<1>2. q \in RequestType /\ Names(q) /\ q.file = NoFile /\ q.pc = "drop"
  BY DEF Store!Idle, RequestType, Steps, Places, Names
<1> HIDE DEF q
<1>3. /\ upload' \in [Workers -> RequestType] /\ upload'[r] = q
      /\ \A s \in Workers : s # r => upload'[s] = upload[s]
      /\ \A s \in Workers : Names(upload'[s])
  BY <1>1, <1>2, Stands DEF FilesInv
<1>4. FilesTyped'
  BY <1>1, <1>3 DEF FilesInv, FilesTyped, Store!There
<1>5. FoldersInv'
  BY <1>1, <1>2, <1>3, FoldersKept DEF FoldersRest, Moves
<1>6. ObjectsInv'
  BY <1>1, <1>2, <1>3, ObjectsKept DEF ObjectsRest
<1> QED BY <1>4, <1>5, <1>6 DEF FilesInv

\* What was below the folder that goes, and in it, is at the root.
LEMMA DropStep ==
  ASSUME FilesInv, NEW r \in Workers, Store!Drop(r)
  PROVE  FilesInv'
<1> USE FilesAssumption DEF Store!FileStoreAssumption
<1> DEFINE f == upload[r].folder
<1>1. /\ upload[r].pc = "drop" /\ f \in Devices /\ upload[r].file = NoFile
      /\ parent' = [g \in Devices |-> IF g = f THEN Gone
                      ELSE IF parent[g] = f THEN Root ELSE parent[g]]
      /\ file' = [x \in Uploads |-> IF file[x].folder = f
                   THEN [file[x] EXCEPT !.folder = Root] ELSE file[x]]
      /\ Store!Set(r, Store!Idle)
      /\ UNCHANGED <<object, reading, crossing>>
  BY DEF FilesInv, FilesTyped, Names, Store!Drop
<1>2. Store!Idle \in RequestType /\ Names(Store!Idle)
  BY DEF Store!Idle, RequestType, Steps, Places, Names
<1>3. /\ upload' \in [Workers -> RequestType] /\ upload'[r] = Store!Idle
      /\ \A s \in Workers : s # r => upload'[s] = upload[s]
      /\ \A s \in Workers : Names(upload'[s])
  BY <1>1, <1>2, Stands DEF FilesInv
<1>4. \A g \in Places : Store!There(g) /\ g # f => Store!There(g)'
  BY <1>1 DEF FilesInv, FilesTyped, Store!There, Places
<1>5. FilesTyped'
  <2>1. parent' \in [Devices -> Places \cup {Unmade, Gone}]
    BY <1>1 DEF FilesInv, FilesTyped, Places
  <2>2. file' \in [Uploads -> RowType]
    BY <1>1 DEF FilesInv, FilesTyped, RowType, Places
  <2>3. ASSUME NEW x \in Uploads PROVE Store!There(file[x].folder)'
    <3>1. /\ file[x].folder \in Places /\ Store!There(file[x].folder)
          /\ file[x] \in RowType
      BY DEF FilesInv, FilesTyped, RowType
    <3>2. file'[x].folder = IF file[x].folder = f THEN Root ELSE file[x].folder
      BY <1>1, <3>1 DEF RowType
    <3>3. CASE file[x].folder = f
      BY <3>2, <3>3 DEF Store!There
    <3>4. CASE file[x].folder # f
      BY <3>1, <3>2, <3>4, <1>4
    <3> QED BY <3>3, <3>4
  <2> QED BY <2>1, <2>2, <2>3, <1>1, <1>3 DEF FilesInv, FilesTyped
<1>6. ParentsThere'
  <2>1. \A g \in Devices : parent'[g] \in Devices =>
          parent'[g] = parent[g] /\ parent[g] # f
    BY <1>1
  <2> QED BY <2>1, <1>4 DEF FilesInv, FoldersInv, ParentsThere, Places
<1>7. OneMove'
  <2>1. ASSUME NEW q, Clear(q) PROVE Clear(q)'
    <3>1. PICK A \in SUBSET Devices :
            /\ q.folder \notin A /\ q.to \in A \cup {q.at}
            /\ \A g \in A : parent[g] \in A \cup {q.at, Root, Gone}
      BY <2>1 DEF Clear
    <3>2. \A g \in A : parent'[g] \in {parent[g], Root, Gone}
      BY <1>1
    <3>3. \A g \in A : parent'[g] \in A \cup {q.at, Root, Gone}
      BY <3>1, <3>2
    <3> QED BY <3>1, <3>3 DEF Clear
  <2>2. \A s \in Workers : Moves(s)' => Moves(s) /\ upload'[s] = upload[s]
    BY <1>3 DEF Moves, Store!Idle
  <2> QED BY <2>1, <2>2, <1>1 DEF FilesInv, FoldersInv, OneMove
<1>8. Store!MovesKeepTree'
  <2> SUFFICES ASSUME Store!FoldersFormTree, NEW S \in SUBSET Devices, S # {}
               PROVE  \E g \in S : parent'[g] \notin S
    BY <1>1 DEF FilesInv, FoldersInv, Store!MovesKeepTree, Store!FoldersFormTree
  <2>1. PICK g \in S : parent[g] \notin S
    BY DEF Store!FoldersFormTree
  <2>2. parent'[g] \in {parent[g], Root, Gone}
    BY <1>1, <2>1
  <2> QED BY <2>1, <2>2
<1>9. ObjectsInv'
  <2>1. \A x \in Uploads : file'[x].status = file[x].status
    BY <1>1 DEF FilesInv, FilesTyped, RowType
  <2> QED BY <1>1, <1>3, <2>1, ObjectsKept DEF ObjectsRest, Store!Idle
<1> QED BY <1>5, <1>6, <1>7, <1>8, <1>9 DEF FilesInv, FoldersInv

-----------------------------------------------------------------------------
(* A step of request r about file x, after which it stands at q.           *)

About(r, q, x) ==
  /\ q \in RequestType /\ Names(q) /\ q.pc \notin {"walk", "move", "drop"}
  /\ q.file \in {x, NoFile} /\ Store!Set(r, q)
  /\ upload[r].file = x \/ upload[r].pc = "idle"
  /\ UNCHANGED parent /\ crossing'.crossed = crossing.crossed
  /\ crossing.cut \subseteq crossing'.cut
  /\ \A y \in Uploads \ {x} : /\ y \in object' <=> y \in object
                              /\ file'[y].status = file[y].status

LEMMA Stays ==
  ASSUME FilesInv, NEW r \in Workers, NEW q, NEW x \in Uploads, About(r, q, x)
  PROVE  /\ upload' \in [Workers -> RequestType] /\ upload'[r] = q
         /\ \A s \in Workers : s # r => upload'[s] = upload[s]
         /\ \A s \in Workers : Names(upload'[s])
         /\ FoldersInv'
         /\ \A y \in Uploads \ {x} : Attended(y)' /\ InStep(y)'
<1> USE FilesAssumption DEF Store!FileStoreAssumption
<1>1. /\ upload' \in [Workers -> RequestType] /\ upload'[r] = q
      /\ \A s \in Workers : s # r => upload'[s] = upload[s]
      /\ \A s \in Workers : Names(upload'[s])
  BY Stands DEF FilesInv, About
<1>2. FoldersInv'
  BY <1>1, FoldersKept DEF About, FoldersRest, Moves
<1>3. ASSUME NEW y \in Uploads \ {x} PROVE Attended(y)' /\ InStep(y)'
  <2>1. Attended(y) /\ InStep(y)
    BY DEF FilesInv, ObjectsInv
  <2>2. \A s \in Workers : /\ Adds(s, y)' <=> Adds(s, y)
                           /\ Removes(s, y)' <=> Removes(s, y)
                           /\ Marks(s, y)' <=> Marks(s, y)
                           /\ upload'[s].file = y => upload[s].file = y
    BY <1>1, <1>3 DEF About, Adds, Removes, Marks
  <2>3. /\ y \in object' <=> y \in object
        /\ file'[y].status = file[y].status
    BY <1>3 DEF About
  <2>4. Attended(y)'
    BY <2>1, <2>2, <2>3 DEF Attended
  <2>5. InStep(y)'
    BY <2>1, <2>2, <2>3 DEF InStep, Store!Live, About
  <2> QED BY <2>4, <2>5
<1> QED BY <1>1, <1>2, <1>3

\* The object comes first ...
LEMMA UploadStep ==
  ASSUME FilesInv, NEW r \in Workers, NEW x \in Uploads, NEW p \in Places,
         Store!Upload(r, x, p)
  PROVE  FilesInv'
<1> USE FilesAssumption DEF Store!FileStoreAssumption
<1> DEFINE q == [Store!Idle EXCEPT !.pc = "insert", !.file = x, !.folder = p]
<1>1. /\ upload[r].pc = "idle" /\ file[x].status = "none" /\ x \notin object
      /\ \A s \in Workers : upload[s].file # x
      /\ Store!Set(r, q) /\ object' = object \cup {x}
      /\ UNCHANGED <<parent, file, reading, crossing>>
  BY DEF Store!Upload, Store!Free, Store!NoRow
<1>2. q \in RequestType /\ q.pc = "insert" /\ q.file = x /\ Names(q)
  BY DEF Store!Idle, RequestType, Steps, Places, Names
<1> HIDE DEF q
<1>3. About(r, q, x)
  BY <1>1, <1>2 DEF About
<1>4. /\ upload' \in [Workers -> RequestType] /\ upload'[r] = q
      /\ \A s \in Workers : s # r => upload'[s] = upload[s]
      /\ \A s \in Workers : Names(upload'[s])
      /\ FoldersInv'
      /\ \A y \in Uploads \ {x} : Attended(y)' /\ InStep(y)'
  BY <1>3, Stays
<1>5. FilesTyped'
  BY <1>1, <1>4 DEF FilesInv, FilesTyped, Store!There
<1>6. Attended(x)'
  BY <1>1, <1>2, <1>4 DEF Attended, Adds, Removes, Marks
<1>7. InStep(x)'
  BY <1>1, <1>2, <1>4 DEF InStep, Adds, Marks, Store!Live
<1> QED BY <1>4, <1>5, <1>6, <1>7 DEF FilesInv, ObjectsInv

\* ... then the row, or the object goes again.
LEMMA InsertStep ==
  ASSUME FilesInv, NEW r \in Workers,
         Store!Insert(r) \/ Store!InsertFails(r) \/ Store!Undo(r)
  PROVE  FilesInv'
<1> USE FilesAssumption DEF Store!FileStoreAssumption
<1>0. PICK x \in Uploads, p \in Places :
        x = upload[r].file /\ p = upload[r].folder
  BY DEF FilesInv, FilesTyped, RequestType, Names, Store!Insert,
     Store!InsertFails, Store!Undo
<1>1. /\ upload[r] \in RequestType /\ x = upload[r].file /\ p = upload[r].folder
      /\ Adds(r, x) /\ UNCHANGED <<parent, crossing>>
  BY <1>0 DEF FilesInv, FilesTyped, Adds, Store!Insert, Store!InsertFails, Store!Undo
<1>2. /\ x \in object /\ file[x].status = "none"
      /\ \A s \in Workers : upload[s].file = x => s = r
  BY <1>1 DEF FilesInv, ObjectsInv, Attended
<1>3. Store!Idle \in RequestType /\ Names(Store!Idle) /\ Store!Idle.pc = "idle"
      /\ Store!Idle.file = NoFile
  BY DEF Store!Idle, RequestType, Steps, Places, Names
<1>4. CASE /\ Store!There(p) /\ UNCHANGED object
           /\ file' = [file EXCEPT ![x] = [status |-> "ACTIVE", folder |-> p,
                                           text |-> "PENDING"]]
           /\ reading' = reading \cup {x} /\ Store!Set(r, Store!Idle)
  <2>1. /\ file' \in [Uploads -> RowType] /\ file'[x].status = "ACTIVE"
        /\ file'[x].folder = p
        /\ \A y \in Uploads \ {x} : file'[y] = file[y]
    BY <1>1, <1>4 DEF FilesInv, FilesTyped, RowType
  <2>2. About(r, Store!Idle, x)
    BY <1>1, <1>3, <1>4, <2>1 DEF About
  <2>3. /\ upload' \in [Workers -> RequestType] /\ upload'[r] = Store!Idle
        /\ \A s \in Workers : s # r => upload'[s] = upload[s]
        /\ \A s \in Workers : Names(upload'[s])
        /\ FoldersInv'
        /\ \A y \in Uploads \ {x} : Attended(y)' /\ InStep(y)'
    BY <1>1, <2>2, Stays
  <2>4. FilesTyped'
    BY <1>1, <1>4, <2>1, <2>3 DEF FilesInv, FilesTyped, Store!There
  <2>5. \A s \in Workers : upload'[s].file # x
    BY <1>1, <1>2, <1>3, <2>3
  <2>6. (Attended(x) /\ InStep(x))'
    BY <1>2, <1>4, <2>1, <2>5 DEF Attended, InStep, Adds, Removes, Marks, Store!Live
  <2>7. ObjectsInv'
    BY <2>3, <2>6 DEF ObjectsInv
  <2> QED BY <2>3, <2>4, <2>7 DEF FilesInv
<1>5. CASE /\ Store!Set(r, [upload[r] EXCEPT !.pc = "undo"])
           /\ UNCHANGED <<file, reading, object>>
  <2> DEFINE q == [upload[r] EXCEPT !.pc = "undo"]
  <2>1. q \in RequestType /\ q.pc = "undo" /\ q.file = x
    BY <1>1 DEF RequestType, Steps
  <2> HIDE DEF q
  <2>2. About(r, q, x)
    BY <1>1, <1>5, <2>1 DEF About, Names, q
  <2>3. /\ upload' \in [Workers -> RequestType] /\ upload'[r] = q
        /\ \A s \in Workers : s # r => upload'[s] = upload[s]
        /\ \A s \in Workers : Names(upload'[s])
        /\ FoldersInv'
        /\ \A y \in Uploads \ {x} : Attended(y)' /\ InStep(y)'
    BY <1>1, <2>2, Stays
  <2>4. FilesTyped'
    BY <1>1, <1>5, <2>3 DEF FilesInv, FilesTyped, Store!There
  <2>5. \A s \in Workers : upload'[s].file = x => s = r
    BY <1>2, <2>3
  <2>6. (Attended(x) /\ InStep(x))'
    BY <1>1, <1>2, <1>5, <2>1, <2>3, <2>5
    DEF Attended, InStep, Adds, Removes, Marks, Store!Live
  <2>7. ObjectsInv'
    BY <2>3, <2>6 DEF ObjectsInv
  <2> QED BY <2>3, <2>4, <2>7 DEF FilesInv
<1>6. CASE /\ object' = object \ {x} /\ Store!Set(r, Store!Idle)
           /\ UNCHANGED <<file, reading>>
  <2>1. About(r, Store!Idle, x)
    BY <1>1, <1>3, <1>6 DEF About
  <2>2. /\ upload' \in [Workers -> RequestType] /\ upload'[r] = Store!Idle
        /\ \A s \in Workers : s # r => upload'[s] = upload[s]
        /\ \A s \in Workers : Names(upload'[s])
        /\ FoldersInv'
        /\ \A y \in Uploads \ {x} : Attended(y)' /\ InStep(y)'
    BY <1>1, <2>1, Stays
  <2>3. FilesTyped'
    BY <1>1, <1>6, <2>2 DEF FilesInv, FilesTyped, Store!There
  <2>4. \A s \in Workers : upload'[s].file # x
    BY <1>1, <1>2, <1>3, <2>2
  <2>5. (Attended(x) /\ InStep(x))'
    BY <1>2, <1>6, <2>4 DEF Attended, InStep, Adds, Removes, Marks, Store!Live
  <2>6. ObjectsInv'
    BY <2>2, <2>5 DEF ObjectsInv
  <2> QED BY <2>2, <2>3, <2>6 DEF FilesInv
<1> QED BY <1>1, <1>4, <1>5, <1>6 DEF Store!Insert, Store!InsertFails, Store!Undo,
        Store!Kept

\* A delete takes the object and then marks the row.
LEMMA DeleteStep ==
  ASSUME FilesInv, NEW r \in Workers, NEW x \in Uploads,
         \/ Store!BeginDelete(r, x)
         \/ /\ x = upload[r].file
            /\ Store!Remove(r) \/ Store!RemoveFails(r) \/ Store!Mark(r)
  PROVE  FilesInv'
<1> USE FilesAssumption DEF Store!FileStoreAssumption
<1>1. UNCHANGED <<parent, reading, crossing>> /\ upload[r] \in RequestType
  BY DEF FilesInv, FilesTyped, Store!BeginDelete, Store!Remove, Store!RemoveFails,
     Store!Mark
<1>2. Store!Idle \in RequestType /\ Names(Store!Idle) /\ Store!Idle.pc = "idle"
      /\ Store!Idle.file = NoFile
  BY DEF Store!Idle, RequestType, Steps, Places, Names
<1>3. Attended(x) /\ InStep(x)
  BY DEF FilesInv, ObjectsInv
<1>4. CASE Store!BeginDelete(r, x)
  <2> DEFINE q == [Store!Idle EXCEPT !.pc = "remove", !.file = x]
  <2>1. /\ upload[r].pc = "idle" /\ Store!Live(x) /\ Store!Set(r, q)
        /\ UNCHANGED <<object, file>>
    BY <1>4 DEF Store!BeginDelete, Store!Free
  <2>2. q \in RequestType /\ Names(q) /\ q.pc = "remove" /\ q.file = x
    BY DEF Store!Idle, RequestType, Steps, Places, Names
  <2> HIDE DEF q
  <2>3. About(r, q, x)
    BY <1>1, <2>1, <2>2 DEF About
  <2>4. /\ upload' \in [Workers -> RequestType] /\ upload'[r] = q
        /\ \A s \in Workers : s # r => upload'[s] = upload[s]
        /\ \A s \in Workers : Names(upload'[s])
        /\ FoldersInv'
        /\ \A y \in Uploads \ {x} : Attended(y)' /\ InStep(y)'
    BY <2>3, Stays
  <2>5. FilesTyped'
    BY <1>1, <2>1, <2>4 DEF FilesInv, FilesTyped, Store!There
  <2>6. \A s \in Workers : /\ ~Adds(s, x) /\ ~Adds(s, x)'
                           /\ Marks(s, x)' <=> Marks(s, x)
    BY <1>3, <2>1, <2>2, <2>4 DEF Attended, Adds, Marks, Store!Live
  <2>7. (Attended(x) /\ InStep(x))'
    BY <1>1, <1>3, <2>1, <2>6 DEF Attended, InStep, Store!Live
  <2>8. ObjectsInv'
    BY <2>4, <2>7 DEF ObjectsInv
  <2> QED BY <2>4, <2>5, <2>8 DEF FilesInv
<1>5. CASE x = upload[r].file /\ Store!Remove(r)
  <2> DEFINE q == [upload[r] EXCEPT !.pc = "mark"]
  <2>1. /\ Removes(r, x) /\ Store!Set(r, q) /\ object' = object \ {x}
        /\ UNCHANGED file
    BY <1>5 DEF Store!Remove, Removes
  <2>2. q \in RequestType /\ q.pc = "mark" /\ q.file = x
    BY <1>1, <1>5 DEF RequestType, Steps
  <2> HIDE DEF q
  <2>3. About(r, q, x)
    BY <1>1, <1>5, <2>1, <2>2 DEF About, Names
  <2>4. /\ upload' \in [Workers -> RequestType] /\ upload'[r] = q
        /\ \A s \in Workers : s # r => upload'[s] = upload[s]
        /\ \A s \in Workers : Names(upload'[s])
        /\ FoldersInv'
        /\ \A y \in Uploads \ {x} : Attended(y)' /\ InStep(y)'
    BY <2>3, Stays
  <2>5. FilesTyped'
    BY <1>1, <2>1, <2>4 DEF FilesInv, FilesTyped, Store!There
  <2>6. file[x].status # "none" /\ \A s \in Workers : ~Adds(s, x) /\ ~Adds(s, x)'
    BY <1>3, <2>1, <2>2, <2>4 DEF Attended, Adds
  <2>7. Marks(r, x)' /\ x \notin object'
    BY <2>1, <2>2, <2>4 DEF Marks
  <2>8. (Attended(x) /\ InStep(x))'
    BY <2>1, <2>6, <2>7 DEF Attended, InStep, Store!Live
  <2>9. ObjectsInv'
    BY <2>4, <2>8 DEF ObjectsInv
  <2> QED BY <2>4, <2>5, <2>9 DEF FilesInv
<1>6. CASE x = upload[r].file /\ (Store!RemoveFails(r) \/ Store!Mark(r))
  <2>1. /\ Removes(r, x) /\ Store!Set(r, Store!Idle) /\ UNCHANGED object
        /\ \/ Marks(r, x) /\ file' = [file EXCEPT ![x].status = "DELETED"]
           \/ ~Marks(r, x) /\ UNCHANGED file
    BY <1>6 DEF Store!RemoveFails, Store!Mark, Store!OnRefusal, Removes, Marks
  <2>2. /\ file' \in [Uploads -> RowType]
        /\ \A y \in Uploads : file'[y].folder = file[y].folder
        /\ \A y \in Uploads \ {x} : file'[y].status = file[y].status
        /\ Marks(r, x) => file'[x].status = "DELETED"
        /\ ~Marks(r, x) => file'[x].status = file[x].status
    BY <2>1 DEF FilesInv, FilesTyped, RowType
  <2>3. About(r, Store!Idle, x)
    BY <1>1, <1>2, <1>6, <2>1, <2>2 DEF About
  <2>4. /\ upload' \in [Workers -> RequestType] /\ upload'[r] = Store!Idle
        /\ \A s \in Workers : s # r => upload'[s] = upload[s]
        /\ \A s \in Workers : Names(upload'[s])
        /\ FoldersInv'
        /\ \A y \in Uploads \ {x} : Attended(y)' /\ InStep(y)'
    BY <2>3, Stays
  <2>5. FilesTyped'
    BY <1>1, <2>1, <2>2, <2>4 DEF FilesInv, FilesTyped, Store!There
  <2>6. file[x].status # "none" /\ \A s \in Workers : ~Adds(s, x) /\ ~Adds(s, x)'
    BY <1>2, <1>3, <2>1, <2>4 DEF Attended, Adds
  <2>7. \A s \in Workers : Marks(s, x)' <=> Marks(s, x) /\ s # r
    BY <1>2, <2>4 DEF Marks
  <2>8. x \in object' <=> x \in object
    BY <2>1
  <2>9. (Attended(x) /\ InStep(x))'
    BY <1>1, <1>3, <2>2, <2>6, <2>7, <2>8 DEF Attended, InStep, Store!Live
  <2>10. ObjectsInv'
    BY <2>4, <2>9 DEF ObjectsInv
  <2> QED BY <2>4, <2>5, <2>10 DEF FilesInv
<1> QED BY <1>4, <1>5, <1>6

\* A step that is cut off is remembered.
LEMMA LastStepFailsStep ==
  ASSUME FilesInv, NEW r \in Workers, Store!LastStepFails(r)
  PROVE  FilesInv'
<1> USE FilesAssumption DEF Store!FileStoreAssumption
<1>0. PICK x \in Uploads : x = upload[r].file
  BY DEF FilesInv, FilesTyped, Names, Store!LastStepFails
<1>1. /\ crossing' = [crossing EXCEPT !.cut = @ \cup {x}]
      /\ Store!Set(r, Store!Idle) /\ UNCHANGED <<parent, file, object, reading>>
  BY <1>0 DEF Store!LastStepFails
<1>2. Store!Idle \in RequestType /\ Names(Store!Idle) /\ Store!Idle.pc = "idle"
      /\ Store!Idle.file = NoFile
  BY DEF Store!Idle, RequestType, Steps, Places, Names
<1>3. /\ crossing' \in [crossed : BOOLEAN, cut : SUBSET Uploads]
      /\ crossing'.crossed = crossing.crossed
      /\ crossing'.cut = crossing.cut \cup {x}
  BY <1>1 DEF FilesInv, FilesTyped
<1>4. About(r, Store!Idle, x)
  BY <1>0, <1>1, <1>2, <1>3 DEF About
<1>5. /\ upload' \in [Workers -> RequestType] /\ upload'[r] = Store!Idle
      /\ \A s \in Workers : s # r => upload'[s] = upload[s]
      /\ \A s \in Workers : Names(upload'[s])
      /\ FoldersInv'
      /\ \A y \in Uploads \ {x} : Attended(y)' /\ InStep(y)'
  BY <1>4, Stays
<1>6. FilesTyped'
  BY <1>1, <1>3, <1>5 DEF FilesInv, FilesTyped, Store!There
<1>7. Attended(x)'
  <2>1. \A s \in Workers : /\ Adds(s, x)' => Adds(s, x)
                           /\ Removes(s, x)' => Removes(s, x)
                           /\ Marks(s, x)' => Marks(s, x)
                           /\ upload'[s].file = x => upload[s].file = x
    BY <1>2, <1>5 DEF Adds, Removes, Marks
  <2>2. Attended(x)
    BY DEF FilesInv, ObjectsInv
  <2> QED BY <1>1, <2>1, <2>2 DEF Attended
<1>8. InStep(x)'
  BY <1>3 DEF InStep
<1>9. ObjectsInv'
  BY <1>5, <1>7, <1>8 DEF ObjectsInv
<1> QED BY <1>5, <1>6, <1>9 DEF FilesInv

LEMMA RestartStep == ASSUME FilesInv, Store!Restart PROVE FilesInv'
<1> USE FilesAssumption DEF Store!FileStoreAssumption
<1> DEFINE lost == {upload[r].file : r \in {q \in Workers :
                      upload[q].pc \in {"insert", "undo", "mark"}}}
<1>1. /\ crossing' = [crossing EXCEPT !.cut = @ \cup lost]
      /\ upload' = [r \in Workers |-> Store!Idle] /\ reading' = {}
      /\ UNCHANGED <<parent, file, object>>
  BY DEF Store!Restart
<1>2. Store!Idle \in RequestType /\ Names(Store!Idle) /\ Store!Idle.pc = "idle"
      /\ Store!Idle.file = NoFile
  BY DEF Store!Idle, RequestType, Steps, Places, Names
<1>3. lost \subseteq Uploads
  BY DEF FilesInv, FilesTyped, Names
<1>4. /\ crossing' \in [crossed : BOOLEAN, cut : SUBSET Uploads]
      /\ crossing'.crossed = crossing.crossed
      /\ crossing'.cut = crossing.cut \cup lost
  <2> HIDE DEF lost
  <2> QED BY <1>1, <1>3 DEF FilesInv, FilesTyped
<1>5. FilesTyped'
  BY <1>1, <1>2, <1>4 DEF FilesInv, FilesTyped, Store!There
<1>6. FoldersInv'
  BY <1>1, <1>2, <1>4, FoldersKept DEF FoldersRest, Moves
<1>7. ASSUME NEW x \in Uploads PROVE (Attended(x) /\ InStep(x))'
  <2>1. \A r \in Workers : ~Adds(r, x)' /\ ~Removes(r, x)' /\ ~Marks(r, x)'
    BY <1>1, <1>2 DEF Adds, Removes, Marks
  <2>2. x \in lost \/ \A r \in Workers : ~Adds(r, x) /\ ~Marks(r, x)
    BY DEF Adds, Marks
  <2>3. Attended(x)'
    BY <2>1 DEF Attended
  <2>4. InStep(x)
    BY DEF FilesInv, ObjectsInv
  <2>5. InStep(x)'
    <3> HIDE DEF lost
    <3> QED BY <1>1, <1>4, <2>2, <2>4 DEF InStep, Store!Live
  <2> QED BY <2>3, <2>5
<1>8. ObjectsInv'
  BY <1>7 DEF ObjectsInv
<1> QED BY <1>5, <1>6, <1>8 DEF FilesInv

\* To another folder, or its text: the row is as it was otherwise.
LEMMA RowStep ==
  ASSUME FilesInv, NEW x \in Uploads,
         Store!Extract(x) \/ \E p \in Places : Store!MoveFile(x, p)
  PROVE  FilesInv'
<1> USE FilesAssumption DEF Store!FileStoreAssumption
<1>1. UNCHANGED <<parent, object, upload, crossing>> /\ reading' \subseteq reading
  BY DEF Store!Extract, Store!MoveFile
<1>2. /\ file' \in [Uploads -> RowType]
      /\ \A y \in Uploads : file'[y].status = file[y].status
      /\ \A y \in Uploads : Store!There(file'[y].folder)
  <2>1. CASE Store!Extract(x)
    BY <2>1 DEF FilesInv, FilesTyped, Store!Extract, RowType
  <2>2. CASE \E p \in Places : Store!MoveFile(x, p)
    BY <2>2 DEF FilesInv, FilesTyped, Store!MoveFile, RowType
  <2> QED BY <2>1, <2>2
<1>3. FilesTyped'
  BY <1>1, <1>2 DEF FilesInv, FilesTyped, Store!There
<1>4. FoldersInv'
  BY <1>1, FoldersKept DEF FoldersRest, Moves
<1>5. ObjectsInv'
  BY <1>1, <1>2, ObjectsKept DEF ObjectsRest
<1> QED BY <1>3, <1>4, <1>5 DEF FilesInv

LEMMA FilesStep == ASSUME FilesInv, [Store!Next]_(Store!vars) PROVE FilesInv'
<1> USE FilesAssumption DEF Store!FileStoreAssumption
<1>1. ASSUME NEW r \in Workers, Store!Handles(r) PROVE FilesInv'
  <2>1. ASSUME Store!Remove(r) \/ Store!RemoveFails(r) \/ Store!Mark(r)
        PROVE  FilesInv'
    <3>1. PICK x \in Uploads : x = upload[r].file
      BY <2>1 DEF FilesInv, FilesTyped, Names, Store!Remove, Store!RemoveFails,
         Store!Mark
    <3> QED BY <2>1, <3>1, DeleteStep
  <2> QED BY <1>1, <2>1, BeginMoveStep, BeginDropStep, UploadStep, DeleteStep,
          WalkStep, MoveStep, DropStep, InsertStep, LastStepFailsStep
          DEF Store!Handles, Store!Places, Places
<1>2. CASE \E f \in Devices, p \in Store!Places : Store!CreateFolder(f, p)
  BY <1>2, CreateFolderStep DEF Store!Places, Places
<1>3. CASE \/ \E x \in Uploads, p \in Store!Places : Store!MoveFile(x, p)
           \/ \E x \in Uploads : Store!Extract(x)
  BY <1>3, RowStep DEF Store!Places, Places
<1>4. CASE UNCHANGED Store!vars
  <2>1. UNCHANGED <<parent, file, object, reading, upload, crossing>>
    BY <1>4 DEF Store!vars
  <2>2. FilesTyped'
    BY <2>1 DEF FilesInv, FilesTyped, Store!There
  <2>3. FoldersInv'
    BY <2>1, FoldersKept DEF FoldersRest, Moves
  <2>4. ObjectsInv'
    BY <2>1, ObjectsKept DEF ObjectsRest
  <2> QED BY <2>2, <2>3, <2>4 DEF FilesInv
<1> QED BY <1>1, <1>2, <1>3, <1>4, RestartStep DEF Store!Next

\* What is promised of them follows.
LEMMA FilesPromised ==
  ASSUME FilesInv
  PROVE  Store!TypeOK /\ Store!StorageAgrees /\ Store!MovesKeepTree
<1>1. Store!TypeOK
  <2>1. \A x \in Uploads : file[x] \in RowType
    BY DEF FilesInv, FilesTyped
  <2>2. \A x \in Uploads : file[x].status \in {"none", "ACTIVE", "DELETED"}
    BY <2>1 DEF RowType
  <2> QED BY <2>2 DEF FilesInv, FilesTyped, Store!TypeOK, Store!Places, Places
<1>2. Store!StorageAgrees
  BY DEF FilesInv, ObjectsInv, InStep, Adds, Marks, Store!StorageAgrees
<1> QED BY <1>1, <1>2 DEF FilesInv, FoldersInv

\* A file that is shown has its object and an object its file, but for the
\* request that is between the two or was cut off there, and no folder is in
\* itself at any depth while moves do not overlap, whatever is made, deleted
\* and refused meanwhile (files.service.ts).
THEOREM FilesAreKept == MCSpec => []FilesKept
<1>1. MCInit => FilesInv
  BY FilesInit DEF MCInit
<1>2. FilesInv /\ [MCNext]_<<part, vars, files, budgets, plans, pushes>> => FilesInv'
  <2>1. ASSUME UNCHANGED files PROVE UNCHANGED Store!vars
    BY <2>1 DEF files, Store!vars
  <2> QED BY <2>1, FilesStep DEF MCNext
<1>3. FilesInv => FilesKept
  BY FilesPromised DEF FilesKept
<1> QED BY <1>1, <1>2, <1>3, PTL DEF MCSpec

-----------------------------------------------------------------------------
(* Sums over finite sets.  SumFunctionOnSet is a recursive function that   *)
(* takes one element after the other; a set for which a law of sums does   *)
(* not hold has a least subset of that kind.                               *)

LEMMA LeastSubset ==
  ASSUME NEW S, IsFiniteSet(S), NEW T, T \subseteq SUBSET S, T # {}
  PROVE  \E s \in T : \A t \in T : t \subseteq s => t = s
<1> DEFINE R == StrictSubsetOrdering(S)
<1>1. IsWellFoundedOn(R, SUBSET S)
  BY FS_StrictSubsetOrderingWellFounded, FS_FiniteSubsetsOfFinite
<1> HIDE DEF R
<1>2. PICK s \in T : \A t \in T : ~ (<<t, s>> \in R)
  BY <1>1, WFMin
<1>3. ASSUME NEW t \in T, t \subseteq s, t # s PROVE FALSE
  <2>1. <<t, s>> \in R
    BY <1>3 DEF R, StrictSubsetOrdering
  <2> QED  BY <1>2, <2>1
<1> QED  BY <1>3

Some(s) == CHOOSE x \in s : TRUE
Sum(f, S) == SumFunctionOnSet(f, S)

\* F is the function SumFunctionOnSet takes its value from.
Summing(f, S, F) ==
  F = [s \in SUBSET S |-> IF s = {} THEN 0 ELSE f[Some(s)] + F[s \ {Some(s)}]]

LEMMA SomeIn == \A s : s # {} => Some(s) \in s
BY DEF Some

LEMMA SumIs ==
  ASSUME NEW f, NEW S PROVE Sum(f, S) = (CHOOSE F : Summing(f, S, F))[S]
BY DEF Sum, SumFunctionOnSet, FoldFunctionOnSet, MapThenFoldSet, Summing, Some


\* The law of the recursion, for one set: by the choice of an element.
Recurs(f, s) == Sum(f, s) = IF s = {} THEN 0 ELSE f[Some(s)] + Sum(f, s \ {Some(s)})

LEMMA SumRecurs ==
  ASSUME NEW f, NEW S, IsFiniteSet(S) PROVE Recurs(f, S)
<1> SUFFICES ASSUME ~Recurs(f, S) PROVE FALSE
  OBVIOUS
<1> DEFINE Bad == {s \in SUBSET S : ~Recurs(f, s)}
<1>1. Bad \subseteq SUBSET S /\ S \in Bad
  OBVIOUS
<1> HIDE DEF Bad
<1>2. PICK s \in Bad : \A t \in Bad : t \subseteq s => t = s
  BY <1>1, LeastSubset
<1>3. /\ s \in SUBSET S /\ ~Recurs(f, s)
      /\ \A t \in SUBSET s : t # s => Recurs(f, t)
  BY <1>2 DEF Bad
<1> DEFINE G == [t \in SUBSET s |->
                   IF t = {} THEN 0 ELSE f[Some(t)] + Sum(f, t \ {Some(t)})]
<1>4. Summing(f, s, G)
  <2>1. ASSUME NEW t \in SUBSET s, t # {}
        PROVE  G[t] = f[Some(t)] + G[t \ {Some(t)}]
    <3>1. /\ t \ {Some(t)} \in SUBSET s /\ t \ {Some(t)} # s
      BY <2>1, SomeIn
    <3>2. Recurs(f, t \ {Some(t)})
      BY <1>3, <3>1
    <3>3. G[t \ {Some(t)}] = Sum(f, t \ {Some(t)})
      BY <3>1, <3>2 DEF Recurs
    <3>4. G[t] = f[Some(t)] + Sum(f, t \ {Some(t)})
      BY <2>1
    <3> QED  BY <3>3, <3>4
  <2>2. {} \in SUBSET s => G[{}] = 0
    OBVIOUS
  <2>3. G = [t \in SUBSET s |-> G[t]]
    OBVIOUS
  <2> HIDE DEF G
  <2>4. \A t \in SUBSET s :
          G[t] = IF t = {} THEN 0 ELSE f[Some(t)] + G[t \ {Some(t)}]
    BY <2>1, <2>2
  <2> QED  BY <2>3, <2>4 DEF Summing
<1> HIDE DEF G
<1> DEFINE H == CHOOSE F : Summing(f, s, F)
<1>5. Summing(f, s, H) /\ Sum(f, s) = H[s]
  BY <1>4, SumIs
<1> HIDE DEF H
<1>6. \A t \in SUBSET s :
        H[t] = IF t = {} THEN 0 ELSE f[Some(t)] + H[t \ {Some(t)}]
  BY <1>5 DEF Summing
<1>7. ASSUME NEW t \in SUBSET s, t # s PROVE H[t] = Sum(f, t)
  <2> SUFFICES ASSUME H[t] # Sum(f, t) PROVE FALSE
    OBVIOUS
  <2> DEFINE Off == {r \in SUBSET s : r # s /\ H[r] # Sum(f, r)}
  <2>1. Off \subseteq SUBSET S /\ t \in Off
    BY <1>3, <1>7
  <2> HIDE DEF Off
  <2>2. PICK r \in Off : \A q \in Off : q \subseteq r => q = r
    BY <2>1, LeastSubset
  <2>3. r \in SUBSET s /\ r # s /\ H[r] # Sum(f, r) /\ Recurs(f, r)
    BY <1>3, <2>2 DEF Off
  <2>4. r # {}
    BY <1>6, <2>3 DEF Recurs
  <2>5. /\ r \ {Some(r)} \in SUBSET s /\ r \ {Some(r)} # s
        /\ r \ {Some(r)} \subseteq r /\ r \ {Some(r)} # r
    BY <2>3, <2>4, SomeIn
  <2>6. H[r \ {Some(r)}] = Sum(f, r \ {Some(r)})
    BY <2>2, <2>5 DEF Off
  <2>7. H[r] = f[Some(r)] + H[r \ {Some(r)}]
    BY <1>6, <2>3, <2>4
  <2>8. Sum(f, r) = f[Some(r)] + Sum(f, r \ {Some(r)})
    BY <2>3, <2>4 DEF Recurs
  <2> QED  BY <2>3, <2>6, <2>7, <2>8
<1>8. CASE s = {}
  <2>1. H[s] = 0
    BY <1>6, <1>8
  <2> QED  BY <1>3, <1>5, <1>8, <2>1 DEF Recurs
<1>9. CASE s # {}
  <2>1. s \ {Some(s)} \in SUBSET s /\ s \ {Some(s)} # s
    BY <1>9, SomeIn
  <2>2. H[s \ {Some(s)}] = Sum(f, s \ {Some(s)})
    BY <1>7, <2>1
  <2>3. H[s] = f[Some(s)] + H[s \ {Some(s)}]
    BY <1>6, <1>9
  <2> QED  BY <1>3, <1>5, <1>9, <2>2, <2>3 DEF Recurs
<1> QED  BY <1>8, <1>9

LEMMA SumEmpty == \A f : Sum(f, {}) = 0
BY SumRecurs, FS_EmptySet DEF Recurs

\* The numbers that are summed up.
Counts(f, S) == IsFiniteSet(S) /\ \A x \in S : f[x] \in Int

\* Whatever is taken first: the sum is a number, and one element and the rest.
LEMMA SumTakes ==
  ASSUME NEW f, NEW S, Counts(f, S)
  PROVE  /\ Sum(f, S) \in Int
         /\ \A x \in S : Sum(f, S \ {x}) \in Int /\ Sum(f, S) = f[x] + Sum(f, S \ {x})
<1> DEFINE Law(s) == /\ Sum(f, s) \in Int
                     /\ \A x \in s : /\ Sum(f, s \ {x}) \in Int
                                     /\ Sum(f, s) = f[x] + Sum(f, s \ {x})
           Bad == {s \in SUBSET S : ~Law(s)}
<1> SUFFICES ASSUME ~Law(S) PROVE FALSE
  OBVIOUS
<1>0. IsFiniteSet(S) /\ \A x \in S : f[x] \in Int
  BY DEF Counts
<1>1. Bad \subseteq SUBSET S /\ S \in Bad
  OBVIOUS
<1> HIDE DEF Bad
<1>2. PICK s \in Bad : \A t \in Bad : t \subseteq s => t = s
  BY <1>0, <1>1, LeastSubset
<1>3. s \in SUBSET S /\ ~Law(s) /\ \A t \in SUBSET s : t # s => Law(t)
  BY <1>2 DEF Bad
<1> HIDE DEF Law
<1>4. Recurs(f, s)
  BY <1>0, <1>3, FS_Subset, SumRecurs
<1>5. s # {}
  <2> SUFFICES ASSUME s = {} PROVE Law(s)
    BY <1>3
  <2>1. Sum(f, s) = 0
    BY SumEmpty
  <2> QED  BY <2>1 DEF Law
<1> DEFINE p == Some(s)
<1>6. p \in s /\ Sum(f, s) = f[p] + Sum(f, s \ {p})
  BY <1>4, <1>5, SomeIn DEF Recurs
<1> HIDE DEF p
<1>7. ASSUME NEW x \in s PROVE Law(s \ {x}) /\ f[x] \in Int
  BY <1>0, <1>3
<1>8. Sum(f, s) \in Int
  BY <1>6, <1>7 DEF Law
<1>9. ASSUME NEW x \in s
      PROVE  Sum(f, s \ {x}) \in Int /\ Sum(f, s) = f[x] + Sum(f, s \ {x})
  <2>1. CASE x = p
    BY <1>6, <1>7, <2>1 DEF Law
  <2>2. CASE x # p
    <3>1. x \in s \ {p} /\ p \in s \ {x} /\ (s \ {p}) \ {x} = (s \ {x}) \ {p}
      BY <1>6, <2>2
    <3> DEFINE r == Sum(f, (s \ {x}) \ {p})
    <3>2. /\ r \in Int /\ Sum(f, s \ {x}) \in Int
          /\ Sum(f, s \ {p}) = f[x] + r /\ Sum(f, s \ {x}) = f[p] + r
      BY <1>6, <1>7, <3>1 DEF Law
    <3>3. f[x] \in Int /\ f[p] \in Int
      BY <1>6, <1>7
    <3> HIDE DEF r
    <3> QED  BY <1>6, <3>2, <3>3
  <2> QED  BY <2>1, <2>2
<1> QED  BY <1>3, <1>8, <1>9 DEF Law


\* A law of sums holds for a set if it holds for the empty one, and with an
\* element when it holds without: there is no least set it does not hold for.
LEMMA SumSame ==
  ASSUME NEW f, NEW g, NEW S, Counts(f, S), \A x \in S : g[x] = f[x]
  PROVE  Sum(g, S) = Sum(f, S)
<1> DEFINE Bad == {s \in SUBSET S : Sum(g, s) # Sum(f, s)}
<1> SUFFICES ASSUME Sum(g, S) # Sum(f, S) PROVE FALSE
  OBVIOUS
<1>1. Bad \subseteq SUBSET S /\ S \in Bad /\ IsFiniteSet(S)
  BY DEF Counts
<1> HIDE DEF Bad
<1>2. PICK s \in Bad : \A t \in Bad : t \subseteq s => t = s
  BY <1>1, LeastSubset
<1>3. /\ s \in SUBSET S /\ Sum(g, s) # Sum(f, s)
      /\ \A t \in SUBSET s : t # s => Sum(g, t) = Sum(f, t)
  BY <1>2 DEF Bad
<1>4. s # {}
  BY <1>3, SumEmpty
<1>5. PICK x \in s : TRUE
  BY <1>4
<1>6. Sum(g, s \ {x}) = Sum(f, s \ {x})
  BY <1>3, <1>5
<1>7. Counts(f, s) /\ Counts(g, s)
  BY <1>1, <1>3, FS_Subset DEF Counts
<1>8. /\ Sum(f, s) = f[x] + Sum(f, s \ {x})
      /\ Sum(g, s) = g[x] + Sum(g, s \ {x})
  BY <1>5, <1>7, SumTakes
<1> QED  BY <1>3, <1>5, <1>6, <1>8

\* The sum over two sets that have nothing in common.
LEMMA SumOfTwo ==
  ASSUME NEW f, NEW A, NEW B, Counts(f, A), Counts(f, B), A \cap B = {}
  PROVE  Sum(f, A \cup B) = Sum(f, A) + Sum(f, B)
<1> DEFINE Bad == {b \in SUBSET B : Sum(f, A \cup b) # Sum(f, A) + Sum(f, b)}
<1> SUFFICES ASSUME Sum(f, A \cup B) # Sum(f, A) + Sum(f, B) PROVE FALSE
  OBVIOUS
<1>1. Bad \subseteq SUBSET B /\ B \in Bad /\ IsFiniteSet(B) /\ IsFiniteSet(A)
  BY DEF Counts
<1> HIDE DEF Bad
<1>2. PICK b \in Bad : \A t \in Bad : t \subseteq b => t = b
  BY <1>1, LeastSubset
<1>3. /\ b \in SUBSET B /\ Sum(f, A \cup b) # Sum(f, A) + Sum(f, b)
      /\ \A t \in SUBSET b : t # b => Sum(f, A \cup t) = Sum(f, A) + Sum(f, t)
  BY <1>2 DEF Bad
<1>4. Sum(f, A) \in Int
  BY SumTakes
<1>5. b # {}
  <2> SUFFICES ASSUME b = {} PROVE Sum(f, A \cup b) = Sum(f, A) + Sum(f, b)
    BY <1>3
  <2>1. A \cup b = A /\ Sum(f, b) = 0
    BY SumEmpty
  <2> QED  BY <1>4, <2>1
<1>6. PICK x \in b : TRUE
  BY <1>5
<1>7. /\ Sum(f, A \cup (b \ {x})) = Sum(f, A) + Sum(f, b \ {x})
      /\ (A \cup b) \ {x} = A \cup (b \ {x})
  BY <1>3, <1>6
<1>8. Counts(f, b) /\ Counts(f, A \cup b)
  <2>1. IsFiniteSet(b) /\ IsFiniteSet(A \cup b)
    BY <1>1, <1>3, FS_Subset, FS_Union
  <2> QED  BY <1>3, <2>1 DEF Counts
<1>9. /\ Sum(f, b) = f[x] + Sum(f, b \ {x}) /\ Sum(f, b \ {x}) \in Int
      /\ Sum(f, A \cup b) = f[x] + Sum(f, (A \cup b) \ {x})
      /\ f[x] \in Int
  <2>1. x \in A \cup b
    BY <1>6
  <2>2. f[x] \in Int
    BY <1>6, <1>8 DEF Counts
  <2> QED  BY <1>6, <1>8, <2>1, <2>2, SumTakes
<1> QED  BY <1>3, <1>4, <1>7, <1>9

LEMMA SumOfNone ==
  ASSUME NEW f, NEW S, IsFiniteSet(S), \A x \in S : f[x] = 0
  PROVE  Sum(f, S) = 0
<1> DEFINE Bad == {s \in SUBSET S : Sum(f, s) # 0}
<1> SUFFICES ASSUME Sum(f, S) # 0 PROVE FALSE
  OBVIOUS
<1>1. Bad \subseteq SUBSET S /\ S \in Bad
  OBVIOUS
<1> HIDE DEF Bad
<1>2. PICK s \in Bad : \A t \in Bad : t \subseteq s => t = s
  BY <1>1, LeastSubset
<1>3. /\ s \in SUBSET S /\ Sum(f, s) # 0
      /\ \A t \in SUBSET s : t # s => Sum(f, t) = 0
  BY <1>2 DEF Bad
<1>4. PICK x \in s : TRUE
  BY <1>3, SumEmpty
<1>5. Sum(f, s \ {x}) = 0 /\ f[x] = 0
  BY <1>3, <1>4
<1>6. Counts(f, s)
  BY <1>3, FS_Subset DEF Counts
<1>7. Sum(f, s) = f[x] + Sum(f, s \ {x})
  BY <1>4, <1>6, SumTakes
<1> QED  BY <1>3, <1>5, <1>7

\* The sum of what is turned round is turned round.
LEMMA SumNegated ==
  ASSUME NEW f, NEW g, NEW S, Counts(f, S), \A x \in S : g[x] = -f[x]
  PROVE  Sum(g, S) = -Sum(f, S)
<1> DEFINE Bad == {s \in SUBSET S : Sum(g, s) # -Sum(f, s)}
<1> SUFFICES ASSUME Sum(g, S) # -Sum(f, S) PROVE FALSE
  OBVIOUS
<1>1. Bad \subseteq SUBSET S /\ S \in Bad /\ IsFiniteSet(S)
  BY DEF Counts
<1> HIDE DEF Bad
<1>2. PICK s \in Bad : \A t \in Bad : t \subseteq s => t = s
  BY <1>1, LeastSubset
<1>3. /\ s \in SUBSET S /\ Sum(g, s) # -Sum(f, s)
      /\ \A t \in SUBSET s : t # s => Sum(g, t) = -Sum(f, t)
  BY <1>2 DEF Bad
<1>4. s # {}
  <2> SUFFICES ASSUME s = {} PROVE Sum(g, s) = -Sum(f, s)
    BY <1>3
  <2>1. Sum(g, s) = 0 /\ Sum(f, s) = 0
    BY SumEmpty
  <2> QED  BY <2>1
<1>5. PICK x \in s : TRUE
  BY <1>4
<1>6. Sum(g, s \ {x}) = -Sum(f, s \ {x})
  BY <1>3, <1>5
<1>7. /\ Counts(f, s) /\ Counts(g, s) /\ f[x] \in Int /\ g[x] = -f[x]
  <2>1. IsFiniteSet(s)
    BY <1>1, <1>3, FS_Subset
  <2>2. \A y \in s : f[y] \in Int /\ g[y] = -f[y]
    BY <1>3 DEF Counts
  <2>3. \A y \in s : g[y] \in Int
    BY <2>2
  <2> QED  BY <1>5, <2>1, <2>2, <2>3 DEF Counts
<1>8. /\ Sum(f, s) = f[x] + Sum(f, s \ {x}) /\ Sum(f, s \ {x}) \in Int
      /\ Sum(g, s) = g[x] + Sum(g, s \ {x})
  BY <1>5, <1>7, SumTakes
<1> QED  BY <1>3, <1>6, <1>7, <1>8

\* Part by part: what f adds up to over the elements of T whose key is in K is
\* the sum over the keys.
With(T, key, k) == {t \in T : key[t] = k}
Under(T, key, K) == {t \in T : key[t] \in K}

LEMMA SumByKey ==
  ASSUME NEW f, NEW T, Counts(f, T), NEW key, NEW K, IsFiniteSet(K), NEW h,
         \A k \in K : h[k] = Sum(f, With(T, key, k))
  PROVE  Counts(h, K) /\ Sum(h, K) = Sum(f, Under(T, key, K))
<1> DEFINE Below(s) == Under(T, key, s)
           At(k) == With(T, key, k)
           Bad == {s \in SUBSET K : Sum(h, s) # Sum(f, Below(s))}
<1>0. ASSUME NEW t \in SUBSET T PROVE Counts(f, t) /\ Sum(f, t) \in Int
  <2>1. Counts(f, t)
    BY FS_Subset DEF Counts
  <2> QED  BY <2>1, SumTakes
<1>1. Counts(h, K)
  <2>1. \A k \in K : At(k) \in SUBSET T
    BY DEF With
  <2>2. \A k \in K : h[k] = Sum(f, At(k))
    OBVIOUS
  <2> HIDE DEF At
  <2> QED  BY <1>0, <2>1, <2>2 DEF Counts
<1> SUFFICES ASSUME Sum(h, K) # Sum(f, Below(K)) PROVE FALSE
  BY <1>1
<1>2. Bad \subseteq SUBSET K /\ K \in Bad
  OBVIOUS
<1> HIDE DEF Bad
<1>3. PICK s \in Bad : \A t \in Bad : t \subseteq s => t = s
  BY <1>2, LeastSubset
<1>4. /\ s \in SUBSET K /\ Sum(h, s) # Sum(f, Below(s))
      /\ \A t \in SUBSET s : t # s => Sum(h, t) = Sum(f, Below(t))
  BY <1>3 DEF Bad
<1>5. s # {}
  <2> SUFFICES ASSUME s = {} PROVE Sum(h, s) = Sum(f, Below(s))
    BY <1>4
  <2>1. Below(s) = {}
    BY DEF Under
  <2> HIDE DEF Below
  <2> QED  BY <2>1, SumEmpty
<1>6. PICK k \in s : TRUE
  BY <1>5
<1>7. Sum(h, s \ {k}) = Sum(f, Below(s \ {k}))
  <2> HIDE DEF Below
  <2> QED  BY <1>4, <1>6
<1>8. Counts(h, s)
  BY <1>1, <1>4, FS_Subset DEF Counts
<1>9. Sum(h, s) = h[k] + Sum(h, s \ {k}) /\ h[k] = Sum(f, At(k))
  <2>1. Sum(h, s) = h[k] + Sum(h, s \ {k})
    BY <1>6, <1>8, SumTakes
  <2> QED  BY <1>4, <1>6, <2>1
<1>10. /\ Below(s) = At(k) \cup Below(s \ {k})
       /\ At(k) \cap Below(s \ {k}) = {}
       /\ At(k) \in SUBSET T /\ Below(s \ {k}) \in SUBSET T
  BY <1>6 DEF With, Under
<1> HIDE DEF Below, At
<1>11. Sum(f, Below(s)) = Sum(f, At(k)) + Sum(f, Below(s \ {k}))
  <2> DEFINE a == At(k)
             b == Below(s \ {k})
  <2>1. Counts(f, a) /\ Counts(f, b) /\ a \cap b = {} /\ Below(s) = a \cup b
    BY <1>0, <1>10
  <2> HIDE DEF a, b
  <2>2. Sum(f, Below(s)) = Sum(f, a) + Sum(f, b)
    BY <2>1, SumOfTwo
  <2> QED  BY <2>2 DEF a, b
<1> QED  BY <1>4, <1>7, <1>9, <1>11

\* Of numbers that are not negative, more make no less.
LEMMA SumGrows ==
  ASSUME NEW f, NEW S, Counts(f, S), \A x \in S : f[x] >= 0, NEW A \in SUBSET S
  PROVE  0 <= Sum(f, A) /\ Sum(f, A) <= Sum(f, S)
<1> DEFINE Bad == {s \in SUBSET S : ~(0 <= Sum(f, s))}
<1>0. ASSUME NEW t \in SUBSET S PROVE Counts(f, t) /\ Sum(f, t) \in Int
  <2>1. Counts(f, t)
    BY FS_Subset DEF Counts
  <2> QED  BY <2>1, SumTakes
<1>1. \A s \in SUBSET S : 0 <= Sum(f, s)
  <2> SUFFICES ASSUME NEW q \in Bad PROVE FALSE
    OBVIOUS
  <2>1. Bad \subseteq SUBSET S /\ q \in Bad /\ IsFiniteSet(S)
    BY DEF Counts
  <2> HIDE DEF Bad
  <2>2. PICK s \in Bad : \A t \in Bad : t \subseteq s => t = s
    BY <2>1, LeastSubset
  <2>3. /\ s \in SUBSET S /\ ~(0 <= Sum(f, s))
        /\ \A t \in SUBSET s : t # s => 0 <= Sum(f, t)
    BY <2>2 DEF Bad
  <2>4. s # {}
    <3> SUFFICES ASSUME s = {} PROVE 0 <= Sum(f, s)
      BY <2>3
    <3>1. Sum(f, s) = 0
      BY SumEmpty
    <3> QED  BY <3>1
  <2>5. PICK x \in s : TRUE
    BY <2>4
  <2>6. /\ 0 <= Sum(f, s \ {x}) /\ Sum(f, s \ {x}) \in Int
        /\ f[x] \in Int /\ f[x] >= 0
    BY <1>0, <2>3, <2>5 DEF Counts
  <2>7. Sum(f, s) = f[x] + Sum(f, s \ {x})
    BY <1>0, <2>3, <2>5, SumTakes
  <2> QED  BY <2>3, <2>6, <2>7
<1>2. S = A \cup (S \ A) /\ A \cap (S \ A) = {} /\ S \ A \in SUBSET S
  OBVIOUS
<1>3. Sum(f, S) = Sum(f, A) + Sum(f, S \ A)
  BY <1>0, <1>2, SumOfTwo
<1> QED  BY <1>0, <1>1, <1>2, <1>3

-----------------------------------------------------------------------------
(* The sums of the books.  What is signed and added up is what came in less *)
(* what went out, whichever transactions are taken.                        *)

EntryType == [type : Types \cup {None}, currency : Currencies \cup {None},
              account : Nat, category : Categories \cup {None},
              day : Days, version : Nat]

EntriesTyped ==
  /\ entry \in [Transactions -> EntryType]
  /\ \A t \in Transactions : entry[t].type = None <=> entry[t].currency = None

LEMMA Numbers ==
  ASSUME NEW X, X \subseteq Transactions
  PROVE  Counts(Amount, X) /\ Counts(Signed, X)
<1>1. IsFiniteSet(X)
  BY FS_Subset, LedgerAssumption DEF LedgerAssumption
<1>2. \A t \in Transactions : t \in Nat /\ Amount[t] = t /\ Signed[t] \in Int
  BY LedgerAssumption DEF LedgerAssumption, Amount, Signed
<1> QED  BY <1>1, <1>2 DEF Counts

In(X) == {t \in X : entry[t].type = "INCOME"}
Out(X) == {t \in X : entry[t].type = "EXPENSE"}

LEMMA SignedSum ==
  ASSUME EntriesTyped, NEW X, X \subseteq Transactions, \A t \in X : Present(t)
  PROVE  /\ Sum(Signed, X) = Total(In(X)) - Total(Out(X))
         /\ Total(In(X)) \in Int /\ Total(Out(X)) \in Int
         /\ Sum(Signed, X) \in Int
<1> DEFINE I == In(X)
           E == Out(X)
<1>1. I \subseteq Transactions /\ E \subseteq Transactions
  BY DEF In, Out
<1>2. X = I \cup E /\ I \cap E = {}
  <2>1. \A t \in X : entry[t].type \in {"INCOME", "EXPENSE"}
    BY DEF EntriesTyped, EntryType, Types, Present, None
  <2> QED  BY <2>1 DEF In, Out
<1>3. Counts(Amount, I) /\ Counts(Signed, I) /\ Counts(Amount, E) /\ Counts(Signed, E)
  BY <1>1, Numbers
<1>4. Sum(Signed, I) = Sum(Amount, I)
  <2>1. \A t \in I : Signed[t] = Amount[t]
    BY <1>1 DEF In, Signed, Amount
  <2> HIDE DEF I
  <2> QED  BY <1>3, <2>1, SumSame
<1>5. Sum(Signed, E) = -Sum(Amount, E)
  <2>1. \A t \in E : Signed[t] = -Amount[t]
    BY <1>1 DEF Out, Signed, Amount
  <2> HIDE DEF E
  <2> QED  BY <1>3, <2>1, SumNegated
<1>6. Total(I) = Sum(Amount, I) /\ Total(E) = Sum(Amount, E)
  BY DEF Total, Sum
<1> HIDE DEF I, E
<1>7. Sum(Amount, I) \in Int /\ Sum(Amount, E) \in Int
  BY <1>3, SumTakes
<1>8. Sum(Signed, X) = Sum(Signed, I) + Sum(Signed, E)
  BY <1>2, <1>3, SumOfTwo
<1>9. /\ Sum(Signed, X) = Total(I) - Total(E)
      /\ Total(I) \in Int /\ Total(E) \in Int /\ Sum(Signed, X) \in Int
  BY <1>4, <1>5, <1>6, <1>7, <1>8
<1> QED  BY <1>9 DEF I, E

LEMMA SumsAgree ==
  ASSUME EntriesTyped, NEW currency \in Currencies,
         IsFiniteSet(DOMAIN account),
         \A t \in Transactions :
           /\ entry[t].account \in {NoAccount} \cup DOMAIN account
           /\ Present(t) /\ entry[t].account # NoAccount =>
                account[entry[t].account].currency = entry[t].currency,
         NoAccount \notin DOMAIN account,
         NEW own, own = {a \in DOMAIN account : account[a].currency = currency},
         NEW loose, loose = {t \in Transactions : /\ entry[t].account = NoAccount
                                                  /\ entry[t].currency = currency},
         NEW parts, parts = [c \in Categories \cup {None} |->
                        Breakdown("INCOME", currency, Days)[c]
                          - Breakdown("EXPENSE", currency, Days)[c]]
  PROVE  /\ NetProfit(currency, Days) =
              SumFunction([a \in own |-> Balance(a)]) + SumFunctionOnSet(Signed, loose)
         /\ NetProfit(currency, Days) =
              NetProfit(currency, {1}) + NetProfit(currency, {2})
         /\ NetProfit(currency, Days) = SumFunction(parts)
<1> DEFINE All == {t \in Transactions : Present(t) /\ entry[t].currency = currency}
           On(days) == {t \in All : entry[t].day \in days}
<1>1. \A X : X \subseteq All => X \subseteq Transactions /\ \A t \in X : Present(t)
  OBVIOUS
<1>2. \A days : /\ In(On(days)) = Of("INCOME", currency, days)
                /\ Out(On(days)) = Of("EXPENSE", currency, days)
  BY DEF In, Out, Of, Present, None
<1>3. \A days : /\ NetProfit(currency, days) = Sum(Signed, On(days))
                /\ Sum(Signed, On(days)) \in Int
  <2>1. TAKE days
  <2> DEFINE X == On(days)
  <2>2. X \subseteq Transactions /\ \A t \in X : Present(t)
    OBVIOUS
  <2> HIDE DEF X
  <2>3. Sum(Signed, X) = Total(In(X)) - Total(Out(X)) /\ Sum(Signed, X) \in Int
    BY <2>2, SignedSum
  <2> QED  BY <1>2, <2>3 DEF NetProfit, X
<1>4. All = On(Days)
  BY DEF EntriesTyped, EntryType
<1>5. NetProfit(currency, Days) = Sum(Signed, All) /\ Sum(Signed, All) \in Int
  BY <1>3, <1>4
<1>6. NetProfit(currency, Days) = NetProfit(currency, {1}) + NetProfit(currency, {2})
  <2> DEFINE A == On({1})
             B == On({2})
  <2>1. A \cup B = All /\ A \cap B = {} /\ A \subseteq Transactions /\ B \subseteq Transactions
    BY <1>4 DEF Days
  <2>2. Counts(Signed, A) /\ Counts(Signed, B)
    BY <2>1, Numbers
  <2>3. NetProfit(currency, {1}) = Sum(Signed, A) /\ NetProfit(currency, {2}) = Sum(Signed, B)
    BY <1>3
  <2> HIDE DEF A, B, All, On
  <2> QED  BY <1>5, <2>1, <2>2, <2>3, SumOfTwo
<1>7. Counts(Signed, All)
  BY Numbers
<1>8. NetProfit(currency, Days) =
        SumFunction([a \in own |-> Balance(a)]) + SumFunctionOnSet(Signed, loose)
  <2> DEFINE h == [a \in own |-> Balance(a)]
             key == [t \in Transactions |-> entry[t].account]
             On1 == Under(All, key, own)
  <2>1. On1 \cup loose = All /\ On1 \cap loose = {}
        /\ On1 \subseteq Transactions /\ loose \subseteq Transactions
    <3>1. \A t \in All : t \in On1 \/ t \in loose
      BY DEF Under
    <3>2. \A t \in loose : t \in All /\ t \notin On1
      BY DEF Under, EntriesTyped, Present, None, Currencies
    <3> QED  BY <3>1, <3>2 DEF Under
  <2>2. IsFiniteSet(own)
    BY FS_Subset
  <2>3. \A a \in own : h[a] = Sum(Signed, With(All, key, a))
    <3>1. TAKE a \in own
    <3>2. With(All, key, a) =
            {t \in Transactions : /\ Present(t) /\ entry[t].account = a
                                  /\ entry[t].currency = account[a].currency}
      BY <3>1 DEF With
    <3> HIDE DEF All, key
    <3> QED  BY <3>1, <3>2 DEF Balance, Sum
  <2>4. SumFunction(h) = Sum(h, own)
    BY DEF SumFunction, Sum
  <2>5. Counts(Signed, On1) /\ Counts(Signed, loose)
    BY <2>1, Numbers
  <2>6. SumFunctionOnSet(Signed, loose) = Sum(Signed, loose)
    BY DEF Sum
  <2> HIDE DEF h, key, All
  <2>7. Sum(h, own) = Sum(Signed, On1)
    BY <1>7, <2>2, <2>3, SumByKey
  <2> HIDE DEF On1
  <2>8. Sum(Signed, All) = Sum(Signed, On1) + Sum(Signed, loose)
    BY <2>1, <2>5, SumOfTwo
  <2>9. NetProfit(currency, Days) = SumFunction(h) + SumFunctionOnSet(Signed, loose)
    BY <1>5, <2>4, <2>6, <2>7, <2>8
  <2> QED  BY <2>9 DEF h
<1>9. NetProfit(currency, Days) = SumFunction(parts)
  <2> DEFINE key == [t \in Transactions |-> entry[t].category]
             K == Categories \cup {None}
  <2>1. IsFiniteSet(K)
    BY LedgerAssumption, FS_AddElement DEF LedgerAssumption
  <2>2. \A c \in K : parts[c] = Sum(Signed, With(All, key, c))
    <3>1. TAKE c \in K
    <3> DEFINE X == With(All, key, c)
    <3>2. X \subseteq Transactions /\ \A t \in X : Present(t)
      BY DEF With
    <3>3. /\ In(X) = {t \in Of("INCOME", currency, Days) : entry[t].category = c}
          /\ Out(X) = {t \in Of("EXPENSE", currency, Days) : entry[t].category = c}
      BY DEF In, Out, Of, Present, None, EntriesTyped, EntryType, With
    <3>4. parts[c] = Total(In(X)) - Total(Out(X))
      BY <3>1, <3>3 DEF Breakdown
    <3> HIDE DEF X
    <3>5. parts[c] = Sum(Signed, X)
      BY <3>2, <3>4, SignedSum
    <3> QED  BY <3>5 DEF X
  <2>3. Under(All, key, K) = All
    BY DEF EntriesTyped, EntryType, Under
  <2>4. SumFunction(parts) = Sum(parts, K)
    BY DEF SumFunction, Sum
  <2> HIDE DEF key, K, All
  <2>5. Sum(parts, K) = Sum(Signed, Under(All, key, K))
    BY ONLY <1>7, <2>1, <2>2, SumByKey
  <2> QED  BY <1>5, <2>3, <2>4, <2>5
<1> QED  BY <1>6, <1>8, <1>9

-----------------------------------------------------------------------------
(* The ledger.  Accounts are only added, and keep their currency.  What a  *)
(* request that read the row as it is will write agrees with the account   *)
(* and the category of it; a request that read an older row is raced.      *)

Titles == {"Naqd pul", "Karta", "USD", "own", "other"}
AccountType == [name : Titles, currency : Currencies, isDefault : BOOLEAN,
                isArchived : BOOLEAN]
AccountsTyped == account \in Seq(AccountType) /\ Len(account) \in 0..MaxAccounts

LEMMA SmallestIn == ASSUME NEW S, S \subseteq Nat, S # {} PROVE Min(S) \in S
<1> DEFINE R == OpToRel(<, Nat)
<1>1. IsWellFoundedOn(R, Nat)
  BY NatLessThanWellFounded
<1> HIDE DEF R
<1>2. PICK s \in S : \A t \in S : ~ (<<t, s>> \in R)
  BY <1>1, WFMin
<1>3. ASSUME NEW t \in S PROVE s <= t
  <2>1. ~(t < s)
    BY <1>2 DEF R, OpToRel
  <2> QED  BY <2>1
<1> QED  BY <1>3 DEF Min

LEMMA SeedsTyped ==
  /\ Seeds[1] \in AccountType /\ Seeds[2] \in AccountType /\ Seeds[3] \in AccountType
  /\ Seeds[1].isDefault /\ ~Seeds[2].isDefault /\ ~Seeds[3].isDefault
<1> DEFINE a == [name |-> "Naqd pul", currency |-> "UZS", isDefault |-> TRUE,
                 isArchived |-> FALSE]
           b == [name |-> "Karta", currency |-> "UZS", isDefault |-> FALSE,
                 isArchived |-> FALSE]
           c == [name |-> "USD", currency |-> "USD", isDefault |-> FALSE,
                 isArchived |-> FALSE]
<1>1. /\ a \in AccountType /\ b \in AccountType /\ c \in AccountType
      /\ a.isDefault /\ ~b.isDefault /\ ~c.isDefault
  BY DEF AccountType, Titles, Currencies
<1>2. Seeds = <<a, b, c>>
  BY DEF Seeds
<1> HIDE DEF a, b, c
<1> QED  BY <1>1, <1>2

\* What is missing is of the seeds, and the default is the first of it.
LEMMA MissingTyped ==
  /\ Missing \in Seq(AccountType)
  /\ \A i \in DOMAIN Missing : Missing[i].isDefault => i = 1
<1> DEFINE a == IfMissing(Seeds[1])
           b == IfMissing(Seeds[2])
           c == IfMissing(Seeds[3])
<1>1. /\ a \in Seq(AccountType) /\ b \in Seq(AccountType) /\ c \in Seq(AccountType)
      /\ Len(a) <= 1
      /\ \A i \in DOMAIN b : ~b[i].isDefault
      /\ \A i \in DOMAIN c : ~c[i].isDefault
  BY SeedsTyped DEF IfMissing
<1>2. Missing = a \o b \o c
  BY DEF Missing
<1> HIDE DEF a, b, c
<1> DEFINE d == a \o b
<1>3. d \in Seq(AccountType) /\ \A i \in DOMAIN d : d[i].isDefault => i = 1
  BY <1>1
<1>4. Missing = d \o c
  BY <1>2
<1> HIDE DEF d
<1> QED  BY <1>1, <1>3, <1>4

LEMMA SeededTyped ==
  ASSUME AccountsTyped
  PROVE  /\ Seeded \in Seq(AccountType)
         /\ Len(Seeded) = Len(account) + Len(Missing)
         /\ \A i \in DOMAIN account : i \in DOMAIN Seeded /\ Seeded[i] = account[i]
         /\ \A i \in DOMAIN Seeded : Seeded[i].isDefault =>
              \/ i \in DOMAIN account
              \/ /\ Missing # <<>> /\ Head(Missing).isDefault
                 /\ i = Len(account) + 1
<1>1. account \in Seq(AccountType)
  BY DEF AccountsTyped
<1>2. /\ Missing \in Seq(AccountType)
      /\ \A i \in DOMAIN Missing : Missing[i].isDefault => i = 1
  BY MissingTyped
<1>3. Seeded = account \o Missing
  BY DEF Seeded
<1>4. Seeded \in Seq(AccountType) /\ Len(Seeded) = Len(account) + Len(Missing)
      /\ \A i \in DOMAIN account : i \in DOMAIN Seeded /\ Seeded[i] = account[i]
  BY <1>1, <1>2, <1>3
<1>5. ASSUME NEW i \in DOMAIN Seeded, Seeded[i].isDefault, i \notin DOMAIN account
      PROVE  Missing # <<>> /\ Head(Missing).isDefault /\ i = Len(account) + 1
  <2>1. i \in Nat /\ i > Len(account) /\ i - Len(account) \in DOMAIN Missing
        /\ Seeded[i] = Missing[i - Len(account)]
    BY <1>1, <1>2, <1>3, <1>4, <1>5
  <2>2. i - Len(account) = 1
    BY <1>2, <1>5, <2>1
  <2>3. Missing # <<>> /\ Head(Missing) = Missing[1]
    BY <1>2, <2>1
  <2>4. Len(account) \in Nat
    BY <1>1
  <2> QED  BY <1>5, <2>1, <2>2, <2>3, <2>4
<1> QED  BY <1>4, <1>5

\* The account chosen is one of the currency, if there is any.
LEMMA ChosenFits ==
  ASSUME NEW a, a \in Seq(AccountType), NEW currency
  PROVE  \/ Chosen(a, currency) = NoAccount
         \/ /\ Chosen(a, currency) \in DOMAIN a
            /\ a[Chosen(a, currency)].currency = currency
<1> DEFINE open == {i \in DOMAIN a : a[i].currency = currency /\ ~a[i].isArchived}
           preferred == {i \in open : a[i].isDefault}
<1>1. open \subseteq Nat /\ preferred \subseteq Nat
  OBVIOUS
<1>2. open # {} => Min(open) \in open
  BY <1>1, SmallestIn
<1>3. preferred # {} => Min(preferred) \in preferred
  BY <1>1, SmallestIn
<1>4. Chosen(a, currency) =
        IF open = {} THEN NoAccount
        ELSE IF preferred # {} THEN Min(preferred) ELSE Min(open)
  BY DEF Chosen
<1> QED  BY <1>2, <1>3, <1>4

\* Taking the default from others changes nothing else.
LEMMA UnsetKeeps ==
  ASSUME AccountsTyped, NEW currency, NEW keep
  PROVE  /\ Unset(currency, keep) \in Seq(AccountType)
         /\ Len(Unset(currency, keep)) = Len(account)
         /\ \A i \in DOMAIN account :
              /\ Unset(currency, keep)[i].currency = account[i].currency
              /\ Unset(currency, keep)[i].isDefault =>
                   account[i].isDefault /\ (account[i].currency # currency \/ i = keep)
<1> DEFINE u == Unset(currency, keep)
           cut(i) == [account[i] EXCEPT !.isDefault = FALSE]
<1>1. account \in Seq(AccountType) /\ Len(account) \in Nat
  BY DEF AccountsTyped
<1>2. \A i \in DOMAIN account :
        u[i] = IF account[i].currency = currency /\ i # keep THEN cut(i) ELSE account[i]
  BY DEF Unset
<1>3. \A i \in DOMAIN account :
        /\ account[i] \in AccountType /\ cut(i) \in AccountType
        /\ cut(i).currency = account[i].currency /\ ~cut(i).isDefault
  <2>1. TAKE i \in DOMAIN account
  <2>2. account[i] \in AccountType
    BY <1>1, <2>1
  <2> QED  BY <2>2 DEF AccountType
<1> HIDE DEF cut
<1>4. \A i \in DOMAIN account : u[i] \in AccountType
  BY <1>2, <1>3
<1>5. DOMAIN u = 1..Len(account)
  BY <1>1 DEF Unset
<1>6. u \in Seq(AccountType) /\ Len(u) = Len(account)
  <2>1. u = [i \in 1..Len(account) |-> u[i]]
    BY <1>1 DEF Unset
  <2>2. \A i \in 1..Len(account) : u[i] \in AccountType
    BY <1>1, <1>4
  <2> HIDE DEF u
  <2> QED  BY <1>1, <2>1, <2>2
<1> QED  BY <1>2, <1>3, <1>6

\* A transaction, its account and its category.
Backed(a, currency) == a # NoAccount => account[a].currency = currency
Suits(c, type) == c \in history.retyped \/ Fits(c, type)

RowKept(t) ==
  /\ Present(t) <=> entry[t].version # 0
  /\ entry[t].account \in {NoAccount} \cup DOMAIN account
  /\ entry[t].category # None => category[entry[t].category] # None
  /\ Present(t) /\ t \notin history.raced =>
       /\ Backed(entry[t].account, entry[t].currency)
       /\ Suits(entry[t].category, entry[t].type)

\* The row as a request under way will leave it.
Merged(w, k) == IF k \in DOMAIN worker[w].fields THEN worker[w].fields[k]
                ELSE entry[worker[w].on][k]

Pending(w) ==
  LET q == worker[w]
      f == worker[w].fields IN
  /\ q.on \in Transactions /\ q.version \in Nat
  /\ "type" \in DOMAIN f => f.type \in Types
  /\ "currency" \in DOMAIN f => f.currency \in Currencies
  /\ "account" \in DOMAIN f => f.account \in {NoAccount} \cup DOMAIN account
  /\ "category" \in DOMAIN f => f.category \in Categories \cup {None}
  /\ "day" \in DOMAIN f => f.day \in Days
  /\ q.version = 0 => /\ {"type", "currency", "account", "category", "day"} \subseteq DOMAIN f
                      /\ ~Present(q.on)
  /\ Present(q.on) => q.version <= entry[q.on].version
  /\ q.version = entry[q.on].version =>
       /\ Backed(Merged(w, "account"), Merged(w, "currency"))
       /\ Suits(Merged(w, "category"), Merged(w, "type"))

WorkerKept(w) ==
  /\ worker[w].pc \in {"idle", "create", "set", "write"}
  /\ worker[w].pc = "create" => /\ worker[w].fields.name = "own"
                                /\ worker[w].fields.currency \in Currencies
  /\ worker[w].pc = "set" => worker[w].on \in DOMAIN account
  /\ worker[w].pc = "write" => Pending(w)

\* A transaction that is being made is written by no other request.
MadeAlone ==
  \A v, w \in Workers :
    /\ worker[v].pc = "write" /\ worker[w].pc = "write" /\ v # w
    /\ worker[v].version = 0
    => worker[w].on # worker[v].on

RecordsTyped ==
  /\ AccountsTyped
  /\ category \in [Categories -> Types \cup {"BOTH", None}]
  /\ EntriesTyped
  /\ history \in [raced : SUBSET Transactions, retyped : SUBSET Categories,
                  defaults : BOOLEAN]
  /\ DOMAIN worker = Workers

RecordsInv ==
  /\ RecordsTyped
  /\ \A t \in Transactions : RowKept(t)
  /\ \A w \in Workers : WorkerKept(w)
  /\ MadeAlone

\* While requests for a default do not overlap, the one under way has taken
\* the default from all the others.
DefaultsInv ==
  ~history.defaults =>
    /\ \A v, w \in Settling : v = w
    /\ \A i, j \in DOMAIN account :
         /\ account[i].isDefault /\ account[j].isDefault
         /\ account[i].currency = account[j].currency
         => i = j
    /\ \A w \in Settling, i \in DOMAIN account :
         account[i].isDefault =>
           /\ worker[w].pc = "create" => account[i].currency # worker[w].fields.currency
           /\ worker[w].pc = "set" =>
                i = worker[w].on \/ account[i].currency # account[worker[w].on].currency

LEMMA LedgerInit == Init => RecordsInv /\ DefaultsInv
<1> SUFFICES ASSUME Init PROVE RecordsInv /\ DefaultsInv
  OBVIOUS
<1> USE DEF Init
<1>1. /\ account = <<>> /\ DOMAIN worker = Workers
      /\ \A w \in Workers : worker[w].pc = "idle"
  BY DEF Idle
<1>2. NoEntry \in EntryType /\ NoEntry.type = None /\ NoEntry.currency = None
      /\ NoEntry.version = 0 /\ NoEntry.account = NoAccount /\ NoEntry.category = None
  BY DEF NoEntry, EntryType, NoAccount, Days
<1>3. \A t \in Transactions : entry[t] = NoEntry
  OBVIOUS
<1>4. entry \in [Transactions -> EntryType]
  BY <1>2
<1> HIDE DEF Init
<1>5. RecordsTyped
  <2>1. AccountsTyped
    BY <1>1, LedgerAssumption DEF AccountsTyped, LedgerAssumption
  <2>2. EntriesTyped
    BY <1>2, <1>3, <1>4 DEF EntriesTyped
  <2>3. /\ category \in [Categories -> Types \cup {"BOTH", None}]
        /\ history \in [raced : SUBSET Transactions, retyped : SUBSET Categories,
                        defaults : BOOLEAN]
    BY DEF Init
  <2> QED  BY <1>1, <2>1, <2>2, <2>3 DEF RecordsTyped
<1>6. \A t \in Transactions : RowKept(t)
  BY <1>2, <1>3 DEF RowKept, Present
<1>7. (\A w \in Workers : WorkerKept(w)) /\ MadeAlone
  BY <1>1 DEF WorkerKept, MadeAlone
<1>8. DefaultsInv
  BY <1>1 DEF DefaultsInv, Settling
<1> QED  BY <1>5, <1>6, <1>7, <1>8 DEF RecordsInv

-----------------------------------------------------------------------------
(* Steps on the accounts.                                                  *)

AccountsGrow ==
  /\ AccountsTyped'
  /\ \A i \in DOMAIN account :
       i \in DOMAIN account' /\ account'[i].currency = account[i].currency
  /\ history'.raced = history.raced /\ history'.retyped = history.retyped
  /\ history' \in [raced : SUBSET Transactions, retyped : SUBSET Categories,
                   defaults : BOOLEAN]
  /\ UNCHANGED <<category, entry>>

LEMMA RowsGrow ==
  ASSUME RecordsInv, AccountsGrow PROVE \A t \in Transactions : RowKept(t)'
<1>1. TAKE t \in Transactions
<1>2. RowKept(t)
  BY DEF RecordsInv
<1>3. /\ entry' = entry /\ category' = category /\ history'.raced = history.raced
      /\ history'.retyped = history.retyped
      /\ entry[t].account # NoAccount =>
           /\ entry[t].account \in DOMAIN account'
           /\ account'[entry[t].account].currency = account[entry[t].account].currency
  BY <1>2 DEF AccountsGrow, RowKept
<1> QED  BY <1>2, <1>3 DEF RowKept, Present, Backed, Suits, Fits

LEMMA PendingGrows ==
  ASSUME RecordsInv, AccountsGrow, NEW w \in Workers, Pending(w), worker'[w] = worker[w]
  PROVE  Pending(w)'
<1>1. /\ entry' = entry /\ category' = category /\ history'.retyped = history.retyped
      /\ worker'[w] = worker[w]
  BY DEF AccountsGrow
<1>2. \A k : Merged(w, k)' = Merged(w, k)
  BY <1>1 DEF Merged
<1>3. worker[w].on \in Transactions
  BY DEF Pending
<1>4. Merged(w, "account") \in {NoAccount} \cup DOMAIN account
  BY <1>3 DEF Merged, Pending, RecordsInv, RowKept
<1>5. \A a \in DOMAIN account : a \in DOMAIN account' /\ account'[a].currency = account[a].currency
  BY DEF AccountsGrow
<1>6. \A c : Backed(Merged(w, "account"), c) => Backed(Merged(w, "account"), c)'
  BY <1>2, <1>4, <1>5 DEF Backed
<1>7. \A c, type : Suits(c, type) => Suits(c, type)'
  BY <1>1 DEF Suits, Fits
<1>8. \A t : Present(t)' <=> Present(t)
  BY <1>1 DEF Present
<1> QED  BY <1>1, <1>2, <1>5, <1>6, <1>7, <1>8 DEF Pending

\* One request at most is idle, asks for a default or is done, meanwhile.
LEMMA RecordsGrow ==
  ASSUME RecordsInv, AccountsGrow, DOMAIN worker' = Workers,
         \A w \in Workers : \/ worker'[w] = worker[w]
                            \/ worker'[w].pc # "write" /\ WorkerKept(w)'
  PROVE  RecordsInv'
<1>1. RecordsTyped'
  BY DEF RecordsTyped, RecordsInv, AccountsGrow, EntriesTyped, EntryType
<1>2. \A t \in Transactions : RowKept(t)'
  BY RowsGrow
<1>3. ASSUME NEW w \in Workers PROVE WorkerKept(w)'
  <2>1. SUFFICES ASSUME worker'[w] = worker[w] PROVE WorkerKept(w)'
    OBVIOUS
  <2>2. WorkerKept(w)
    BY DEF RecordsInv
  <2>3. worker[w].pc = "write" => Pending(w)'
    BY <2>1, <2>2, PendingGrows DEF WorkerKept
  <2> QED  BY <2>1, <2>2, <2>3 DEF WorkerKept, AccountsGrow
<1>4. MadeAlone'
  BY DEF MadeAlone, RecordsInv
<1> QED  BY <1>1, <1>2, <1>3, <1>4 DEF RecordsInv

LEMMA AddDefaultStep ==
  ASSUME RecordsInv, DefaultsInv, NEW w \in Workers, NEW currency \in Currencies,
         AddDefault(w, currency)
  PROVE  RecordsInv' /\ DefaultsInv'
<1>0. AccountsTyped /\ DOMAIN worker = Workers
      /\ history \in [raced : SUBSET Transactions, retyped : SUBSET Categories,
                      defaults : BOOLEAN]
  BY DEF RecordsInv, RecordsTyped
<1> DEFINE f == [name |-> "own", currency |-> currency]
           q == [Idle EXCEPT !.pc = "create", !.fields = f]
           h == [history EXCEPT !.defaults = @ \/ Settling \ {w} # {}]
<1>1. /\ worker[w].pc = "idle" /\ account' = Unset(currency, NoAccount)
      /\ worker' = [worker EXCEPT ![w] = q] /\ history' = h
      /\ category' = category /\ entry' = entry
  BY DEF AddDefault, Others, Overlapping
<1>2. q.pc = "create" /\ q.fields.name = "own" /\ q.fields.currency = currency
  BY DEF Idle
<1>3. /\ h.raced = history.raced /\ h.retyped = history.retyped
      /\ h.defaults <=> history.defaults \/ Settling \ {w} # {}
      /\ h \in [raced : SUBSET Transactions, retyped : SUBSET Categories,
                defaults : BOOLEAN]
  BY <1>0
<1> HIDE DEF q, h
<1>4. /\ account' \in Seq(AccountType) /\ Len(account') = Len(account)
      /\ \A i \in DOMAIN account :
           /\ account'[i].currency = account[i].currency
           /\ account'[i].isDefault =>
                account[i].isDefault /\ (account[i].currency # currency \/ i = NoAccount)
  BY <1>0, <1>1, UnsetKeeps
<1>5. DOMAIN account' = DOMAIN account /\ NoAccount \notin DOMAIN account
  BY <1>0, <1>4 DEF AccountsTyped, NoAccount
<1>6. AccountsGrow
  BY <1>0, <1>1, <1>3, <1>4, <1>5 DEF AccountsGrow, AccountsTyped
<1>7. /\ DOMAIN worker' = Workers /\ worker'[w] = q
      /\ \A v \in Workers \ {w} : worker'[v] = worker[v]
  BY <1>0, <1>1
<1>8. RecordsInv'
  <2>1. WorkerKept(w)' /\ worker'[w].pc # "write"
    BY <1>2, <1>7 DEF WorkerKept
  <2> QED  BY <1>6, <1>7, <2>1, RecordsGrow
<1>9. DefaultsInv'
  <2> SUFFICES ASSUME ~history'.defaults PROVE DefaultsInv'
    BY DEF DefaultsInv
  <2>1. ~history.defaults /\ Settling \ {w} = {}
    BY <1>1, <1>3
  <2>2. Settling' = {w}
    BY <1>2, <1>7, <2>1 DEF Settling
  <2> QED  BY <1>2, <1>4, <1>5, <1>7, <2>1, <2>2 DEF DefaultsInv
<1> QED  BY <1>8, <1>9

LEMMA AddedDefaultStep ==
  ASSUME RecordsInv, DefaultsInv, NEW w \in Workers, AddedDefault(w)
  PROVE  RecordsInv' /\ DefaultsInv'
<1>0. /\ AccountsTyped /\ DOMAIN worker = Workers
      /\ history \in [raced : SUBSET Transactions, retyped : SUBSET Categories,
                      defaults : BOOLEAN]
      /\ account \in Seq(AccountType) /\ Len(account) \in Nat
      /\ MaxAccounts \in Nat /\ WorkerKept(w)
  BY LedgerAssumption DEF RecordsInv, RecordsTyped, AccountsTyped, LedgerAssumption
<1> DEFINE new == worker[w].fields
           a == [name |-> new.name, currency |-> new.currency, isDefault |-> TRUE,
                 isArchived |-> FALSE]
<1>1. /\ worker[w].pc = "create" /\ Len(account) + 1 <= MaxAccounts
      /\ account' = account \/ account' = Append(account, a)
      /\ worker' = [worker EXCEPT ![w] = Idle]
      /\ category' = category /\ entry' = entry /\ history' = history
  BY DEF AddedDefault, Spare
<1>2. a \in AccountType /\ a.currency = new.currency
  BY <1>0, <1>1 DEF WorkerKept, AccountType, Titles
<1> HIDE DEF a
<1>3. /\ account' \in Seq(AccountType) /\ Len(account') \in 0..MaxAccounts
      /\ \A i \in DOMAIN account : i \in DOMAIN account' /\ account'[i] = account[i]
      /\ \A i \in DOMAIN account' : i \notin DOMAIN account =>
           i = Len(account) + 1 /\ account'[i] = a
  <2>1. CASE account' = account
    BY <1>0, <2>1 DEF AccountsTyped
  <2>2. CASE account' = Append(account, a)
    BY <1>0, <1>1, <1>2, <2>2
  <2> QED  BY <1>1, <2>1, <2>2
<1>4. AccountsGrow
  BY <1>0, <1>1, <1>3 DEF AccountsGrow, AccountsTyped
<1>5. /\ DOMAIN worker' = Workers /\ worker'[w] = Idle
      /\ \A v \in Workers \ {w} : worker'[v] = worker[v]
  BY <1>0, <1>1
<1>6. Idle.pc = "idle"
  BY DEF Idle
<1>7. RecordsInv'
  <2>1. WorkerKept(w)' /\ worker'[w].pc # "write"
    BY <1>5, <1>6 DEF WorkerKept
  <2> QED  BY <1>4, <1>5, <2>1, RecordsGrow
<1>8. DefaultsInv'
  <2> SUFFICES ASSUME ~history'.defaults PROVE DefaultsInv'
    BY DEF DefaultsInv
  <2>1. w \in Settling /\ \A v \in Settling : v = w
    BY <1>1 DEF DefaultsInv, Settling
  <2>2. Settling' = {}
    BY <1>5, <1>6, <2>1 DEF Settling
  <2>3. /\ \A i, j \in DOMAIN account :
             /\ account[i].isDefault /\ account[j].isDefault
             /\ account[i].currency = account[j].currency
             => i = j
        /\ \A i \in DOMAIN account :
             account[i].isDefault => account[i].currency # a.currency
    BY <1>1, <1>2, <2>1 DEF DefaultsInv
  <2>4. \A i, j \in DOMAIN account' :
          /\ account'[i].isDefault /\ account'[j].isDefault
          /\ account'[i].currency = account'[j].currency
          => i = j
    BY <1>3, <2>3
  <2> QED  BY <2>2, <2>4 DEF DefaultsInv
<1> QED  BY <1>7, <1>8

LEMMA SetDefaultStep ==
  ASSUME RecordsInv, DefaultsInv, NEW w \in Workers, NEW a, SetDefault(w, a)
  PROVE  RecordsInv' /\ DefaultsInv'
<1>0. AccountsTyped /\ DOMAIN worker = Workers
      /\ history \in [raced : SUBSET Transactions, retyped : SUBSET Categories,
                      defaults : BOOLEAN]
  BY DEF RecordsInv, RecordsTyped
<1> DEFINE currency == account[a].currency
           q == [Idle EXCEPT !.pc = "set", !.on = a]
           h == [history EXCEPT !.defaults = @ \/ Settling \ {w} # {}]
<1>1. /\ worker[w].pc = "idle" /\ account' = Unset(currency, a) /\ a \in DOMAIN account
      /\ worker' = [worker EXCEPT ![w] = q] /\ history' = h
      /\ category' = category /\ entry' = entry
  BY DEF SetDefault, Others, Overlapping
<1>2. q.pc = "set" /\ q.on = a
  BY DEF Idle
<1>3. /\ h.raced = history.raced /\ h.retyped = history.retyped
      /\ h.defaults <=> history.defaults \/ Settling \ {w} # {}
      /\ h \in [raced : SUBSET Transactions, retyped : SUBSET Categories,
                defaults : BOOLEAN]
  BY <1>0
<1> HIDE DEF q, h, currency
<1>4. /\ account' \in Seq(AccountType) /\ Len(account') = Len(account)
      /\ \A i \in DOMAIN account :
           /\ account'[i].currency = account[i].currency
           /\ account'[i].isDefault =>
                account[i].isDefault /\ (account[i].currency # currency \/ i = a)
  BY <1>0, <1>1, UnsetKeeps
<1>5. DOMAIN account' = DOMAIN account
  BY <1>0, <1>4 DEF AccountsTyped
<1>6. AccountsGrow
  BY <1>0, <1>1, <1>3, <1>4, <1>5 DEF AccountsGrow, AccountsTyped
<1>7. /\ DOMAIN worker' = Workers /\ worker'[w] = q
      /\ \A v \in Workers \ {w} : worker'[v] = worker[v]
  BY <1>0, <1>1
<1>8. RecordsInv'
  <2>1. WorkerKept(w)' /\ worker'[w].pc # "write"
    BY <1>1, <1>2, <1>5, <1>7 DEF WorkerKept
  <2> QED  BY <1>6, <1>7, <2>1, RecordsGrow
<1>9. DefaultsInv'
  <2> SUFFICES ASSUME ~history'.defaults PROVE DefaultsInv'
    BY DEF DefaultsInv
  <2>1. ~history.defaults /\ Settling \ {w} = {}
    BY <1>1, <1>3
  <2>2. Settling' = {w}
    BY <1>2, <1>7, <2>1 DEF Settling
  <2>3. account'[a].currency = currency
    BY <1>1, <1>4 DEF currency
  <2>4. \A i, j \in DOMAIN account' :
          /\ account'[i].isDefault /\ account'[j].isDefault
          /\ account'[i].currency = account'[j].currency
          => i = j
    BY <1>4, <1>5, <2>1 DEF DefaultsInv
  <2>5. \A i \in DOMAIN account' :
          account'[i].isDefault => i = a \/ account'[i].currency # account'[a].currency
    BY <1>4, <1>5, <2>3
  <2> QED  BY <1>2, <1>7, <2>2, <2>4, <2>5 DEF DefaultsInv
<1> QED  BY <1>8, <1>9

\* A change of one account that leaves its currency, and takes the place of
\* default from others before it is given.
LEMMA OneAccount ==
  ASSUME RecordsInv, NEW a \in DOMAIN account, NEW x \in AccountType,
         x.currency = account[a].currency,
         account' = [account EXCEPT ![a] = x],
         UNCHANGED <<category, entry, history>>
  PROVE  /\ AccountsGrow /\ DOMAIN account' = DOMAIN account /\ account'[a] = x
         /\ \A i \in DOMAIN account : i # a => account'[i] = account[i]
<1>0. /\ history \in [raced : SUBSET Transactions, retyped : SUBSET Categories,
                      defaults : BOOLEAN]
      /\ account \in Seq(AccountType) /\ Len(account) \in 0..MaxAccounts
  BY DEF RecordsInv, RecordsTyped, AccountsTyped
<1>1. account' \in Seq(AccountType) /\ Len(account') = Len(account)
      /\ DOMAIN account' = DOMAIN account
  BY <1>0
<1>2. account'[a] = x /\ \A i \in DOMAIN account : i # a => account'[i] = account[i]
  BY <1>0
<1> QED  BY <1>0, <1>1, <1>2 DEF AccountsGrow, AccountsTyped

LEMMA SetDefaultDoneStep ==
  ASSUME RecordsInv, DefaultsInv, NEW w \in Workers, SetDefaultDone(w)
  PROVE  RecordsInv' /\ DefaultsInv'
<1>0. /\ DOMAIN worker = Workers /\ account \in Seq(AccountType)
      /\ worker[w].pc = "set" /\ worker[w].on \in DOMAIN account
  BY DEF RecordsInv, RecordsTyped, AccountsTyped, WorkerKept, SetDefaultDone
<1> DEFINE a == worker[w].on
           x == [account[a] EXCEPT !.isDefault = TRUE]
<1>1. account[a] \in AccountType
  BY <1>0
<1>2. x \in AccountType /\ x.currency = account[a].currency
  BY <1>1 DEF AccountType
<1>3. /\ account' = [account EXCEPT ![a] = x]
      /\ worker' = [worker EXCEPT ![w] = Idle]
      /\ category' = category /\ entry' = entry /\ history' = history
  BY DEF SetDefaultDone
<1> HIDE DEF x
<1>4. /\ AccountsGrow /\ DOMAIN account' = DOMAIN account /\ account'[a] = x
      /\ \A i \in DOMAIN account : i # a => account'[i] = account[i]
  BY <1>0, <1>2, <1>3, OneAccount
<1>5. /\ DOMAIN worker' = Workers /\ worker'[w] = Idle
      /\ \A v \in Workers \ {w} : worker'[v] = worker[v]
  BY <1>0, <1>3
<1>6. Idle.pc = "idle"
  BY DEF Idle
<1>7. RecordsInv'
  <2>1. WorkerKept(w)' /\ worker'[w].pc # "write"
    BY <1>5, <1>6 DEF WorkerKept
  <2> QED  BY <1>4, <1>5, <2>1, RecordsGrow
<1>8. DefaultsInv'
  <2> SUFFICES ASSUME ~history'.defaults PROVE DefaultsInv'
    BY DEF DefaultsInv
  <2>1. w \in Settling /\ \A v \in Settling : v = w
    BY <1>0, <1>3 DEF DefaultsInv, Settling
  <2>2. Settling' = {}
    BY <1>5, <1>6, <2>1 DEF Settling
  <2>3. /\ \A i, j \in DOMAIN account :
             /\ account[i].isDefault /\ account[j].isDefault
             /\ account[i].currency = account[j].currency
             => i = j
        /\ \A i \in DOMAIN account :
             account[i].isDefault => i = a \/ account[i].currency # account[a].currency
    BY <1>0, <1>3, <2>1 DEF DefaultsInv
  <2> HIDE DEF a
  <2>4. \A i, j \in DOMAIN account' :
          /\ account'[i].isDefault /\ account'[j].isDefault
          /\ account'[i].currency = account'[j].currency
          => i = j
    BY <1>2, <1>4, <2>3
  <2> QED  BY <2>2, <2>4 DEF DefaultsInv
<1> QED  BY <1>7, <1>8

LEMMA UpdateAccountStep ==
  ASSUME RecordsInv, DefaultsInv, NEW a, UpdateAccount(a)
  PROVE  RecordsInv' /\ DefaultsInv'
<1>0. /\ DOMAIN worker = Workers /\ account \in Seq(AccountType) /\ a \in DOMAIN account
      /\ category' = category /\ entry' = entry /\ history' = history /\ worker' = worker
  BY DEF RecordsInv, RecordsTyped, AccountsTyped, UpdateAccount
<1>1. account[a] \in AccountType
  BY <1>0
<1>2. PICK x : /\ x \in AccountType /\ x.currency = account[a].currency
               /\ x.isDefault => account[a].isDefault
               /\ account' = [account EXCEPT ![a] = x]
  <2>1. CASE account' = [account EXCEPT ![a].isArchived = ~@]
    <3> DEFINE x == [account[a] EXCEPT !.isArchived = ~@]
    <3>1. /\ x \in AccountType /\ x.currency = account[a].currency
          /\ x.isDefault => account[a].isDefault
      BY <1>1 DEF AccountType
    <3>2. account' = [account EXCEPT ![a] = x]
      BY <2>1
    <3> QED  BY <3>1, <3>2
  <2>2. CASE account' = [account EXCEPT ![a].isArchived = TRUE, ![a].isDefault = FALSE]
    <3> DEFINE x == [account[a] EXCEPT !.isArchived = TRUE, !.isDefault = FALSE]
    <3>1. /\ x \in AccountType /\ x.currency = account[a].currency
          /\ x.isDefault => account[a].isDefault
      BY <1>1 DEF AccountType
    <3>2. account' = [account EXCEPT ![a] = x]
      BY <1>0, <1>1, <2>2 DEF AccountType
    <3> QED  BY <3>1, <3>2
  <2>3. CASE account' = [account EXCEPT ![a].name = "other"]
    <3> DEFINE x == [account[a] EXCEPT !.name = "other"]
    <3>1. /\ x \in AccountType /\ x.currency = account[a].currency
          /\ x.isDefault => account[a].isDefault
      BY <1>1 DEF AccountType, Titles
    <3>2. account' = [account EXCEPT ![a] = x]
      BY <2>3
    <3> QED  BY <3>1, <3>2
  <2> QED  BY <2>1, <2>2, <2>3 DEF UpdateAccount
<1>3. /\ AccountsGrow /\ DOMAIN account' = DOMAIN account /\ account'[a] = x
      /\ \A i \in DOMAIN account : i # a => account'[i] = account[i]
  BY <1>0, <1>2, OneAccount
<1>4. RecordsInv'
  BY <1>0, <1>3, RecordsGrow
<1>5. DefaultsInv'
  <2> SUFFICES ASSUME ~history'.defaults PROVE DefaultsInv'
    BY DEF DefaultsInv
  <2>1. Settling' = Settling
    BY <1>0 DEF Settling
  <2>2. \A i \in DOMAIN account :
          /\ account'[i].isDefault => account[i].isDefault
          /\ account'[i].currency = account[i].currency
    BY <1>2, <1>3
  <2>3. \A v \in Settling : worker[v].pc = "set" => worker[v].on \in DOMAIN account
    BY DEF RecordsInv, WorkerKept, Settling
  <2> QED  BY <1>0, <1>3, <2>1, <2>2, <2>3 DEF DefaultsInv
<1> QED  BY <1>4, <1>5

\* The accounts that are missing are made.
LEMMA SeededStep ==
  ASSUME RecordsInv, DefaultsInv, Spare(Len(Missing)), account' = Seeded,
         history' = [history EXCEPT !.defaults = @ \/ SeedsDefault],
         UNCHANGED <<category, entry>>
  PROVE  /\ AccountsGrow
         /\ Settling' = Settling /\ (\A w \in Settling : worker'[w] = worker[w])
              => DefaultsInv'
<1>0. /\ AccountsTyped /\ account \in Seq(AccountType) /\ MaxAccounts \in Nat
      /\ history \in [raced : SUBSET Transactions, retyped : SUBSET Categories,
                      defaults : BOOLEAN]
  BY LedgerAssumption DEF RecordsInv, RecordsTyped, AccountsTyped, LedgerAssumption
<1> DEFINE h == [history EXCEPT !.defaults = @ \/ SeedsDefault]
<1>1. /\ h.raced = history.raced /\ h.retyped = history.retyped
      /\ h.defaults <=> history.defaults \/ SeedsDefault
      /\ h \in [raced : SUBSET Transactions, retyped : SUBSET Categories,
                defaults : BOOLEAN]
  BY <1>0 DEF SeedsDefault
<1>2. history' = h
  OBVIOUS
<1> HIDE DEF h
<1>3. /\ account' \in Seq(AccountType)
      /\ Len(account') = Len(account) + Len(Missing)
      /\ \A i \in DOMAIN account : i \in DOMAIN account' /\ account'[i] = account[i]
      /\ \A i \in DOMAIN account' : account'[i].isDefault =>
           \/ i \in DOMAIN account
           \/ /\ Missing # <<>> /\ Head(Missing).isDefault
              /\ i = Len(account) + 1
  BY <1>0, SeededTyped
<1>4. Len(account') \in 0..MaxAccounts
  BY <1>0, <1>3 DEF Spare
<1>5. AccountsGrow
  BY <1>1, <1>2, <1>3, <1>4 DEF AccountsGrow, AccountsTyped
<1>6. ASSUME Settling' = Settling, \A w \in Settling : worker'[w] = worker[w]
      PROVE  DefaultsInv'
  <2> SUFFICES ASSUME ~history'.defaults PROVE DefaultsInv'
    BY DEF DefaultsInv
  <2>1. ~history.defaults /\ ~SeedsDefault
    BY <1>1, <1>2
  <2>2. CASE ~(Missing # <<>> /\ Head(Missing).isDefault)
    <3>1. \A i \in DOMAIN account' : account'[i].isDefault =>
            i \in DOMAIN account /\ account'[i] = account[i]
      BY <1>3, <2>2
    <3>2. \A v \in Settling : worker[v].pc = "set" => worker[v].on \in DOMAIN account
      BY DEF RecordsInv, WorkerKept, Settling
    <3> QED  BY <1>3, <1>6, <2>1, <3>1, <3>2 DEF DefaultsInv
  <2>3. CASE Missing # <<>> /\ Head(Missing).isDefault
    <3>1. account = <<>> /\ Settling = {}
      BY <2>1, <2>3 DEF SeedsDefault
    <3>2. \A i \in DOMAIN account' : account'[i].isDefault => i = 1
      BY <1>3, <3>1
    <3> QED  BY <1>6, <3>1, <3>2 DEF DefaultsInv
  <2> QED  BY <2>2, <2>3
<1> QED  BY <1>5, <1>6

LEMMA ListAccountsStep ==
  ASSUME RecordsInv, DefaultsInv, ListAccounts PROVE RecordsInv' /\ DefaultsInv'
<1>1. /\ Spare(Len(Missing)) /\ account' = Seeded
      /\ history' = [history EXCEPT !.defaults = @ \/ SeedsDefault]
      /\ category' = category /\ entry' = entry /\ worker' = worker
  BY DEF ListAccounts
<1>2. Settling' = Settling /\ DOMAIN worker = Workers
  BY <1>1 DEF Settling, RecordsInv, RecordsTyped
<1>3. AccountsGrow /\ DefaultsInv'
  BY <1>1, <1>2, SeededStep
<1> QED  BY <1>1, <1>2, <1>3, RecordsGrow

-----------------------------------------------------------------------------
(* Steps on the categories and the transactions.                           *)

\* Transactions alone change: the accounts and who asks for a default rest.
LEMMA DefaultsRest ==
  ASSUME RecordsInv, DefaultsInv, account' = account,
         history'.defaults <=> history.defaults,
         Settling' = Settling, \A w \in Settling : worker'[w] = worker[w]
  PROVE  DefaultsInv'
BY DEF DefaultsInv

\* What a request on the row as it is leaves has its types.
LEMMA PendingRow ==
  ASSUME RecordsInv, NEW w \in Workers, Pending(w)
  PROVE  LET q == worker[w] IN
         /\ q.version = entry[q.on].version =>
              /\ Merged(w, "type") \in Types
              /\ Merged(w, "currency") \in Currencies
         /\ Merged(w, "category") \in Categories \cup {None}
         /\ Merged(w, "account") \in {NoAccount} \cup DOMAIN account
         /\ Merged(w, "day") \in Days
<1> DEFINE t == worker[w].on
<1>1. /\ t \in Transactions /\ RowKept(t) /\ entry[t] \in EntryType
      /\ entry[t].type = None <=> entry[t].currency = None
  BY DEF Pending, RecordsInv, RecordsTyped, EntriesTyped
<1>2. Present(t) => entry[t].type \in Types /\ entry[t].currency \in Currencies
  BY <1>1 DEF Present, EntryType
<1>3. worker[w].version = entry[t].version =>
        \/ worker[w].version = 0
        \/ Present(t)
  BY <1>1 DEF RowKept
<1> QED  BY <1>1, <1>2, <1>3 DEF Pending, Merged, EntryType, RowKept

LEMMA PutCategoryStep ==
  ASSUME RecordsInv, DefaultsInv, NEW c \in Categories, NEW type \in Types \cup {"BOTH"},
         PutCategory(c, type)
  PROVE  RecordsInv' /\ DefaultsInv'
<1> DEFINE h == [history EXCEPT !.retyped = IF category[c] = None THEN @ ELSE @ \cup {c}]
<1>0. RecordsTyped /\ c # None /\ type # None
      /\ \A t \in Transactions : entry[t] \in EntryType
  BY LedgerAssumption
  DEF RecordsInv, RecordsTyped, EntriesTyped, LedgerAssumption, None, Types
<1>1. /\ category' = [category EXCEPT ![c] = type] /\ history' = h
      /\ account' = account /\ entry' = entry /\ worker' = worker
  BY DEF PutCategory
<1>2. /\ h.raced = history.raced /\ h.defaults = history.defaults
      /\ h.retyped = IF category[c] = None THEN history.retyped ELSE history.retyped \cup {c}
      /\ h \in [raced : SUBSET Transactions, retyped : SUBSET Categories,
                defaults : BOOLEAN]
  BY <1>0 DEF RecordsTyped
<1> HIDE DEF h
<1>3. /\ category' \in [Categories -> Types \cup {"BOTH", None}]
      /\ category'[c] = type /\ \A d \in Categories \ {c} : category'[d] = category[d]
  BY <1>0, <1>1 DEF RecordsTyped
<1>4. RecordsTyped'
  BY <1>0, <1>1, <1>2, <1>3
  DEF RecordsTyped, AccountsTyped, EntriesTyped, EntryType
<1>5. \A d \in Categories \cup {None} : \A x \in Types : Suits(d, x) => Suits(d, x)'
  <2>1. TAKE d \in Categories \cup {None}
  <2>2. TAKE x \in Types
  <2>3. HAVE Suits(d, x)
  <2>4. CASE d # c
    BY <1>1, <1>2, <1>3, <2>3, <2>4 DEF Suits, Fits, None
  <2>5. CASE d = c
    <3>1. SUFFICES ASSUME c \notin history'.retyped PROVE FALSE
      BY <2>5 DEF Suits
    <3>2. category[c] = None /\ c \notin history.retyped
      BY <1>1, <1>2, <3>1
    <3> QED  BY <1>0, <2>3, <2>5, <3>2 DEF Suits, Fits, Types, None
  <2> QED  BY <2>4, <2>5
<1>6. ASSUME NEW t \in Transactions PROVE RowKept(t)'
  <2>1. RowKept(t) /\ entry[t].type \in Types \cup {None}
        /\ entry[t].category \in Categories \cup {None}
    BY <1>0 DEF RecordsInv, EntryType
  <2>2. /\ Present(t)' <=> Present(t)
        /\ \A a, x : Backed(a, x)' <=> Backed(a, x)
    BY <1>1 DEF Present, Backed
  <2>3. Present(t) => entry[t].type \in Types
    BY <2>1 DEF Present
  <2>4. Present(t) /\ Suits(entry[t].category, entry[t].type)
          => Suits(entry[t].category, entry[t].type)'
    BY <1>1, <1>5, <2>1, <2>3
  <2>5. entry'[t].category # None => category'[entry'[t].category] # None
    BY <1>0, <1>1, <1>3, <2>1 DEF RowKept
  <2> QED  BY <1>1, <1>2, <2>1, <2>2, <2>4, <2>5 DEF RowKept
<1>7. ASSUME NEW w \in Workers PROVE WorkerKept(w)'
  <2>1. WorkerKept(w)
    BY DEF RecordsInv
  <2>2. ASSUME worker[w].pc = "write" PROVE Pending(w)'
    <3>1. Pending(w)
      BY <2>1, <2>2 DEF WorkerKept
    <3>2. \A k : Merged(w, k)' = Merged(w, k)
      BY <1>1 DEF Merged
    <3>3. worker[w].version = entry[worker[w].on].version =>
            /\ Merged(w, "type") \in Types
            /\ Merged(w, "category") \in Categories \cup {None}
      BY <3>1, PendingRow
    <3>4. worker[w].version = entry[worker[w].on].version =>
            Suits(Merged(w, "category"), Merged(w, "type"))'
      BY <1>1, <1>5, <3>1, <3>2, <3>3 DEF Pending
    <3>5. \A a, x : Backed(a, x)' <=> Backed(a, x)
      BY <1>1 DEF Backed
    <3>6. \A t : Present(t)' <=> Present(t)
      BY <1>1 DEF Present
    <3> QED  BY <1>1, <3>1, <3>2, <3>4, <3>5, <3>6 DEF Pending
  <2> QED  BY <1>1, <2>1, <2>2 DEF WorkerKept
<1>8. MadeAlone'
  BY <1>1 DEF RecordsInv, MadeAlone
<1>9. DefaultsInv'
  BY <1>1, <1>2, DefaultsRest DEF Settling
<1> QED  BY <1>4, <1>6, <1>7, <1>8, <1>9 DEF RecordsInv

LEMMA DeleteCategoryStep ==
  ASSUME RecordsInv, DefaultsInv, NEW c \in Categories, DeleteCategory(c)
  PROVE  RecordsInv' /\ DefaultsInv'
<1> DEFINE h == [history EXCEPT !.retyped = @ \cup {c}]
           cut(t) == [entry[t] EXCEPT !.category = None]
<1>0. RecordsTyped /\ c # None /\ \A t \in Transactions : entry[t] \in EntryType
  BY LedgerAssumption
  DEF RecordsInv, RecordsTyped, EntriesTyped, LedgerAssumption, None
<1>1. /\ category' = [category EXCEPT ![c] = None] /\ history' = h
      /\ entry' = [t \in Transactions |->
                     IF entry[t].category = c THEN cut(t) ELSE entry[t]]
      /\ account' = account /\ worker' = worker
  BY DEF DeleteCategory, Uncategorized
<1>2. /\ h.raced = history.raced /\ h.defaults = history.defaults
      /\ h.retyped = history.retyped \cup {c}
      /\ h \in [raced : SUBSET Transactions, retyped : SUBSET Categories,
                defaults : BOOLEAN]
  BY <1>0 DEF RecordsTyped
<1> HIDE DEF h
<1>3. /\ category' \in [Categories -> Types \cup {"BOTH", None}]
      /\ \A d \in Categories \ {c} : category'[d] = category[d]
  BY <1>0, <1>1 DEF RecordsTyped
<1>4. \A t \in Transactions :
        /\ entry'[t] \in EntryType
        /\ entry'[t].type = entry[t].type /\ entry'[t].currency = entry[t].currency
        /\ entry'[t].account = entry[t].account /\ entry'[t].version = entry[t].version
        /\ entry'[t].category = IF entry[t].category = c THEN None ELSE entry[t].category
  <2>1. TAKE t \in Transactions
  <2>2. /\ cut(t) \in EntryType /\ cut(t).category = None
        /\ cut(t).type = entry[t].type /\ cut(t).currency = entry[t].currency
        /\ cut(t).account = entry[t].account /\ cut(t).version = entry[t].version
    BY <1>0 DEF EntryType
  <2>3. entry'[t] = IF entry[t].category = c THEN cut(t) ELSE entry[t]
    BY <1>1
  <2> HIDE DEF cut
  <2> QED  BY <1>0, <2>2, <2>3
<1>5. RecordsTyped'
  <2>1. entry' \in [Transactions -> EntryType]
    BY <1>1, <1>4
  <2>2. EntriesTyped'
    BY <1>0, <1>4, <2>1 DEF RecordsTyped, EntriesTyped, EntryType
  <2> QED  BY <1>0, <1>1, <1>2, <1>3, <2>2 DEF RecordsTyped, AccountsTyped
<1>6. \A d \in Categories \cup {None} : \A x : Suits(d, x) => Suits(d, x)'
  BY <1>1, <1>2, <1>3 DEF Suits, Fits, None
<1>7. \A x : Suits(None, x)'
  BY DEF Suits, Fits
<1>8. \A t \in Transactions : Present(t)' <=> Present(t)
  BY <1>4 DEF Present
<1>9. \A a, x : Backed(a, x)' <=> Backed(a, x)
  BY <1>1 DEF Backed
<1>10. ASSUME NEW t \in Transactions PROVE RowKept(t)'
  <2>1. RowKept(t) /\ entry[t].category \in Categories \cup {None}
    BY <1>0 DEF RecordsInv, EntryType
  <2>2. Suits(entry[t].category, entry[t].type) => Suits(entry[t].category, entry[t].type)'
    BY <1>4, <1>6, <1>7, <2>1 DEF Suits, Fits
  <2>3. entry'[t].category # None => category'[entry'[t].category] # None
    BY <1>0, <1>3, <1>4, <2>1 DEF RowKept
  <2> QED  BY <1>1, <1>2, <1>4, <1>8, <1>9, <2>1, <2>2, <2>3 DEF RowKept
<1>11. ASSUME NEW w \in Workers PROVE WorkerKept(w)'
  <2>1. WorkerKept(w)
    BY DEF RecordsInv
  <2>2. ASSUME worker[w].pc = "write" PROVE Pending(w)'
    <3>1. Pending(w) /\ worker[w].on \in Transactions
      BY <2>1, <2>2 DEF WorkerKept, Pending
    <3>2. \A k : k \in {"type", "currency", "account"} => Merged(w, k)' = Merged(w, k)
      BY <1>1, <1>4, <3>1 DEF Merged
    <3>3. Merged(w, "category")' \in {Merged(w, "category"), None}
      BY <1>1, <1>4, <3>1 DEF Merged
    <3>4. worker[w].version = entry[worker[w].on].version =>
            /\ Merged(w, "type") \in Types
            /\ Merged(w, "category") \in Categories \cup {None}
      BY <3>1, PendingRow
    <3>5. worker[w].version = entry[worker[w].on].version =>
            Suits(Merged(w, "category"), Merged(w, "type"))'
      BY <1>6, <1>7, <3>1, <3>2, <3>3, <3>4 DEF Pending
    <3> QED  BY <1>1, <1>4, <1>8, <1>9, <3>1, <3>2, <3>5 DEF Pending
  <2> QED  BY <1>1, <2>1, <2>2 DEF WorkerKept
<1>12. MadeAlone'
  BY <1>1 DEF RecordsInv, MadeAlone
<1>13. DefaultsInv'
  BY <1>1, <1>2, DefaultsRest DEF Settling
<1> QED  BY <1>5, <1>10, <1>11, <1>12, <1>13 DEF RecordsInv

LEMMA DeleteEntryStep ==
  ASSUME RecordsInv, DefaultsInv, NEW t \in Transactions, Delete(t)
  PROVE  RecordsInv' /\ DefaultsInv'
<1>0. RecordsTyped /\ \A u \in Transactions : entry[u] \in EntryType
  BY DEF RecordsInv, RecordsTyped, EntriesTyped
<1>1. /\ entry' = [entry EXCEPT ![t] = NoEntry] /\ Present(t)
      /\ category' = category /\ account' = account /\ worker' = worker
      /\ history' = history
  BY DEF Delete
<1>2. NoEntry \in EntryType /\ NoEntry.type = None /\ NoEntry.currency = None
      /\ NoEntry.version = 0 /\ NoEntry.account = NoAccount /\ NoEntry.category = None
  BY DEF NoEntry, EntryType, NoAccount, Days
<1>3. /\ entry'[t] = NoEntry
      /\ \A u \in Transactions : u # t => entry'[u] = entry[u]
      /\ entry' \in [Transactions -> EntryType]
  BY <1>0, <1>1, <1>2 DEF RecordsTyped, EntriesTyped
<1>4. RecordsTyped'
  <2>1. EntriesTyped'
    BY <1>0, <1>2, <1>3 DEF RecordsTyped, EntriesTyped, EntryType
  <2> QED  BY <1>0, <1>1, <2>1 DEF RecordsTyped, AccountsTyped
<1>5. ASSUME NEW u \in Transactions PROVE RowKept(u)'
  <2>1. CASE u # t
    BY <1>1, <1>3, <2>1 DEF RecordsInv, RowKept, Present, Backed, Suits, Fits
  <2>2. CASE u = t
    BY <1>2, <1>3, <2>2 DEF RowKept, Present
  <2> QED  BY <2>1, <2>2
<1>6. ASSUME NEW w \in Workers PROVE WorkerKept(w)'
  <2>1. WorkerKept(w)
    BY DEF RecordsInv
  <2>2. ASSUME worker[w].pc = "write" PROVE Pending(w)'
    <3>1. Pending(w)
      BY <2>1, <2>2 DEF WorkerKept
    <3>2. CASE worker[w].on = t
      <4>1. worker[w].version # 0 /\ ~Present(t)'
        BY <1>1, <1>2, <1>3, <3>1, <3>2 DEF Pending, Present
      <4>2. worker'[w].version # entry'[worker'[w].on].version
        BY <1>1, <1>2, <1>3, <3>2, <4>1
      <4> QED  BY <1>1, <3>1, <3>2, <4>1, <4>2 DEF Pending
    <3>3. CASE worker[w].on # t
      <4>1. entry'[worker[w].on] = entry[worker[w].on]
        BY <1>3, <3>1, <3>3 DEF Pending
      <4>2. \A k : Merged(w, k)' = Merged(w, k)
        BY <1>1, <4>1 DEF Merged
      <4> QED  BY <1>1, <3>1, <4>1, <4>2 DEF Pending, Present, Backed, Suits, Fits
    <3> QED  BY <3>2, <3>3
  <2> QED  BY <1>1, <2>1, <2>2 DEF WorkerKept
<1>7. MadeAlone'
  BY <1>1 DEF RecordsInv, MadeAlone
<1>8. DefaultsInv'
  BY <1>1, DefaultsRest DEF Settling
<1> QED  BY <1>4, <1>5, <1>6, <1>7, <1>8 DEF RecordsInv

LEMMA CreateStep ==
  ASSUME RecordsInv, DefaultsInv, NEW w \in Workers, NEW t \in Transactions,
         NEW type \in Types, NEW currency \in Currencies,
         NEW a \in Accounts \cup {NoAccount}, NEW c \in Categories \cup {None},
         Create(w, t, type, currency, a, c)
  PROVE  RecordsInv' /\ DefaultsInv'
<1> DEFINE acc == IF a = NoAccount THEN Chosen(Seeded, currency) ELSE a
           f(day) == [type |-> type, currency |-> currency, category |-> c,
                      account |-> acc, day |-> day]
           q(day) == [pc |-> "write", on |-> t, version |-> 0, fields |-> f(day)]
<1>0. RecordsTyped /\ worker[w].pc = "idle"
  BY DEF RecordsInv, Create
<1>1. PICK day \in Days : worker' = [worker EXCEPT ![w] = q(day)]
  BY DEF Create
<1>2. /\ ~Present(t) /\ \A v \in Workers : worker[v].on # t
      /\ Fits(c, type) /\ category' = category /\ entry' = entry
  BY DEF Create
<1> DEFINE p == q(day)
<1>3. /\ p.pc = "write" /\ p.on = t /\ p.version = 0
      /\ {"type", "currency", "account", "category", "day"} \subseteq DOMAIN p.fields
      /\ p.fields.type = type /\ p.fields.currency = currency
      /\ p.fields.category = c /\ p.fields.account = acc /\ p.fields.day = day
  OBVIOUS
<1> HIDE DEF q
<1>4. /\ DOMAIN worker' = Workers /\ worker'[w] = p
      /\ \A v \in Workers \ {w} : worker'[v] = worker[v]
  BY <1>0, <1>1 DEF RecordsTyped
<1>5. Settling' = Settling /\ \A v \in Settling : worker'[v] = worker[v]
  BY <1>0, <1>3, <1>4 DEF Settling
<1>6. /\ AccountsGrow /\ DefaultsInv'
      /\ acc # NoAccount => /\ acc \in DOMAIN account'
                            /\ account'[acc].currency = currency
  <2>1. CASE a = NoAccount
    <3>1. /\ Spare(Len(Missing)) /\ account' = Seeded
          /\ history' = [history EXCEPT !.defaults = @ \/ SeedsDefault]
      BY <2>1 DEF Create
    <3>2. AccountsGrow /\ DefaultsInv'
      BY <1>2, <1>5, <3>1, SeededStep
    <3>3. Seeded \in Seq(AccountType)
      BY <1>0, SeededTyped DEF RecordsTyped
    <3> QED  BY <2>1, <3>1, <3>2, <3>3, ChosenFits
  <2>2. CASE a # NoAccount
    <3>1. /\ a \in DOMAIN account /\ account[a].currency = currency
          /\ account' = account /\ history' = history
      BY <2>2 DEF Create, Resolves
    <3>2. AccountsGrow
      BY <1>0, <1>2, <3>1 DEF AccountsGrow, RecordsTyped, AccountsTyped
    <3> QED  BY <1>5, <2>2, <3>1, <3>2, DefaultsRest
  <2> QED  BY <2>1, <2>2
<1> HIDE DEF acc
<1>7. RecordsTyped'
  BY <1>0, <1>4, <1>6 DEF RecordsTyped, AccountsGrow, EntriesTyped, EntryType
<1>8. \A u \in Transactions : RowKept(u)'
  BY <1>6, RowsGrow
<1>9. ASSUME NEW v \in Workers, v # w PROVE WorkerKept(v)'
  <2>1. WorkerKept(v) /\ worker'[v] = worker[v]
    BY <1>4, <1>9 DEF RecordsInv
  <2>2. worker[v].pc = "write" => Pending(v)'
    BY <1>6, <2>1, PendingGrows DEF WorkerKept
  <2> QED  BY <1>6, <2>1, <2>2 DEF WorkerKept, AccountsGrow
<1>10. WorkerKept(w)'
  <2>1. /\ Merged(w, "account")' = acc /\ Merged(w, "currency")' = currency
        /\ Merged(w, "category")' = c /\ Merged(w, "type")' = type
    BY <1>3, <1>4 DEF Merged
  <2>2. Backed(Merged(w, "account"), Merged(w, "currency"))'
    BY <1>6, <2>1 DEF Backed
  <2>3. Suits(Merged(w, "category"), Merged(w, "type"))'
    BY <1>2, <2>1 DEF Suits, Fits
  <2>4. ~Present(t)'
    BY <1>2 DEF Present
  <2>5. Pending(w)'
    BY <1>3, <1>4, <1>6, <2>2, <2>3, <2>4 DEF Pending
  <2> QED  BY <1>3, <1>4, <2>5 DEF WorkerKept
<1>11. MadeAlone'
  BY <1>2, <1>3, <1>4 DEF MadeAlone, RecordsInv
<1> QED  BY <1>6, <1>7, <1>8, <1>9, <1>10, <1>11 DEF RecordsInv

Keys == {"type", "currency", "account", "category", "day"}

LEMMA GivenTyped ==
  ASSUME NEW given \in Given
  PROVE  /\ DOMAIN given \subseteq Keys
         /\ "type" \in DOMAIN given => given.type \in Types
         /\ "currency" \in DOMAIN given => given.currency \in Currencies
         /\ "account" \in DOMAIN given => given.account \in Accounts
         /\ "category" \in DOMAIN given => given.category \in Categories
         /\ "day" \in DOMAIN given => given.day \in Days
BY DEF Given, Keys

\* What the request wants of the row x, and what it will write of it.
LEMMA Patched ==
  ASSUME NEW x \in EntryType, NEW given \in Given,
         NEW want, want = Over(given, x),
         NEW f,
         f = Over(IF want.category = None THEN given
                  ELSE Over(given, [category |-> want.category]),
                  IF want.account = NoAccount THEN [none |-> 0]
                  ELSE [account |-> want.account])
  PROVE  \A k \in Keys : /\ want[k] = IF k \in DOMAIN given THEN given[k] ELSE x[k]
                         /\ k \in DOMAIN f => f[k] = want[k]
                         /\ k \notin DOMAIN f => x[k] = want[k]
                         /\ k \in DOMAIN f => \/ k \in DOMAIN given
                                              \/ k \in {"account", "category"}
<1> DEFINE c == [category |-> want.category]
           g == IF want.category = None THEN given ELSE Over(given, c)
           a == IF want.account = NoAccount THEN [none |-> 0]
                ELSE [account |-> want.account]
<1>1. DOMAIN x = Keys \cup {"version"} /\ DOMAIN given \subseteq Keys
  BY GivenTyped DEF EntryType, Keys
<1>2. \A k \in Keys : want[k] = IF k \in DOMAIN given THEN given[k] ELSE x[k]
  BY <1>1 DEF Over
<1>3. DOMAIN c = {"category"} /\ c["category"] = want["category"]
  OBVIOUS
<1>4. /\ DOMAIN a = IF want["account"] = NoAccount THEN {"none"} ELSE {"account"}
      /\ want["account"] # NoAccount => a["account"] = want["account"]
  OBVIOUS
<1>5. f = Over(g, a)
  OBVIOUS
<1> HIDE DEF c, a
<1>6. /\ DOMAIN Over(given, c) = DOMAIN given \cup {"category"}
      /\ \A k \in DOMAIN given : Over(given, c)[k] = given[k]
      /\ "category" \notin DOMAIN given => Over(given, c)["category"] = want["category"]
  BY <1>3 DEF Over
<1>7. /\ DOMAIN g = IF want["category"] = None THEN DOMAIN given
                    ELSE DOMAIN given \cup {"category"}
      /\ \A k \in DOMAIN given : g[k] = given[k]
      /\ \A k \in DOMAIN g \ DOMAIN given : k = "category" /\ g[k] = want[k]
  <2>1. CASE want.category = None
    BY <2>1
  <2>2. CASE want.category # None
    <3>1. g = Over(given, c)
      BY <2>2
    <3> HIDE DEF g
    <3> QED  BY <1>6, <2>2, <3>1
  <2> QED  BY <2>1, <2>2
<1> HIDE DEF g
<1>8. /\ DOMAIN f = DOMAIN g \cup DOMAIN a
      /\ \A k \in DOMAIN g : f[k] = g[k]
      /\ \A k \in DOMAIN a \ DOMAIN g : f[k] = a[k]
  BY <1>5 DEF Over
<1>9. ASSUME NEW k \in Keys
      PROVE  /\ k \in DOMAIN f => f[k] = want[k]
             /\ k \notin DOMAIN f => x[k] = want[k]
             /\ k \in DOMAIN f => k \in DOMAIN given \/ k \in {"account", "category"}
  <2>1. CASE k \in DOMAIN given
    BY <1>2, <1>7, <1>8, <2>1
  <2>2. CASE k \notin DOMAIN given
    <3>1. want[k] = x[k] /\ k # "none"
      BY <1>2, <2>2 DEF Keys
    <3>2. CASE k \in DOMAIN g
      BY <1>7, <1>8, <2>2, <3>1, <3>2
    <3>3. CASE k \notin DOMAIN g
      BY <1>4, <1>8, <3>1, <3>3
    <3> QED  BY <3>2, <3>3
  <2> QED  BY <2>1, <2>2
<1> QED  BY <1>2, <1>9

LEMMA UpdateStep ==
  ASSUME RecordsInv, DefaultsInv, NEW w \in Workers, NEW t \in Transactions,
         NEW given \in Given,
         "account" \in DOMAIN given => given.account \in DOMAIN account,
         Update(w, t, given)
  PROVE  RecordsInv' /\ DefaultsInv'
<1> DEFINE want == Over(given, entry[t])
           f == Over(IF want.category = None THEN given
                     ELSE Over(given, [category |-> want.category]),
                     IF want.account = NoAccount THEN [none |-> 0]
                     ELSE [account |-> want.account])
           p == [pc |-> "write", on |-> t, version |-> entry[t].version, fields |-> f]
<1>0. RecordsTyped /\ worker[w].pc = "idle" /\ Present(t) /\ entry[t] \in EntryType
      /\ RowKept(t)
  BY DEF RecordsInv, RecordsTyped, EntriesTyped, Update
<1>1. /\ Fits(want.category, want.type)
      /\ want.account # NoAccount => account[want.account].currency = want.currency
      /\ worker' = [worker EXCEPT ![w] = p]
      /\ account' = account /\ category' = category /\ entry' = entry
      /\ history' = history
  BY DEF Update, Resolves
<1>2. p.pc = "write" /\ p.on = t /\ p.version = entry[t].version /\ p.fields = f
  OBVIOUS
<1>3. \A k \in Keys : /\ want[k] = IF k \in DOMAIN given THEN given[k] ELSE entry[t][k]
                      /\ k \in DOMAIN f => f[k] = want[k]
                      /\ k \notin DOMAIN f => entry[t][k] = want[k]
                      /\ k \in DOMAIN f => \/ k \in DOMAIN given
                                           \/ k \in {"account", "category"}
  <2> HIDE DEF want
  <2>1. want = Over(given, entry[t])
    BY DEF want
  <2> QED  BY <1>0, <2>1, Patched
<1> HIDE DEF want, f, p
<1>4. /\ DOMAIN worker' = Workers /\ worker'[w] = p
      /\ \A v \in Workers \ {w} : worker'[v] = worker[v]
  BY <1>0, <1>1 DEF RecordsTyped
<1>5. Settling' = Settling /\ \A v \in Settling : worker'[v] = worker[v]
  BY <1>0, <1>2, <1>4 DEF Settling
<1>6. DefaultsInv'
  BY <1>1, <1>5, DefaultsRest
<1>7. AccountsGrow
  BY <1>0, <1>1 DEF AccountsGrow, RecordsTyped, AccountsTyped
<1>8. RecordsTyped'
  BY <1>0, <1>1, <1>4 DEF RecordsTyped, AccountsTyped, EntriesTyped, EntryType
<1>9. \A u \in Transactions : RowKept(u)'
  BY <1>7, RowsGrow
<1>10. ASSUME NEW v \in Workers, v # w PROVE WorkerKept(v)'
  <2>1. WorkerKept(v) /\ worker'[v] = worker[v]
    BY <1>4, <1>10 DEF RecordsInv
  <2>2. worker[v].pc = "write" => Pending(v)'
    BY <1>7, <2>1, PendingGrows DEF WorkerKept
  <2> QED  BY <1>1, <2>1, <2>2 DEF WorkerKept
<1>11. WorkerKept(w)'
  <2>1. \A k \in Keys : Merged(w, k)' = want[k]
    BY <1>1, <1>2, <1>3, <1>4 DEF Merged
  <2>2. Backed(Merged(w, "account"), Merged(w, "currency"))'
    BY <1>1, <2>1 DEF Backed, Keys
  <2>3. Suits(Merged(w, "category"), Merged(w, "type"))'
    BY <1>1, <2>1 DEF Suits, Fits, Keys
  <2>4. /\ "type" \in DOMAIN f => f["type"] \in Types
        /\ "currency" \in DOMAIN f => f["currency"] \in Currencies
        /\ "day" \in DOMAIN f => f["day"] \in Days
    BY <1>3, GivenTyped DEF Keys
  <2>5. want["account"] \in {NoAccount} \cup DOMAIN account
        /\ want["category"] \in Categories \cup {None}
    BY <1>0, <1>3, GivenTyped DEF Keys, EntryType, RowKept
  <2>6. /\ "account" \in DOMAIN f => f["account"] \in {NoAccount} \cup DOMAIN account
        /\ "category" \in DOMAIN f => f["category"] \in Categories \cup {None}
    BY <1>3, <2>5 DEF Keys
  <2>7. entry[t].version \in Nat /\ entry[t].version # 0 /\ entry'[t] = entry[t]
    BY <1>0, <1>1 DEF EntryType, RowKept
  <2>8. Pending(w)'
    BY <1>1, <1>2, <1>4, <2>2, <2>3, <2>4, <2>6, <2>7 DEF Pending
  <2> QED  BY <1>2, <1>4, <2>8 DEF WorkerKept
<1>12. MadeAlone'
  <2>1. \A v \in Workers : worker[v].pc = "write" /\ worker[v].version = 0
                             => worker[v].on # t
    BY <1>0 DEF RecordsInv, WorkerKept, Pending
  <2>2. p.version # 0
    BY <1>0, <1>2 DEF RowKept
  <2> QED  BY <1>2, <1>4, <2>1, <2>2 DEF MadeAlone, RecordsInv
<1> QED  BY <1>6, <1>8, <1>9, <1>10, <1>11, <1>12 DEF RecordsInv

LEMMA WriteStep ==
  ASSUME RecordsInv, DefaultsInv, NEW w \in Workers, Write(w)
  PROVE  RecordsInv' /\ DefaultsInv'
<1> DEFINE t == worker[w].on
           f == worker[w].fields
           new == [k \in DOMAIN NoEntry |->
                     IF k = "version" THEN entry[t].version + 1
                     ELSE IF k \in DOMAIN f THEN f[k] ELSE entry[t][k]]
           valid == /\ worker[w].version > 0 => Present(t)
                    /\ "category" \in DOMAIN f =>
                         f.category = None \/ category[f.category] # None
           fresh == worker[w].version = entry[t].version
           h == [history EXCEPT !.raced = @ \cup {t}]
<1>0. /\ RecordsTyped /\ worker[w].pc = "write" /\ Pending(w)
      /\ t \in Transactions /\ RowKept(t) /\ entry[t] \in EntryType
      /\ worker[w].version \in Nat
      /\ entry[t].type = None <=> entry[t].currency = None
  BY DEF RecordsInv, RecordsTyped, EntriesTyped, Write, WorkerKept, Pending
<1>1. /\ entry' = IF valid THEN [entry EXCEPT ![t] = new] ELSE entry
      /\ history' = IF valid /\ ~fresh THEN h ELSE history
      /\ worker' = [worker EXCEPT ![w] = Idle]
      /\ account' = account /\ category' = category
  BY DEF Write
<1>2. /\ h.raced = history.raced \cup {t} /\ h.retyped = history.retyped
      /\ h.defaults = history.defaults
      /\ h \in [raced : SUBSET Transactions, retyped : SUBSET Categories,
                defaults : BOOLEAN]
  BY <1>0 DEF RecordsTyped
<1> HIDE DEF h
<1>3. /\ history'.retyped = history.retyped /\ history'.defaults = history.defaults
      /\ history.raced \subseteq history'.raced
      /\ valid /\ ~fresh => t \in history'.raced
      /\ history' \in [raced : SUBSET Transactions, retyped : SUBSET Categories,
                       defaults : BOOLEAN]
  BY <1>0, <1>1, <1>2 DEF RecordsTyped
<1>4. /\ DOMAIN worker' = Workers /\ worker'[w] = Idle /\ Idle.pc = "idle"
      /\ \A v \in Workers \ {w} : worker'[v] = worker[v]
  BY <1>0, <1>1 DEF RecordsTyped, Idle
<1>5. DefaultsInv'
  <2>1. Settling' = Settling /\ \A v \in Settling : worker'[v] = worker[v]
    BY <1>0, <1>4 DEF Settling
  <2> QED  BY <1>1, <1>3, <2>1, DefaultsRest
\* What is written: of a row that is there, or all of a new one.
<1>6. new = [k \in Keys \cup {"version"} |->
               IF k = "version" THEN entry[t].version + 1 ELSE Merged(w, k)]
  BY DEF NoEntry, Keys, Merged
<1>7. /\ new.version = entry[t].version + 1
      /\ new.type = Merged(w, "type") /\ new.currency = Merged(w, "currency")
      /\ new.account = Merged(w, "account") /\ new.category = Merged(w, "category")
      /\ new.day = Merged(w, "day")
  BY <1>6 DEF Keys
<1>8. valid => /\ Merged(w, "type") \in Types /\ Merged(w, "currency") \in Currencies
               /\ Merged(w, "category") # None => category[Merged(w, "category")] # None
  BY <1>0 DEF Merged, Pending, EntryType, Present, RowKept
<1>9. /\ Merged(w, "category") \in Categories \cup {None}
      /\ Merged(w, "account") \in {NoAccount} \cup DOMAIN account
      /\ Merged(w, "day") \in Days
  BY <1>0, PendingRow
<1>10. NoAccount \in Nat /\ DOMAIN account \subseteq Nat /\ None \notin Types \cup Currencies
  BY <1>0 DEF RecordsTyped, AccountsTyped, NoAccount, None, Types, Currencies
<1>11. valid => new \in EntryType
  <2> SUFFICES ASSUME valid PROVE new \in EntryType
    OBVIOUS
  <2>1. entry[t].version + 1 \in Nat
    BY <1>0 DEF EntryType
  <2>2. DOMAIN new = {"type", "currency", "account", "category", "day", "version"}
    BY <1>6 DEF Keys
  <2>3. new = [type |-> new.type, currency |-> new.currency, account |-> new.account,
               category |-> new.category, day |-> new.day, version |-> new.version]
    BY <1>6 DEF Keys
  <2> HIDE DEF new, valid
  <2> QED  BY <1>7, <1>8, <1>9, <1>10, <2>1, <2>3 DEF EntryType
<1>12. /\ valid => entry'[t] = new
       /\ ~valid => entry' = entry
       /\ \A u \in Transactions : u # t => entry'[u] = entry[u]
       /\ entry' \in [Transactions -> EntryType]
  <2> HIDE DEF new, valid
  <2> QED  BY <1>0, <1>1, <1>11 DEF RecordsTyped, EntriesTyped
<1> HIDE DEF new, valid, fresh
<1>13. RecordsTyped'
  <2>1. EntriesTyped'
    BY <1>0, <1>7, <1>8, <1>10, <1>12 DEF RecordsTyped, EntriesTyped
  <2> QED  BY <1>0, <1>1, <1>3, <1>4, <2>1 DEF RecordsTyped, AccountsTyped
<1>14. (\A a, x : Backed(a, x)' <=> Backed(a, x)) /\ (\A c, x : Suits(c, x)' <=> Suits(c, x))
  BY <1>1, <1>3 DEF Backed, Suits, Fits
<1>15. ASSUME NEW u \in Transactions PROVE RowKept(u)'
  <2>1. RowKept(u)
    BY DEF RecordsInv
  <2>2. CASE u # t \/ ~valid
    BY <1>1, <1>3, <1>12, <2>1, <2>2 DEF RowKept, Present, Backed, Suits, Fits
  <2>3. CASE u = t /\ valid
    <3>1. /\ entry'[u].version = entry[u].version + 1 /\ entry[u].version \in Nat
          /\ entry'[u].type = Merged(w, "type") /\ entry'[u].type \in Types
          /\ entry'[u].currency = Merged(w, "currency")
          /\ entry'[u].account = Merged(w, "account")
          /\ entry'[u].category = Merged(w, "category")
      BY <1>0, <1>7, <1>8, <1>12, <2>3 DEF EntryType
    <3>2. Present(u)' /\ entry'[u].version # 0
      BY <1>10, <3>1 DEF Present
    <3>3. /\ entry'[u].account \in {NoAccount} \cup DOMAIN account'
          /\ entry'[u].category # None => category'[entry'[u].category] # None
      BY <1>1, <1>8, <1>9, <2>3, <3>1
    <3>4. u \notin history'.raced =>
            /\ Backed(Merged(w, "account"), Merged(w, "currency"))
            /\ Suits(Merged(w, "category"), Merged(w, "type"))
      BY <1>0, <1>3, <2>3 DEF Pending, fresh
    <3>5. u \notin history'.raced =>
            /\ Backed(entry[u].account, entry[u].currency)'
            /\ Suits(entry[u].category, entry[u].type)'
      BY <1>1, <1>3, <3>1, <3>4 DEF Backed, Suits, Fits
    <3> QED  BY <3>2, <3>3, <3>5 DEF RowKept
  <2> QED  BY <2>2, <2>3
<1>16. ASSUME NEW v \in Workers PROVE WorkerKept(v)'
  <2>1. CASE v = w
    BY <1>4, <2>1 DEF WorkerKept
  <2>2. CASE v # w
    <3>1. WorkerKept(v) /\ worker'[v] = worker[v]
      BY <1>4, <2>2 DEF RecordsInv
    <3>2. ASSUME worker[v].pc = "write" PROVE Pending(v)'
      <4>1. Pending(v) /\ worker[v].on \in Transactions
        BY <3>1, <3>2 DEF WorkerKept, Pending
      <4>2. CASE worker[v].on # t \/ ~valid
        <5>1. entry'[worker[v].on] = entry[worker[v].on]
          BY <1>12, <4>1, <4>2
        <5>2. \A k : Merged(v, k)' = Merged(v, k)
          BY <3>1, <5>1 DEF Merged
        <5> QED  BY <1>1, <1>3, <3>1, <4>1, <5>1, <5>2
                 DEF Pending, Present, Backed, Suits, Fits
      <4>3. CASE worker[v].on = t /\ valid
        <5>1. worker[v].version # 0 /\ worker[w].version # 0
          BY <1>0, <2>2, <3>2, <4>3 DEF RecordsInv, MadeAlone
        <5>2. Present(t)
          BY <1>0, <4>3, <5>1 DEF valid
        <5>3. worker[v].version < entry'[t].version /\ worker[v].version \in Nat
          <6>1. worker[v].version <= entry[t].version /\ worker[v].version \in Nat
            BY <4>1, <4>3, <5>2 DEF Pending
          <6>2. entry[t].version \in Nat /\ entry'[t].version = entry[t].version + 1
            BY <1>0, <1>7, <1>12, <4>3 DEF EntryType
          <6> QED  BY <6>1, <6>2
        <5>4. worker[v].version <= entry'[t].version /\ worker[v].version # entry'[t].version
          <6>1. entry'[t].version \in Nat
            BY <1>12, <1>0 DEF EntryType
          <6> QED  BY <5>3, <6>1
        <5> QED  BY <1>1, <3>1, <4>1, <4>3, <5>1, <5>3, <5>4 DEF Pending
      <4> QED  BY <4>2, <4>3
    <3> QED  BY <1>1, <3>1, <3>2 DEF WorkerKept
  <2> QED  BY <2>1, <2>2
<1>17. MadeAlone'
  BY <1>4 DEF MadeAlone, RecordsInv
<1> QED  BY <1>5, <1>13, <1>15, <1>16, <1>17 DEF RecordsInv

LEMMA LedgerStep ==
  ASSUME RecordsInv, DefaultsInv, [Next]_vars PROVE RecordsInv' /\ DefaultsInv'
<1>1. CASE UNCHANGED vars
  <2>1. /\ account' = account /\ category' = category /\ entry' = entry
        /\ worker' = worker /\ history' = history
    BY <1>1 DEF vars
  <2>2. DefaultsInv'
    BY <2>1, DefaultsRest DEF Settling
  <2>3. AccountsGrow
    BY <2>1 DEF AccountsGrow, RecordsInv, RecordsTyped, AccountsTyped
  <2> QED  BY <2>1, <2>2, <2>3, RecordsGrow DEF RecordsInv, RecordsTyped
<1>2. CASE Next
  <2>1. CASE ListAccounts
    BY <2>1, ListAccountsStep
  <2>2. CASE \E a \in Accounts : UpdateAccount(a)
    BY <2>2, UpdateAccountStep
  <2>3. CASE \E c \in Categories : DeleteCategory(c)
    BY <2>3, DeleteCategoryStep
  <2>4. CASE \E c \in Categories, type \in Types \cup {"BOTH"} : PutCategory(c, type)
    BY <2>4, PutCategoryStep
  <2>5. CASE \E t \in Transactions : Delete(t)
    BY <2>5, DeleteEntryStep
  <2>6. CASE \E w \in Workers : AddedDefault(w)
    BY <2>6, AddedDefaultStep
  <2>7. CASE \E w \in Workers : SetDefaultDone(w)
    BY <2>7, SetDefaultDoneStep
  <2>8. CASE \E w \in Workers : Write(w)
    BY <2>8, WriteStep
  <2>9. CASE \E w \in Workers, currency \in Currencies : AddDefault(w, currency)
    BY <2>9, AddDefaultStep
  <2>10. CASE \E w \in Workers, a \in Accounts : SetDefault(w, a)
    BY <2>10, SetDefaultStep
  <2>11. CASE \E w \in Workers, t \in Transactions, given \in Given :
                /\ "account" \in DOMAIN given => given.account \in DOMAIN account
                /\ Update(w, t, given)
    BY <2>11, UpdateStep
  <2>12. CASE \E w \in Workers, t \in Transactions, type \in Types,
                 currency \in Currencies, a \in Accounts \cup {NoAccount},
                 c \in Categories \cup {None} : Create(w, t, type, currency, a, c)
    BY <2>12, CreateStep
  <2> QED
    BY <1>2, <2>1, <2>2, <2>3, <2>4, <2>5, <2>6, <2>7, <2>8, <2>9, <2>10, <2>11, <2>12
    DEF Next
<1> QED  BY <1>1, <1>2

LEMMA LedgerPromised ==
  RecordsInv /\ DefaultsInv => TypeOK /\ EntryAgrees /\ BooksAgree /\ OneDefault
<1> SUFFICES ASSUME RecordsInv, DefaultsInv
             PROVE  TypeOK /\ EntryAgrees /\ BooksAgree /\ OneDefault
  OBVIOUS
<1>0. RecordsTyped /\ \A t \in Transactions : RowKept(t)
  BY DEF RecordsInv
<1>1. TypeOK
  BY <1>0 DEF TypeOK, RecordsTyped, AccountsTyped, EntriesTyped, EntryType, RowKept
<1>2. EntryAgrees
  BY <1>0 DEF EntryAgrees, RowKept, Backed, Suits
<1>3. OneDefault
  BY DEF OneDefault, DefaultsInv
<1>4. ASSUME NEW currency \in Currencies, history.raced = {},
             NEW own, own = {a \in DOMAIN account : account[a].currency = currency},
             NEW loose, loose = {t \in Transactions : /\ entry[t].account = NoAccount
                                                      /\ entry[t].currency = currency},
             NEW parts, parts = [c \in Categories \cup {None} |->
                            Breakdown("INCOME", currency, Days)[c]
                              - Breakdown("EXPENSE", currency, Days)[c]]
      PROVE  /\ NetProfit(currency, Days) =
                  SumFunction([a \in own |-> Balance(a)]) + SumFunctionOnSet(Signed, loose)
             /\ NetProfit(currency, Days) =
                  NetProfit(currency, {1}) + NetProfit(currency, {2})
             /\ NetProfit(currency, Days) = SumFunction(parts)
  <2>1. EntriesTyped /\ account \in Seq(AccountType)
    BY <1>0 DEF RecordsTyped, AccountsTyped
  <2>2. IsFiniteSet(DOMAIN account) /\ NoAccount \notin DOMAIN account
    <3>1. DOMAIN account = 1..Len(account) /\ Len(account) \in Nat
      BY <2>1
    <3> QED  BY <3>1, FS_Interval DEF NoAccount
  <2>3. \A t \in Transactions :
          /\ entry[t].account \in {NoAccount} \cup DOMAIN account
          /\ Present(t) /\ entry[t].account # NoAccount =>
               account[entry[t].account].currency = entry[t].currency
    BY <1>0, <1>4 DEF RowKept, Backed
  <2> QED  BY <1>4, <2>1, <2>2, <2>3, SumsAgree
<1>5. BooksAgree
  BY <1>4 DEF BooksAgree
<1> QED  BY <1>1, <1>2, <1>3, <1>5

-----------------------------------------------------------------------------
(* Budgets.  Budgets of categories are of different categories, so no      *)
(* transaction is in two of them.                                          *)

BudgetsTyped ==
  /\ group \subseteq Groups
  /\ budget \in [Workers -> [there : BOOLEAN, on : Groups \cup {Overall}, amount : Nat]]
  /\ spending \in [Spendings -> [there : BOOLEAN, expense : BOOLEAN,
                                 on : Groups \cup {Overall}]]

BudgetsInv == BudgetsTyped /\ Budgeting!TypeOK

LEMMA BudgetsInit == Budgeting!Init => BudgetsInv
<1> SUFFICES ASSUME Budgeting!Init PROVE BudgetsInv
  OBVIOUS
<1> USE BudgetsAssumption DEF Budgeting!Init, Budgeting!NoBudget, Budgeting!NoEntry,
                              Budgeting!BudgetsAssumption
<1>1. BudgetsTyped
  BY DEF BudgetsTyped
<1>2. Budgeting!There = {}
  BY DEF Budgeting!There
<1>3. \A t \in Spendings : spending[t].on \in Budgeting!Kinds
  BY DEF Budgeting!Kinds
<1>4. Budgeting!TypeOK
  BY <1>1, <1>2, <1>3 DEF Budgeting!TypeOK, BudgetsTyped
<1> QED  BY <1>1, <1>4 DEF BudgetsInv

LEMMA BudgetsStep ==
  ASSUME BudgetsInv, [Budgeting!Next]_(Budgeting!vars) PROVE BudgetsInv'
<1> USE DEF BudgetsInv
<1> DEFINE B == [there : BOOLEAN, on : Groups \cup {Overall}, amount : Nat]
           E == [there : BOOLEAN, expense : BOOLEAN, on : Groups \cup {Overall}]
<1>0. /\ \A b \in Workers : budget[b] \in B
      /\ \A t \in Spendings : spending[t] \in E
      /\ Overall \notin Groups
  BY BudgetsAssumption DEF BudgetsTyped, Budgeting!BudgetsAssumption
<1>1. ASSUME UNCHANGED Budgeting!vars PROVE BudgetsInv'
  BY <1>1 DEF Budgeting!vars, BudgetsTyped, Budgeting!TypeOK, Budgeting!There,
    Budgeting!Kinds
<1>2. ASSUME NEW b \in Workers, NEW c \in Groups \cup {Overall}, NEW a \in BudgetAmounts,
             Budgeting!CreateBudget(b, c, a)
      PROVE  BudgetsInv'
  <2> DEFINE n == [there |-> TRUE, on |-> c, amount |-> a]
  <2>1. n \in B /\ n.on = c /\ n.there
    BY <1>2, BudgetsAssumption DEF Budgeting!BudgetsAssumption
  <2>2. /\ budget' = [budget EXCEPT ![b] = n] /\ group' = group /\ spending' = spending
        /\ c \in Budgeting!Kinds /\ ~Budgeting!Taken(c)
    BY <1>2 DEF Budgeting!CreateBudget
  <2> HIDE DEF n
  <2>3. BudgetsTyped'
    BY <2>1, <2>2 DEF BudgetsTyped
  <2>4. \A d \in Workers : budget'[d] = IF d = b THEN n ELSE budget[d]
    BY <2>2 DEF BudgetsTyped
  <2>5. Budgeting!TypeOK'
    <3> HIDE DEF B
    <3> QED  BY <2>1, <2>2, <2>3, <2>4
             DEF Budgeting!TypeOK, Budgeting!There, Budgeting!Kinds, Budgeting!Taken,
                 BudgetsTyped
  <2> QED  BY <2>3, <2>5
<1>3. ASSUME NEW b \in Workers, NEW a \in BudgetAmounts, Budgeting!UpdateBudget(b, a)
      PROVE  BudgetsInv'
  <2> DEFINE n == [budget[b] EXCEPT !.amount = a]
  <2>1. n \in B /\ n.on = budget[b].on /\ n.there = budget[b].there
    BY <1>0, <1>3, BudgetsAssumption DEF Budgeting!BudgetsAssumption
  <2>2. /\ budget' = [budget EXCEPT ![b] = n] /\ group' = group /\ spending' = spending
    BY <1>3 DEF Budgeting!UpdateBudget
  <2> HIDE DEF n
  <2>3. BudgetsTyped'
    BY <2>1, <2>2 DEF BudgetsTyped
  <2>4. \A d \in Workers : budget'[d].on = budget[d].on /\ budget'[d].there = budget[d].there
    BY <2>1, <2>2 DEF BudgetsTyped
  <2>5. Budgeting!TypeOK'
    <3> HIDE DEF B
    <3> QED  BY <2>2, <2>3, <2>4
             DEF Budgeting!TypeOK, Budgeting!There, Budgeting!Kinds, BudgetsTyped
  <2> QED  BY <2>3, <2>5
<1>4. ASSUME NEW b \in Workers, Budgeting!DeleteBudget(b) PROVE BudgetsInv'
  <2> DEFINE n == Budgeting!NoBudget
  <2>1. n \in B /\ ~n.there
    BY DEF Budgeting!NoBudget
  <2>2. /\ budget' = [budget EXCEPT ![b] = n] /\ group' = group /\ spending' = spending
    BY <1>4 DEF Budgeting!DeleteBudget
  <2> HIDE DEF n
  <2>3. BudgetsTyped'
    BY <2>1, <2>2 DEF BudgetsTyped
  <2>4. \A d \in Workers : budget'[d].there => budget'[d] = budget[d] /\ budget[d].there
    BY <2>1, <2>2 DEF BudgetsTyped
  <2>5. Budgeting!TypeOK'
    <3> HIDE DEF B
    <3> QED  BY <2>2, <2>3, <2>4
             DEF Budgeting!TypeOK, Budgeting!There, Budgeting!Kinds, BudgetsTyped
  <2> QED  BY <2>3, <2>5
<1>5. ASSUME NEW c \in Groups, Budgeting!DeleteCategory(c) PROVE BudgetsInv'
  <2>1. /\ group' = group \ {c} /\ c \in group
        /\ spending' = [t \in Spendings |-> IF spending[t].on = c
                          THEN [spending[t] EXCEPT !.on = Overall] ELSE spending[t]]
        /\ budget' = [b \in Workers |-> IF budget[b].on = c
                        THEN [budget[b] EXCEPT !.on = Overall] ELSE budget[b]]
    BY <1>5 DEF Budgeting!DeleteCategory
  <2>2. \A b \in Workers :
          /\ budget'[b] \in B /\ budget'[b].there = budget[b].there
          /\ budget'[b].on = IF budget[b].on = c THEN Overall ELSE budget[b].on
    <3>1. TAKE b \in Workers
    <3> DEFINE n == [budget[b] EXCEPT !.on = Overall]
    <3>2. n \in B /\ n.on = Overall /\ n.there = budget[b].there
      BY <1>0
    <3>3. budget'[b] = IF budget[b].on = c THEN n ELSE budget[b]
      BY <2>1
    <3> HIDE DEF n, B
    <3> QED  BY <1>0, <3>2, <3>3
  <2>3. \A t \in Spendings :
          /\ spending'[t] \in E
          /\ spending'[t].on = IF spending[t].on = c THEN Overall ELSE spending[t].on
    <3>1. TAKE t \in Spendings
    <3> DEFINE n == [spending[t] EXCEPT !.on = Overall]
    <3>2. n \in E /\ n.on = Overall
      BY <1>0
    <3>3. spending'[t] = IF spending[t].on = c THEN n ELSE spending[t]
      BY <2>1
    <3> HIDE DEF n, E
    <3> QED  BY <1>0, <3>2, <3>3
  <2>4. BudgetsTyped'
    <3> HIDE DEF B, E
    <3>1. group' \subseteq Groups
      BY <2>1 DEF BudgetsTyped
    <3>2. budget' \in [Workers -> B]
      BY <2>1, <2>2
    <3>3. spending' \in [Spendings -> E]
      BY <2>1, <2>3
    <3> QED  BY <3>1, <3>2, <3>3 DEF BudgetsTyped, B, E
  <2>5. Budgeting!TypeOK'
    <3> HIDE DEF B, E
    <3> QED  BY <1>0, <2>1, <2>2, <2>3, <2>4
             DEF Budgeting!TypeOK, Budgeting!There, Budgeting!Kinds, BudgetsTyped
  <2> QED  BY <2>4, <2>5
<1>6. ASSUME NEW t \in Spendings, NEW x \in BOOLEAN, NEW c \in Groups \cup {Overall},
             Budgeting!Record(t, x, c)
      PROVE  BudgetsInv'
  <2> DEFINE n == [there |-> TRUE, expense |-> x, on |-> c]
  <2>1. n \in E /\ n.on = c /\ c \in Budgeting!Kinds
    BY <1>6 DEF Budgeting!Record
  <2>2. /\ spending' = [spending EXCEPT ![t] = n] /\ group' = group /\ budget' = budget
    BY <1>6 DEF Budgeting!Record
  <2> HIDE DEF n
  <2>3. BudgetsTyped'
    BY <2>1, <2>2 DEF BudgetsTyped
  <2>4. \A s \in Spendings : spending'[s] = IF s = t THEN n ELSE spending[s]
    BY <2>2 DEF BudgetsTyped
  <2>5. Budgeting!TypeOK'
    <3> HIDE DEF E
    <3> QED  BY <2>1, <2>2, <2>3, <2>4
             DEF Budgeting!TypeOK, Budgeting!There, Budgeting!Kinds, BudgetsTyped
  <2> QED  BY <2>3, <2>5
<1> HIDE DEF BudgetsInv
<1> QED  BY <1>1, <1>2, <1>3, <1>4, <1>5, <1>6 DEF Budgeting!Next

LEMMA BudgetSums ==
  \A f, S : /\ Budgeting!SumFunctionOnSet(f, S) = Sum(f, S)
            /\ Budgeting!SumFunction(f) = Sum(f, DOMAIN f)
BY DEF Sum, SumFunctionOnSet, Budgeting!SumFunctionOnSet, Budgeting!SumFunction,
  FoldFunctionOnSet, Budgeting!FoldFunctionOnSet, MapThenFoldSet, Budgeting!MapThenFoldSet

LEMMA BudgetsFinite == IsFiniteSet(Workers) /\ IsFiniteSet(Spendings)
BY BudgetsAssumption DEF Budgeting!BudgetsAssumption, IsFiniteSet, Budgeting!IsFiniteSet

LEMMA BudgetsPromised == BudgetsInv => Budgeting!TypeOK /\ Budgeting!BudgetsAddUp
<1> SUFFICES ASSUME BudgetsInv PROVE Budgeting!BudgetsAddUp
  BY DEF BudgetsInv
<1> DEFINE own == {b \in Budgeting!There : budget[b].on # Overall}
           f == Budgeting!Amount
           Paid(S) == {t \in S : spending[t].expense}
           All == Paid(Budgeting!Recorded)
           h == [b \in own |-> Budgeting!Spent(b)]
           T == {t \in All : \E b \in own : budget[b].on = spending[t].on}
           key == [t \in T |-> CHOOSE b \in own : budget[b].on = spending[t].on]
<1>1. \A S : S \subseteq Spendings => /\ Counts(f, S) /\ \A t \in S : f[t] \in Nat
                                      /\ Sum(f, S) \in Int
  <2>1. TAKE S
  <2>2. HAVE S \subseteq Spendings
  <2>3. IsFiniteSet(S)
    BY <2>2, BudgetsFinite, FS_Subset
  <2>4. \A t \in S : f[t] = t /\ t \in Nat
    BY <2>2, BudgetsAssumption DEF Budgeting!BudgetsAssumption, Budgeting!Amount
  <2> HIDE DEF f
  <2>5. Counts(f, S)
    BY <2>3, <2>4 DEF Counts
  <2> QED  BY <2>4, <2>5, SumTakes
<1>2. All \subseteq Spendings /\ own \subseteq Workers /\ IsFiniteSet(own) /\ T \subseteq All
  <2>1. own \subseteq Workers /\ All \subseteq Spendings
    BY DEF Budgeting!There, Budgeting!Recorded
  <2> QED  BY <2>1, BudgetsFinite, FS_Subset
<1>3. \A b, d \in own : budget[b].on = budget[d].on => b = d
  BY DEF BudgetsInv, Budgeting!TypeOK
<1>4. \A t \in T : key[t] \in own /\ budget[key[t]].on = spending[t].on
  OBVIOUS
<1>5. \A b \in own :
        With(T, key, b) =
          Paid({t \in Budgeting!Recorded : spending[t].on = budget[b].on})
  <2>1. TAKE b \in own
  <2>2. \A t \in With(T, key, b) : t \in All /\ spending[t].on = budget[b].on
    BY <1>4 DEF With
  <2>3. \A t \in All : spending[t].on = budget[b].on => t \in T /\ key[t] = b
    BY <1>3, <1>4
  <2> HIDE DEF key, T
  <2>4. \A t : t \in With(T, key, b) <=> t \in All /\ spending[t].on = budget[b].on
    BY <2>2, <2>3 DEF With
  <2> QED  BY <2>4
<1>6. \A b \in own : h[b] = Sum(f, With(T, key, b))
  <2>1. TAKE b \in own
  <2>2. h[b] = Budgeting!SpentOn(budget[b].on)
    BY DEF Budgeting!Spent
  <2>3. Budgeting!SpentOn(budget[b].on) =
          Budgeting!SumFunctionOnSet(f,
            Paid({t \in Budgeting!Recorded : spending[t].on = budget[b].on}))
    BY DEF Budgeting!SpentOn, Budgeting!Spending
  <2> HIDE DEF f, own, h, key, T, Paid
  <2> QED  BY <1>5, <2>1, <2>2, <2>3, BudgetSums
<1>7. Budgeting!Spending(Budgeting!Recorded) = Sum(f, All)
  BY BudgetSums DEF Budgeting!Spending
<1>8. DOMAIN h = own /\ Budgeting!SumFunction(h) = Sum(h, own)
  BY BudgetSums
<1>9. Under(T, key, own) = T
  BY <1>4 DEF Under
<1>10. \A b \in Budgeting!There : Budgeting!Spent(b) \in Int /\ budget[b].amount \in Nat
  <2>1. TAKE b \in Budgeting!There
  <2> DEFINE on == Paid({t \in Budgeting!Recorded : spending[t].on = budget[b].on})
  <2>2. on \subseteq Spendings
    BY DEF Budgeting!Recorded
  <2>3. Budgeting!SpentOn(budget[b].on) = Sum(f, on)
    BY BudgetSums DEF Budgeting!SpentOn, Budgeting!Spending
  <2>4. Sum(f, on) \in Int /\ Sum(f, All) \in Int
    <3> HIDE DEF f, on, All
    <3> QED  BY <1>1, <1>2, <2>2
  <2>5. budget[b].amount \in Nat
    BY DEF Budgeting!There, BudgetsInv, BudgetsTyped
  <2> HIDE DEF f, on, All
  <2> QED  BY <1>7, <2>3, <2>4, <2>5 DEF Budgeting!Spent
<1>11. \A b \in Budgeting!There :
         Budgeting!IsOver(b) => Budgeting!IsNear(b) \/ budget[b].amount = 0
  BY <1>10 DEF Budgeting!IsOver, Budgeting!IsNear
<1>12. Budgeting!BudgetsAddUp <=>
         /\ Budgeting!SumFunction(h) <= Budgeting!Spending(Budgeting!Recorded)
         /\ \A b \in Budgeting!There :
              Budgeting!IsOver(b) => Budgeting!IsNear(b) \/ budget[b].amount = 0
  BY DEF Budgeting!BudgetsAddUp
<1> HIDE DEF f, own, h, key, T, All, Paid
<1>13. Counts(f, T) /\ Counts(f, All) /\ \A x \in All : f[x] >= 0
  BY <1>1, <1>2
<1>14. Sum(h, own) = Sum(f, Under(T, key, own))
  BY ONLY <1>2, <1>6, <1>13, SumByKey
<1>15. Sum(f, T) <= Sum(f, All)
  BY <1>2, <1>13, SumGrows
<1> QED  BY <1>7, <1>8, <1>9, <1>11, <1>12, <1>14, <1>15

\* Every value is in its type and every transaction names accounts and
\* categories that are there, it agrees with both but where an update raced or
\* the category was changed, the balances and the categories and the days add
\* up to the profit, a currency has one default account at most, and budgets of
\* categories never come to more than what was spent, through every order of
\* the requests (finance.service.ts, finance-budget.service.ts).
THEOREM BooksAreKept == MCSpec => []BooksKept
<1> DEFINE Inv == RecordsInv /\ DefaultsInv /\ BudgetsInv
<1>1. MCInit => Inv
  BY LedgerInit, BudgetsInit DEF MCInit
<1>2. Inv /\ [MCNext]_<<part, vars, files, budgets, plans, pushes>> => Inv'
  <2> SUFFICES ASSUME Inv, [MCNext]_<<part, vars, files, budgets, plans, pushes>>
               PROVE  Inv'
    OBVIOUS
  <2>1. [Next]_vars
    BY DEF MCNext
  <2>2. [Budgeting!Next]_(Budgeting!vars)
    <3>1. ASSUME UNCHANGED budgets PROVE UNCHANGED Budgeting!vars
      BY <3>1 DEF budgets, Budgeting!vars
    <3> QED  BY <3>1 DEF MCNext
  <2> QED  BY <2>1, <2>2, LedgerStep, BudgetsStep
<1>3. Inv => BooksKept
  BY LedgerPromised, BudgetsPromised DEF BooksKept
<1> QED  BY <1>1, <1>2, <1>3, PTL DEF MCSpec

-----------------------------------------------------------------------------
(* Pushes.  One subscribe after the other: what the snapshot of a subscribe *)
(* found missing is still missing when it commits, unless another has      *)
(* committed or the entity was edited.  A push that is out is noted,       *)
(* excused, or in the hands of the worker that holds the row.              *)

RowStatuses == Pushing!Statuses
InboxType == [status : RowStatuses, at : Nat]
PushType == [entity : Entities \cup {None}, at : Nat, status : RowStatuses,
             claim : Workers \cup {None}, over : BOOLEAN, tries : Nat,
             stale : BOOLEAN, late : Nat]
EditorType == [pc : {"idle", "cancel", "channels", "create"},
               entity : Entities \cup {None}, push : BOOLEAN]
TxType == [pc : {"idle", "commit"}, known : BOOLEAN, version : Nat,
           source : SUBSET (Entities \X Nat), edited : SUBSET Entities]
PusherType == [pc : {"idle", "devices", "loop", "send", "receipt"},
               row : Pushing!Pushes \cup {0}, todo : SUBSET Devices,
               device : Devices \cup {None}, failed : BOOLEAN,
               found : SUBSET Devices]
Pairs == Pushing!Pushes \X Devices

ScheduleTyped ==
  /\ now \in 1..MaxTime /\ when \in [Entities -> 0..MaxTime]
  /\ inbox \in [Entities -> InboxType]
  /\ editor \in EditorType
  /\ editor.pc # "idle" => editor.entity \in Entities
  /\ enabled \in BOOLEAN /\ version \in Nat
  /\ tx \in [Devices -> TxType]
  /\ \A d \in Devices : IsFiniteSet(tx[d].source)
PushRowsTyped == push \in [Pushing!Pushes -> PushType]
DevicesTyped ==
  /\ subs \subseteq Devices /\ gone \subseteq Devices
  /\ receipts \subseteq Pushing!Pushes \X subs
PushersTyped ==
  /\ pusher \in [Workers -> PusherType]
  /\ \A w \in Workers : pusher[w].pc # "idle" => pusher[w].row \in Pushing!Pushes
  /\ \A w \in Workers : pusher[w].pc \in {"send", "receipt"} <=> pusher[w].device # None
CountsTyped == sent \in [Pairs -> Nat] /\ excused \in [Pairs -> Nat]

\* Devices: a subscribe that can commit adds a device that is not gone, and
\* finds room as its snapshot did.
SubsInv ==
  /\ IsFiniteSet(subs) /\ Cardinality(subs) <= DeviceLimit /\ subs \cap gone = {}
  /\ \A d \in Devices : tx[d].pc = "commit" =>
       /\ tx[d].version <= version
       /\ ~tx[d].known => d \notin subs \cup gone
       /\ ~tx[d].known /\ tx[d].version = version => Cardinality(subs) < DeviceLimit

\* The schedule: what is PENDING for an entity that is being edited is stale,
\* and what a subscribe will copy has no live row.
ScheduleInv ==
  /\ editor.pc \in {"channels", "create"} =>
       /\ inbox[editor.entity].status # "PENDING"
       /\ \A p \in Pushing!Pushes :
            push[p].status = "PENDING" /\ push[p].entity = editor.entity
            => push[p].stale
       /\ \A d \in Devices : tx[d].pc = "commit" =>
            \A x \in tx[d].source : x[1] = editor.entity => x[1] \in tx[d].edited
  /\ \A d \in Devices : tx[d].pc = "commit" /\ tx[d].version = version =>
       \A x \in tx[d].source : x[1] \notin tx[d].edited =>
         \A p \in Pushing!Pushes :
           ~ (push[p].status = "PENDING" /\ push[p].entity = x[1] /\ push[p].at = x[2])
  /\ \A p, q \in Pushing!Pushes :
       ( /\ p # q /\ push[p].status = "PENDING" /\ push[q].status = "PENDING"
         /\ push[p].entity = push[q].entity /\ push[p].at = push[q].at )
       => push[p].stale \/ push[q].stale

Nearby(w, p, d) == /\ pusher[w].pc \in {"send", "receipt"}
                   /\ pusher[w].row = p /\ pusher[w].device = d
Sending(p, d) == {w \in Workers : /\ pusher[w].pc = "send"
                                  /\ pusher[w].row = p /\ pusher[w].device = d}
SendingOf(p) == {w \in Workers : pusher[w].pc = "send" /\ pusher[w].row = p}
HolderNear(p, d) == /\ push[p].status = "PENDING" /\ push[p].claim \in Workers
                    /\ Nearby(push[p].claim, p, d)

RowsInv ==
  \A p \in Pushing!Pushes :
    /\ push[p].claim # None => push[p].status = "PENDING"
    /\ push[p].over => push[p].claim # None
    /\ push[p].status = None =>
         /\ \A w \in Workers : pusher[w].pc # "idle" => pusher[w].row # p
         /\ \A d \in Devices : sent[<<p, d>>] = 0

\* What is out and what is about to be, against what excuses it.
Slack(p, d) == IF /\ push[p].status = "PENDING"
                  /\ <<p, d>> \notin receipts /\ ~HolderNear(p, d)
               THEN 0 ELSE 1
SentInv ==
  \A p \in Pushing!Pushes, d \in Devices : d \notin gone =>
    sent[<<p, d>>] + Cardinality(Sending(p, d)) <= excused[<<p, d>>] + Slack(p, d)

LateInv ==
  \A p \in Pushing!Pushes :
    IF push[p].status = "CANCELLED"
    THEN push[p].late + Cardinality(SendingOf(p)) <= Cardinality(Workers)
    ELSE push[p].late = 0

\* A worker that holds its row and has met no error has reached every device
\* it has found but those it has still to go to.
Reached(w) ==
  LET u == pusher[w] IN
  \A d \in u.found \cap subs : d \in u.todo \/ d = u.device \/ sent[<<u.row, d>>] > 0
ReachInv ==
  /\ \A x \in receipts : sent[x] > 0
  /\ \A w \in Workers :
       /\ pusher[w].found \subseteq subs \cup gone
       /\ pusher[w].pc = "receipt" => sent[<<pusher[w].row, pusher[w].device>>] > 0
       /\ /\ pusher[w].pc \in {"loop", "send", "receipt"} /\ ~pusher[w].failed
          /\ Pushing!Held(w, pusher[w].row)
          => Reached(w)

DeliveryInv == /\ PushRowsTyped /\ PushersTyped /\ CountsTyped
               /\ RowsInv /\ SentInv /\ LateInv /\ ReachInv
PushInv == ScheduleTyped /\ DevicesTyped /\ SubsInv /\ ScheduleInv /\ DeliveryInv

LEMMA PushesFinite == IsFiniteSet(Workers) /\ IsFiniteSet(Entities)
BY PushesAssumption DEF Pushing!WebPushAssumption, IsFiniteSet, Pushing!IsFiniteSet

LEMMA Ids == /\ None \notin Workers /\ None \notin Devices
             /\ IsFiniteSet(Workers) /\ IsFiniteSet(Entities)
             /\ Pushing!None = None /\ Pushing!Never = 0
             /\ DeviceLimit \in Nat /\ MaxTime \in Nat /\ MaxTime # 0 /\ MaxPushes \in Nat
             /\ Pushing!Pushes \subseteq Nat \ {0}
             /\ "PENDING" \in RowStatuses /\ "CANCELLED" \in RowStatuses
             /\ "SENT" \in RowStatuses /\ "FAILED" \in RowStatuses /\ None \in RowStatuses
             /\ None \notin {"PENDING", "CANCELLED", "SENT", "FAILED"}
BY PushesAssumption, PushesFinite
DEF Pushing!WebPushAssumption, Pushing!None, None, Pushing!Never, Pushing!Pushes,
    RowStatuses, Pushing!Statuses

LEMMA SendersFinite ==
  ASSUME NEW p, NEW d
  PROVE  /\ IsFiniteSet(Sending(p, d)) /\ Cardinality(Sending(p, d)) \in Nat
         /\ IsFiniteSet(SendingOf(p)) /\ Cardinality(SendingOf(p)) \in Nat
         /\ Cardinality(SendingOf(p)) <= Cardinality(Workers)
         /\ Cardinality(Workers) \in Nat
<1>1. Sending(p, d) \subseteq Workers /\ SendingOf(p) \subseteq Workers
  BY DEF Sending, SendingOf
<1> QED  BY <1>1, Ids, FS_Subset, FS_CardinalityType

LEMMA PushesInit == Pushing!Init => PushInv
<1> SUFFICES ASSUME Pushing!Init PROVE PushInv
  OBVIOUS
<1> USE Ids
<1>1. /\ now = 1 /\ when = [e \in Entities |-> 0]
      /\ inbox = [e \in Entities |-> [status |-> None, at |-> 0]]
      /\ push = [p \in Pushing!Pushes |-> Pushing!NoRow]
      /\ enabled = FALSE /\ version = 0
      /\ subs = {} /\ gone = {} /\ receipts = {}
      /\ editor = Pushing!NoEdit
      /\ tx = [d \in Devices |-> Pushing!NoTx]
      /\ pusher = [w \in Workers |-> Pushing!Idle]
      /\ sent = [x \in Pairs |-> 0] /\ excused = [x \in Pairs |-> 0]
  BY DEF Pushing!Init, Pairs
<1>2. /\ Pushing!NoRow \in PushType /\ Pushing!NoRow.status = None
      /\ Pushing!NoRow.claim = None /\ Pushing!NoRow.over = FALSE
      /\ Pushing!NoRow.late = 0
  BY DEF Pushing!NoRow, PushType
<1>3. Pushing!NoEdit \in EditorType /\ Pushing!NoEdit.pc = "idle"
  BY DEF Pushing!NoEdit, EditorType
<1>4. Pushing!NoTx \in TxType /\ Pushing!NoTx.pc = "idle"
  BY DEF Pushing!NoTx, TxType
<1>14. \A d \in Devices : IsFiniteSet(tx[d].source)
  BY <1>1, FS_EmptySet DEF Pushing!NoTx
<1>5. /\ Pushing!Idle \in PusherType /\ Pushing!Idle.pc = "idle"
      /\ Pushing!Idle.device = None /\ Pushing!Idle.found = {}
  BY DEF Pushing!Idle, PusherType
<1>6. ScheduleTyped /\ DevicesTyped
  <2>1. inbox \in [Entities -> InboxType]
    BY <1>1 DEF InboxType
  <2>2. now \in 1..MaxTime /\ when \in [Entities -> 0..MaxTime]
    BY <1>1
  <2>3. editor \in EditorType /\ editor.pc = "idle"
    BY <1>1, <1>3
  <2>4. tx \in [Devices -> TxType] /\ enabled \in BOOLEAN /\ version \in Nat
    BY <1>1, <1>4
  <2> QED  BY <1>1, <1>14, <2>1, <2>2, <2>3, <2>4 DEF ScheduleTyped, DevicesTyped
<1>7. PushRowsTyped /\ PushersTyped /\ CountsTyped
  BY <1>1, <1>2, <1>5 DEF PushRowsTyped, PushersTyped, CountsTyped
<1>8. SubsInv
  BY <1>1, <1>4, FS_EmptySet DEF SubsInv
<1>9. ScheduleInv
  BY <1>1, <1>2, <1>3, <1>4 DEF ScheduleInv
<1>10. RowsInv
  BY <1>1, <1>2, <1>5 DEF RowsInv, Pairs
<1>11. SentInv
  <2>1. \A p, d : Sending(p, d) = {} /\ Cardinality(Sending(p, d)) = 0
    BY <1>1, <1>5, FS_EmptySet DEF Sending
  <2>2. \A p, d : Slack(p, d) \in {0, 1}
    BY DEF Slack
  <2> QED  BY <1>1, <2>1, <2>2 DEF SentInv, Pairs
<1>12. LateInv
  BY <1>1, <1>2 DEF LateInv
<1>13. ReachInv
  BY <1>1, <1>5 DEF ReachInv
<1> QED
  BY <1>6, <1>7, <1>8, <1>9, <1>10, <1>11, <1>12, <1>13 DEF PushInv, DeliveryInv

-----------------------------------------------------------------------------
(* What steps leave alone.                                                 *)

\* No subscribe begins or commits, nothing becomes PENDING, no edit gets on.
LEMMA ScheduleRests ==
  ASSUME PushInv,
         version <= version',
         editor'.pc \in {"channels", "create"} =>
           editor.pc \in {"channels", "create"} /\ editor'.entity = editor.entity,
         \A e \in Entities : inbox'[e].status = "PENDING" => inbox[e].status = "PENDING",
         \A d \in Devices : tx'[d].pc = "commit" => tx'[d] = tx[d],
         \A p \in Pushing!Pushes : push'[p].status = "PENDING" =>
           /\ push[p].status = "PENDING" /\ push'[p].entity = push[p].entity
           /\ push'[p].at = push[p].at /\ push'[p].stale = push[p].stale
  PROVE  ScheduleInv'
<1>0. /\ ScheduleInv /\ version \in Nat
      /\ editor.pc # "idle" => editor.entity \in Entities
      /\ \A d \in Devices : tx[d].pc = "commit" => tx[d].version <= version
      /\ \A d \in Devices : tx[d] \in TxType
  BY DEF PushInv, ScheduleTyped, SubsInv
<1>1. \A d \in Devices : tx'[d].pc = "commit" /\ tx'[d].version = version' =>
        tx[d].pc = "commit" /\ tx[d].version = version
  <2>1. SUFFICES ASSUME NEW d \in Devices, tx'[d].pc = "commit", tx'[d].version = version'
                 PROVE  tx[d].pc = "commit" /\ tx[d].version = version
    OBVIOUS
  <2>2. tx'[d] = tx[d] /\ tx[d].version \in Nat
    BY <1>0, <2>1 DEF TxType
  <2>3. tx[d].version <= version /\ version <= tx[d].version
    BY <1>0, <2>1, <2>2
  <2> QED  BY <1>0, <2>1, <2>2, <2>3
<1>2. editor'.pc \in {"channels", "create"} =>
        /\ inbox'[editor'.entity].status # "PENDING"
        /\ \A p \in Pushing!Pushes :
             push'[p].status = "PENDING" /\ push'[p].entity = editor'.entity
             => push'[p].stale
        /\ \A d \in Devices : tx'[d].pc = "commit" =>
             \A x \in tx'[d].source : x[1] = editor'.entity => x[1] \in tx'[d].edited
  BY <1>0 DEF ScheduleInv
<1>3. \A d \in Devices : tx'[d].pc = "commit" /\ tx'[d].version = version' =>
        \A x \in tx'[d].source : x[1] \notin tx'[d].edited =>
          \A p \in Pushing!Pushes :
            ~ (push'[p].status = "PENDING" /\ push'[p].entity = x[1] /\ push'[p].at = x[2])
  BY <1>0, <1>1 DEF ScheduleInv
<1>4. \A p, q \in Pushing!Pushes :
        ( /\ p # q /\ push'[p].status = "PENDING" /\ push'[q].status = "PENDING"
          /\ push'[p].entity = push'[q].entity /\ push'[p].at = push'[q].at )
        => push'[p].stale \/ push'[q].stale
  BY <1>0 DEF ScheduleInv
<1> QED  BY <1>2, <1>3, <1>4 DEF ScheduleInv

\* Devices only go, if anything.
LEMMA SubsRest ==
  ASSUME PushInv,
         version <= version', version' \in Nat,
         \A d \in Devices : tx'[d].pc = "commit" =>
           /\ tx[d].pc = "commit"
           /\ tx'[d].version = tx[d].version /\ tx'[d].known = tx[d].known,
         subs' \subseteq subs, subs' \cap gone' = {}, gone' \subseteq subs \cup gone
  PROVE  SubsInv'
<1>0. /\ SubsInv /\ version \in Nat /\ DeviceLimit \in Nat
      /\ \A d \in Devices : tx[d] \in TxType
  BY Ids DEF PushInv, ScheduleTyped
<1>1. /\ IsFiniteSet(subs') /\ Cardinality(subs') <= Cardinality(subs)
      /\ Cardinality(subs) \in Nat /\ Cardinality(subs') \in Nat
  BY <1>0, FS_Subset, FS_CardinalityType DEF SubsInv
<1>2. ASSUME NEW d \in Devices, tx'[d].pc = "commit"
      PROVE  /\ tx'[d].version <= version'
             /\ ~tx'[d].known => d \notin subs' \cup gone'
             /\ ~tx'[d].known /\ tx'[d].version = version' =>
                  Cardinality(subs') < DeviceLimit
  <2>1. /\ tx[d].pc = "commit" /\ tx'[d].version = tx[d].version
        /\ tx'[d].known = tx[d].known /\ tx[d].version \in Nat
        /\ tx[d].version <= version
    BY <1>0, <1>2 DEF TxType, SubsInv
  <2>2. tx'[d].version <= version'
    BY <1>0, <2>1
  <2>3. ~tx[d].known => d \notin subs \cup gone
    BY <1>0, <1>2, <2>1 DEF SubsInv
  <2>4. tx'[d].version = version' => tx[d].version = version
    BY <1>0, <2>1
  <2>5. ~tx[d].known /\ tx[d].version = version => Cardinality(subs') < DeviceLimit
    BY <1>0, <1>1, <1>2, <2>1 DEF SubsInv
  <2> QED  BY <2>1, <2>2, <2>3, <2>4, <2>5
<1> QED  BY <1>0, <1>1, <1>2 DEF SubsInv

\* A row is what it was, is made, or is cancelled.
RowMoves(p) ==
  \/ /\ push'[p].status = push[p].status /\ push'[p].claim = push[p].claim
     /\ push'[p].late = push[p].late
     /\ push'[p].over => push'[p].claim # None
  \/ /\ push[p].status = None /\ push'[p].status = "PENDING"
     /\ push'[p].claim = None /\ push'[p].late = 0 /\ ~push'[p].over
  \/ /\ push[p].status = "PENDING" /\ push'[p].status = "CANCELLED"
     /\ push'[p].claim = None /\ push'[p].late = push[p].late /\ ~push'[p].over

\* The workers rest.
LEMMA DeliveryRests ==
  ASSUME PushInv, PushRowsTyped',
         UNCHANGED <<pusher, sent, excused>>,
         gone \subseteq gone', subs \subseteq subs' \cup gone',
         subs' \cap (gone \ subs) = {},
         receipts' \subseteq receipts,
         \A x \in receipts \ receipts' : x[2] \in gone',
         \A p \in Pushing!Pushes : RowMoves(p)
  PROVE  DeliveryInv'
<1>0. /\ PushRowsTyped /\ PushersTyped /\ CountsTyped /\ RowsInv /\ SentInv /\ LateInv
      /\ ReachInv /\ DevicesTyped
  BY DEF PushInv, DeliveryInv
<1>1. PushersTyped' /\ CountsTyped'
  BY <1>0 DEF PushersTyped, PusherType, CountsTyped, Pairs
<1>2. RowsInv'
  <2>1. SUFFICES ASSUME NEW p \in Pushing!Pushes
        PROVE  /\ push'[p].claim # None => push'[p].status = "PENDING"
               /\ push'[p].over => push'[p].claim # None
               /\ push'[p].status = None =>
                    /\ \A w \in Workers : pusher'[w].pc # "idle" => pusher'[w].row # p
                    /\ \A d \in Devices : sent'[<<p, d>>] = 0
    BY DEF RowsInv
  <2> QED  BY <1>0, <2>1, Ids DEF RowsInv, RowMoves
<1>3. \A p, d : Sending(p, d)' = Sending(p, d) /\ SendingOf(p)' = SendingOf(p)
  BY DEF Sending, SendingOf
<1>4. SentInv'
  <2>1. SUFFICES ASSUME NEW p \in Pushing!Pushes, NEW d \in Devices, d \notin gone'
        PROVE  sent'[<<p, d>>] + Cardinality(Sending(p, d)')
                 <= excused'[<<p, d>>] + Slack(p, d)'
    BY DEF SentInv
  <2>2. sent[<<p, d>>] + Cardinality(Sending(p, d)) <= excused[<<p, d>>] + Slack(p, d)
    BY <1>0, <2>1 DEF SentInv
  <2>3. /\ sent[<<p, d>>] \in Nat /\ excused[<<p, d>>] \in Nat
        /\ Cardinality(Sending(p, d)) \in Nat
    BY <1>0, SendersFinite DEF CountsTyped, Pairs
  <2>4. Slack(p, d) \in {0, 1} /\ Slack(p, d)' \in {0, 1}
    BY DEF Slack
  <2>5. CASE push[p].status = None
    <3>1. sent[<<p, d>>] = 0 /\ Sending(p, d) = {}
      BY <1>0, <2>5 DEF RowsInv, Sending
    <3>2. Cardinality(Sending(p, d)) = 0
      BY <3>1, FS_EmptySet
    <3> QED  BY <1>3, <2>3, <2>4, <3>1, <3>2
  <2>6. CASE push[p].status # None
    <3>1. <<p, d>> \in receipts' <=> <<p, d>> \in receipts
      BY <2>1
    <3>2. push'[p].status = "PENDING" => /\ push[p].status = "PENDING"
                                         /\ push'[p].claim = push[p].claim
      BY <2>6, Ids DEF RowMoves
    <3>3. push'[p].status = "PENDING" => (HolderNear(p, d)' <=> HolderNear(p, d))
      BY <3>2 DEF HolderNear, Nearby
    <3>4. Slack(p, d) <= Slack(p, d)'
      BY <2>4, <3>1, <3>2, <3>3 DEF Slack
    <3> QED  BY <1>3, <2>2, <2>3, <2>4, <3>4
  <2> QED  BY <2>5, <2>6
<1>5. LateInv'
  <2>1. SUFFICES ASSUME NEW p \in Pushing!Pushes
        PROVE  IF push'[p].status = "CANCELLED"
               THEN push'[p].late + Cardinality(SendingOf(p)) <= Cardinality(Workers)
               ELSE push'[p].late = 0
    BY <1>3 DEF LateInv
  <2>2. IF push[p].status = "CANCELLED"
        THEN push[p].late + Cardinality(SendingOf(p)) <= Cardinality(Workers)
        ELSE push[p].late = 0
    BY <1>0 DEF LateInv
  <2>3. 0 + Cardinality(SendingOf(p)) <= Cardinality(Workers)
    BY SendersFinite
  <2>4. RowMoves(p)
    BY <2>1
  <2> QED  BY <2>2, <2>3, <2>4, Ids DEF RowMoves
<1>6. ReachInv'
  <2>1. \A w \in Workers : Pushing!Held(w, pusher[w].row)' =>
          Pushing!Held(w, pusher[w].row) \/ pusher[w].pc = "idle"
    <3>1. TAKE w \in Workers
    <3>2. SUFFICES ASSUME Pushing!Held(w, pusher[w].row)', pusher[w].pc # "idle"
                   PROVE  Pushing!Held(w, pusher[w].row)
      OBVIOUS
    <3>3. pusher[w].row \in Pushing!Pushes /\ pusher' = pusher
      BY <1>0, <3>2 DEF PushersTyped
    <3> QED  BY <3>2, <3>3, Ids DEF RowMoves, Pushing!Held
  <2>2. \A w \in Workers : pusher[w].found \cap subs' \subseteq pusher[w].found \cap subs
    BY <1>0 DEF ReachInv
  <2>3. \A w \in Workers : Reached(w) => Reached(w)'
    BY <2>2 DEF Reached
  <2>4. \A w \in Workers : pusher[w].found \subseteq subs' \cup gone'
    BY <1>0 DEF ReachInv
  <2> QED  BY <1>0, <2>1, <2>3, <2>4 DEF ReachInv
<1> QED  BY <1>1, <1>2, <1>4, <1>5, <1>6 DEF DeliveryInv

-----------------------------------------------------------------------------
(* Rows that are made.                                                     *)

\* A place of its own for each, if there are enough.
Placing(S, F, R, f) ==
  /\ R \subseteq F /\ f \in [S -> R] /\ Cardinality(R) = Cardinality(S)
  /\ \A x, y \in S : f[x] = f[y] => x = y

LEMMA Places1 ==
  ASSUME NEW S, IsFiniteSet(S), NEW F, IsFiniteSet(F), Cardinality(S) <= Cardinality(F)
  PROVE  \E f \in [S -> F] : \A x, y \in S : f[x] = f[y] => x = y
<1> DEFINE Bad == {s \in SUBSET S : ~ \E R, f : Placing(s, F, R, f)}
<1> SUFFICES ASSUME S \in Bad PROVE FALSE
  <2> SUFFICES ASSUME NEW R, NEW f, Placing(S, F, R, f)
               PROVE  \E g \in [S -> F] : \A x, y \in S : g[x] = g[y] => x = y
    OBVIOUS
  <2>1. f \in [S -> F]
    BY DEF Placing
  <2> QED  BY <2>1 DEF Placing
<1>1. Bad \subseteq SUBSET S
  OBVIOUS
<1> HIDE DEF Bad
<1>2. PICK s \in Bad : \A t \in Bad : t \subseteq s => t = s
  BY <1>1, LeastSubset
<1>3. s \in SUBSET S /\ ~ \E R, f : Placing(s, F, R, f)
  BY <1>2 DEF Bad
<1>4. s # {}
  <2> SUFFICES ASSUME s = {} PROVE Placing(s, F, {}, [x \in {} |-> 0])
    BY <1>3
  <2> QED  BY DEF Placing
<1>5. PICK x \in s : TRUE
  BY <1>4
<1> DEFINE r == s \ {x}
<1>6. PICK R, f : Placing(r, F, R, f)
  <2>1. r \in SUBSET S /\ r \subseteq s /\ r # s
    BY <1>3, <1>5
  <2> HIDE DEF r
  <2> QED  BY <1>2, <2>1 DEF Bad
<1>7. /\ IsFiniteSet(s) /\ Cardinality(s) <= Cardinality(S)
      /\ Cardinality(r) = Cardinality(s) - 1
      /\ Cardinality(s) \in Nat /\ Cardinality(S) \in Nat /\ Cardinality(F) \in Nat
  BY <1>3, <1>5, FS_Subset, FS_RemoveElement, FS_CardinalityType
<1>8. R \subseteq F /\ R # F /\ IsFiniteSet(R)
  <2>1. R \subseteq F /\ Cardinality(R) = Cardinality(r)
    BY <1>6 DEF Placing
  <2> HIDE DEF r
  <2> QED  BY <1>7, <2>1, FS_Subset
<1>9. PICK p \in F : p \notin R
  BY <1>8
<1> DEFINE g == [y \in s |-> IF y = x THEN p ELSE f[y]]
           Q == R \cup {p}
<1>10. Cardinality(Q) = Cardinality(s)
  <2>1. Cardinality(Q) = Cardinality(R) + 1
    BY <1>8, <1>9, FS_AddElement
  <2>2. Cardinality(R) = Cardinality(r)
    BY <1>6 DEF Placing
  <2> HIDE DEF r, Q
  <2> QED  BY <1>7, <2>1, <2>2
<1>11. \A y \in s : y # x => y \in r /\ f[y] \in R
  BY <1>6 DEF Placing
<1>12. g \in [s -> Q] /\ \A y, z \in s : g[y] = g[z] => y = z
  <2>1. g \in [s -> Q]
    BY <1>11
  <2>2. \A y, z \in r : f[y] = f[z] => y = z
    BY <1>6 DEF Placing
  <2> QED  BY <1>9, <1>11, <2>1, <2>2
<1> HIDE DEF g, Q
<1>13. Placing(s, F, Q, g)
  BY <1>8, <1>9, <1>10, <1>12 DEF Placing, Q
<1> QED  BY <1>3, <1>13

LEMMA PushCards == \A S : Pushing!Cardinality(S) = Cardinality(S)
BY DEF Pushing!Cardinality, Cardinality

LEMMA FreeFinite == IsFiniteSet(Pushing!Free) /\ Pushing!Free \subseteq Pushing!Pushes
<1>1. IsFiniteSet(Pushing!Pushes)
  BY Ids, FS_Interval DEF Pushing!Pushes
<1>2. Pushing!Free \in SUBSET Pushing!Pushes
  BY DEF Pushing!Free
<1> QED  BY <1>1, <1>2, FS_Subset

\* The rows of WithRows are those that were there, and in places that were free,
\* T, one for each entity and time.
Copied(S, old, T, f) ==
  /\ T \subseteq Pushing!Free /\ f \in [T -> S]
  /\ \A p \in T :
       LET r == push'[p] IN
       /\ r.status = "PENDING" /\ r.claim = None /\ r.late = 0 /\ ~r.over
       /\ r.entity = f[p][1] /\ r.at = f[p][2]
       /\ r.stale <=> f[p][1] \in old
  /\ \A p \in Pushing!Pushes \ T : push'[p] = push[p]
  /\ \A p, q \in T : f[p] = f[q] => p = q

\* What a new push holds.
PushFor(e, t, b) == [Pushing!NoRow EXCEPT !.entity = e, !.at = t, !.status = "PENDING",
                                          !.stale = b]

LEMMA NewRow ==
  ASSUME NEW e \in Entities, NEW t \in Nat, NEW b \in BOOLEAN
  PROVE  LET r == PushFor(e, t, b) IN
         /\ r \in PushType /\ r.status = "PENDING" /\ r.claim = None
         /\ r.late = 0 /\ ~r.over /\ r.entity = e /\ r.at = t /\ r.stale = b
<1> DEFINE r1 == [Pushing!NoRow EXCEPT !.entity = e]
           r2 == [r1 EXCEPT !.at = t]
           r3 == [r2 EXCEPT !.status = "PENDING"]
           r4 == [r3 EXCEPT !.stale = b]
           Blank(r) == r.claim = None /\ r.late = 0 /\ ~r.over
<1>1. Pushing!NoRow \in PushType /\ Blank(Pushing!NoRow)
  BY Ids DEF Pushing!NoRow, PushType
<1>2. PushFor(e, t, b) = r4
  BY DEF PushFor
<1>3. r1 \in PushType /\ Blank(r1) /\ r1.entity = e
  BY <1>1 DEF PushType
<1> HIDE DEF r1
<1>4. r2 \in PushType /\ Blank(r2) /\ r2.entity = e /\ r2.at = t
  BY <1>3 DEF PushType
<1> HIDE DEF r2
<1>5. "PENDING" \in RowStatuses
  BY DEF RowStatuses, Pushing!Statuses
<1>6. r3 \in PushType /\ Blank(r3) /\ r3.entity = e /\ r3.at = t /\ r3.status = "PENDING"
  BY <1>4, <1>5 DEF PushType
<1> HIDE DEF r3
<1>7. /\ r4 \in PushType /\ Blank(r4) /\ r4.entity = e /\ r4.at = t
      /\ r4.status = "PENDING" /\ r4.stale = b
  BY <1>6 DEF PushType
<1> HIDE DEF r4
<1> QED  BY <1>2, <1>7

LEMMA RowsAre ==
  ASSUME PushRowsTyped, NEW S, S \subseteq Entities \X Nat, IsFiniteSet(S),
         NEW old, Cardinality(S) <= Cardinality(Pushing!Free),
         push' = Pushing!WithRows(S, old)
  PROVE  PushRowsTyped' /\ \E T, f : Copied(S, old, T, f)
<1> DEFINE F == Pushing!Free
           place == CHOOSE f \in [S -> F] : \A x, y \in S : f[x] = f[y] => x = y
           At(p) == CHOOSE y \in S : place[y] = p
           row(p) == [Pushing!NoRow EXCEPT !.entity = At(p)[1], !.at = At(p)[2],
                        !.status = "PENDING", !.stale = At(p)[1] \in old]
           Had(p) == \E x \in S : place[x] = p
           T == {p \in Pushing!Pushes : Had(p)}
           g == [p \in T |-> At(p)]
<1>1. place \in [S -> F]
  <2>1. \E f \in [S -> F] : \A x, y \in S : f[x] = f[y] => x = y
    <3> HIDE DEF F
    <3>1. IsFiniteSet(F) /\ Cardinality(S) <= Cardinality(F)
      BY FreeFinite DEF F
    <3> QED  BY <3>1, Places1
  <2> HIDE DEF F
  <2> QED  BY <2>1
<1>2. push' = [p \in Pushing!Pushes |-> IF Had(p) THEN row(p) ELSE push[p]]
  BY DEF Pushing!WithRows
<1> HIDE DEF place
<1>3. \A p \in Pushing!Pushes : Had(p) => /\ At(p) \in S /\ place[At(p)] = p
                                          /\ p \in Pushing!Free
  BY <1>1
<1>4. ASSUME NEW p \in Pushing!Pushes, Had(p)
      PROVE  /\ row(p) \in PushType /\ row(p).status = "PENDING"
             /\ row(p).claim = None /\ row(p).late = 0 /\ ~row(p).over
             /\ row(p).entity = At(p)[1] /\ row(p).at = At(p)[2]
             /\ row(p).stale <=> At(p)[1] \in old
  <2>1. At(p)[1] \in Entities /\ At(p)[2] \in Nat
    BY <1>3, <1>4
  <2> DEFINE e == At(p)[1]
             t == At(p)[2]
             b == e \in old
  <2>2. e \in Entities /\ t \in Nat /\ b \in BOOLEAN
    BY <2>1
  <2>3. row(p) = PushFor(e, t, b)
    BY DEF PushFor
  <2> HIDE DEF e, t, b, At, row
  <2>4. /\ row(p) \in PushType /\ row(p).status = "PENDING"
        /\ row(p).claim = None /\ row(p).late = 0 /\ ~row(p).over
        /\ row(p).entity = e /\ row(p).at = t
        /\ row(p).stale <=> b
    <3>1. e \in Entities /\ t \in Nat /\ b \in BOOLEAN
      BY <2>2
    <3> DEFINE r == PushFor(e, t, b)
    <3>2. /\ r \in PushType /\ r.status = "PENDING" /\ r.claim = None
          /\ r.late = 0 /\ ~r.over /\ r.entity = e /\ r.at = t /\ r.stale = b
      BY <3>1, NewRow
    <3> HIDE DEF r
    <3> QED  BY <2>3, <3>2 DEF r
  <2> QED  BY <2>4 DEF e, t, b
<1> HIDE DEF Had, row, At
<1>5. \A p \in Pushing!Pushes : push'[p] = IF Had(p) THEN row(p) ELSE push[p]
  BY <1>2
<1>6. PushRowsTyped'
  <2>1. \A p \in Pushing!Pushes : push'[p] \in PushType
    BY <1>4, <1>5 DEF PushRowsTyped
  <2>2. push' = [p \in Pushing!Pushes |-> push'[p]]
    BY <1>2
  <2> QED  BY <2>1, <2>2 DEF PushRowsTyped
<1>7. /\ T \subseteq Pushing!Free /\ g \in [T -> S]
      /\ \A p \in T : p \in Pushing!Pushes /\ Had(p) /\ g[p] = At(p) /\ place[At(p)] = p
      /\ \A p \in Pushing!Pushes \ T : ~Had(p)
  BY <1>3
<1> HIDE DEF T, g
<1>8. \A p \in T : /\ push'[p] = row(p) /\ row(p).status = "PENDING"
                   /\ row(p).claim = None /\ row(p).late = 0 /\ ~row(p).over
                   /\ row(p).entity = g[p][1] /\ row(p).at = g[p][2]
                   /\ row(p).stale <=> g[p][1] \in old
  BY <1>4, <1>5, <1>7
<1>9. \A p \in Pushing!Pushes \ T : push'[p] = push[p]
  BY <1>5, <1>7
<1>10. \A p, q \in T : g[p] = g[q] => p = q
  BY <1>7
<1>11. Copied(S, old, T, g)
  BY <1>7, <1>8, <1>9, <1>10 DEF Copied
<1> QED  BY <1>6, <1>11

-----------------------------------------------------------------------------
(* The schedule and the devices, action by action.                        *)

LEMMA PushesRest ==
  ASSUME PushInv, ScheduleTyped',
         UNCHANGED <<push, subs, gone, receipts, pusher, sent, excused>>,
         version <= version',
         editor'.pc \in {"channels", "create"} =>
           editor.pc \in {"channels", "create"} /\ editor'.entity = editor.entity,
         \A e \in Entities : inbox'[e].status = "PENDING" => inbox[e].status = "PENDING",
         \A d \in Devices : tx'[d].pc = "commit" => tx'[d] = tx[d]
  PROVE  PushInv'
<1>1. ScheduleInv'
  BY ScheduleRests
<1>2. SubsInv'
  <2>1. \A d \in Devices : tx'[d].pc = "commit" =>
           /\ tx[d].pc = "commit"
           /\ tx'[d].version = tx[d].version /\ tx'[d].known = tx[d].known
    OBVIOUS
  <2>2. subs' \subseteq subs /\ subs' \cap gone' = {} /\ gone' \subseteq subs \cup gone
    BY DEF PushInv, SubsInv
  <2>3. version' \in Nat
    BY DEF ScheduleTyped
  <2> QED  BY <2>1, <2>2, <2>3, SubsRest
<1>3. DeliveryInv'
  <2>1. PushRowsTyped' /\ DevicesTyped
    BY DEF PushInv, DeliveryInv, PushRowsTyped
  <2>2. \A p \in Pushing!Pushes : RowMoves(p)
    BY DEF PushInv, DeliveryInv, RowsInv, RowMoves
  <2>3. gone \subseteq gone' /\ subs \subseteq subs' \cup gone' /\ receipts' \subseteq receipts
    OBVIOUS
  <2>4. subs' \cap (gone \ subs) = {} /\ \A x \in receipts \ receipts' : x[2] \in gone'
    OBVIOUS
  <2>5. UNCHANGED <<pusher, sent, excused>>
    OBVIOUS
  <2> QED  BY <2>1, <2>2, <2>3, <2>4, <2>5, DeliveryRests
<1>4. DevicesTyped'
  BY DEF PushInv, DevicesTyped
<1> QED  BY <1>1, <1>2, <1>3, <1>4 DEF PushInv

LEMMA PassesKept == ASSUME PushInv, Pushing!Passes PROVE PushInv'
<1>1. /\ now' = now + 1 /\ now < MaxTime
      /\ UNCHANGED <<when, inbox, editor, enabled, version, tx>>
      /\ UNCHANGED <<push, subs, gone, receipts, pusher, sent, excused>>
  BY DEF Pushing!Passes, Pushing!device, Pushing!delivery
<1>2. ScheduleTyped /\ version \in Nat
  BY DEF PushInv, ScheduleTyped
<1>3. ScheduleTyped'
  BY <1>1, <1>2, Ids DEF ScheduleTyped
<1> QED  BY <1>1, <1>2, <1>3, PushesRest

LEMMA EditKept ==
  ASSUME PushInv, NEW e \in Entities, NEW t \in 0..MaxTime, Pushing!Edit(e, t)
  PROVE  PushInv'
<1> DEFINE u == [Pushing!NoEdit EXCEPT !.pc = "cancel", !.entity = e]
<1>1. /\ when' = [when EXCEPT ![e] = t] /\ editor' = u
      /\ UNCHANGED <<now, inbox, enabled, version, tx>>
      /\ UNCHANGED <<push, subs, gone, receipts, pusher, sent, excused>>
  BY DEF Pushing!Edit, Pushing!device, Pushing!delivery
<1>2. u \in EditorType /\ u.pc = "cancel" /\ u.entity = e
  BY DEF Pushing!NoEdit, EditorType
<1> HIDE DEF u
<1>3. ScheduleTyped /\ version \in Nat
  BY DEF PushInv, ScheduleTyped
<1>4. ScheduleTyped'
  <2>1. when' \in [Entities -> 0..MaxTime]
    BY <1>1, <1>3 DEF ScheduleTyped
  <2> QED  BY <1>1, <1>2, <1>3, <2>1 DEF ScheduleTyped
<1> QED  BY <1>1, <1>2, <1>3, <1>4, PushesRest

LEMMA ChannelsKept == ASSUME PushInv, Pushing!Channels PROVE PushInv'
<1>1. /\ editor' = [editor EXCEPT !.pc = "create", !.push = enabled]
      /\ editor.pc = "channels"
      /\ UNCHANGED <<now, when, inbox, enabled, version, tx>>
      /\ UNCHANGED <<push, subs, gone, receipts, pusher, sent, excused>>
  BY DEF Pushing!Channels, Pushing!device, Pushing!delivery
<1>2. ScheduleTyped /\ version \in Nat /\ enabled \in BOOLEAN
  BY DEF PushInv, ScheduleTyped
<1>3. editor' \in EditorType /\ editor'.pc = "create" /\ editor'.entity = editor.entity
  BY <1>1, <1>2 DEF ScheduleTyped, EditorType
<1>4. ScheduleTyped'
  BY <1>1, <1>2, <1>3 DEF ScheduleTyped
<1> QED  BY <1>1, <1>2, <1>3, <1>4, PushesRest

LEMMA DeliverInAppKept ==
  ASSUME PushInv, NEW e \in Entities, Pushing!DeliverInApp(e) PROVE PushInv'
<1>1. /\ inbox' = [inbox EXCEPT ![e].status = "SENT"]
      /\ UNCHANGED <<now, when, editor, enabled, version, tx>>
      /\ UNCHANGED <<push, subs, gone, receipts, pusher, sent, excused>>
  BY DEF Pushing!DeliverInApp, Pushing!device, Pushing!delivery
<1>2. ScheduleTyped /\ version \in Nat /\ inbox \in [Entities -> InboxType]
  BY DEF PushInv, ScheduleTyped
<1>3. /\ inbox' \in [Entities -> InboxType]
      /\ \A f \in Entities : inbox'[f].status = "PENDING" => inbox[f].status = "PENDING"
  <2> DEFINE r == [inbox[e] EXCEPT !.status = "SENT"]
  <2>1. r \in InboxType /\ r.status = "SENT"
    BY <1>2, Ids DEF InboxType
  <2>2. inbox' = [inbox EXCEPT ![e] = r]
    BY <1>1
  <2> HIDE DEF r
  <2> QED  BY <1>2, <2>1, <2>2
<1>4. ScheduleTyped'
  BY <1>1, <1>2, <1>3 DEF ScheduleTyped
<1> QED  BY <1>1, <1>2, <1>3, <1>4, PushesRest

LEMMA SetPreferenceKept == ASSUME PushInv, Pushing!SetPreference PROVE PushInv'
<1>1. /\ enabled' = ~enabled /\ version' = version + 1
      /\ UNCHANGED <<now, when, inbox, editor, tx>>
      /\ UNCHANGED <<push, subs, gone, receipts, pusher, sent, excused>>
  BY DEF Pushing!SetPreference, Pushing!delivery
<1>2. ScheduleTyped /\ version \in Nat
  BY DEF PushInv, ScheduleTyped
<1>3. version' \in Nat /\ version <= version' /\ enabled' \in BOOLEAN
  BY <1>1, <1>2
<1>4. ScheduleTyped'
  BY <1>1, <1>2, <1>3 DEF ScheduleTyped
<1> QED  BY <1>1, <1>2, <1>3, <1>4, PushesRest

LEMMA AbortsKept ==
  ASSUME PushInv, NEW d \in Devices, Pushing!Aborts(d) PROVE PushInv'
<1>1. /\ tx' = [tx EXCEPT ![d] = Pushing!NoTx]
      /\ UNCHANGED <<now, when, inbox, editor, enabled, version>>
      /\ UNCHANGED <<push, subs, gone, receipts, pusher, sent, excused>>
  BY DEF Pushing!Aborts, Pushing!delivery
<1>2. ScheduleTyped /\ version \in Nat
  BY DEF PushInv, ScheduleTyped
<1>3. /\ Pushing!NoTx \in TxType /\ Pushing!NoTx.pc = "idle"
      /\ IsFiniteSet(Pushing!NoTx.source)
  BY FS_EmptySet DEF Pushing!NoTx, TxType
<1>4. /\ tx' \in [Devices -> TxType]
      /\ \A x \in Devices : IsFiniteSet(tx'[x].source)
      /\ \A x \in Devices : tx'[x].pc = "commit" => tx'[x] = tx[x]
  BY <1>1, <1>2, <1>3 DEF ScheduleTyped
<1>5. ScheduleTyped'
  BY <1>1, <1>2, <1>4 DEF ScheduleTyped
<1> QED  BY <1>1, <1>2, <1>4, <1>5, PushesRest

\* What is copied was PENDING, and had no live row.
LEMMA SubscribeKept ==
  ASSUME PushInv, NEW d \in Devices, Pushing!Subscribe(d) PROVE PushInv'
<1> DEFINE S == Pushing!Source \ Pushing!Prior
           old == d \in subs
           u == [pc |-> "commit", known |-> old, version |-> version,
                 source |-> S, edited |-> {}]
<1>1. /\ tx' = [tx EXCEPT ![d] = u] /\ d \notin gone
      /\ d \in subs \/ Pushing!Cardinality(subs) < DeviceLimit
      /\ UNCHANGED <<now, when, inbox, editor, enabled, version>>
      /\ UNCHANGED <<push, subs, gone, receipts, pusher, sent, excused>>
  BY DEF Pushing!Subscribe, Pushing!delivery
<1>2. /\ ScheduleTyped /\ version \in Nat /\ inbox \in [Entities -> InboxType]
      /\ SubsInv /\ ScheduleInv /\ DevicesTyped
      /\ editor.pc # "idle" => editor.entity \in Entities
  BY DEF PushInv, ScheduleTyped
<1>3. /\ S \subseteq Entities \X Nat /\ IsFiniteSet(S)
      /\ \A x \in S : inbox[x[1]].status = "PENDING"
      /\ \A x \in S, p \in Pushing!Pushes :
           ~ (push[p].status = "PENDING" /\ push[p].entity = x[1] /\ push[p].at = x[2])
  <2>1. \A x \in S : \E e \in Entities : /\ x = <<e, inbox[e].at>>
                                         /\ inbox[e].status = "PENDING"
    BY DEF Pushing!Source
  <2>2. S \subseteq Entities \X Nat /\ \A x \in S : inbox[x[1]].status = "PENDING"
    <3> HIDE DEF S
    <3> QED  BY <1>2, <2>1 DEF InboxType
  <2>3. IsFiniteSet(S)
    <3> DEFINE f == [e \in Entities |-> <<e, inbox[e].at>>]
               all == Range(f)
    <3>1. IsFiniteSet(all)
      <4>1. f \in Surjection(Entities, all)
        BY DEF Surjection, Range
      <4> HIDE DEF f, all
      <4> QED  BY <4>1, Ids, FS_Surjection
    <3>2. S \in SUBSET all
      BY <2>1 DEF Range
    <3> HIDE DEF S, all
    <3> QED  BY <3>1, <3>2, FS_Subset
  <2>4. ASSUME NEW x \in S, NEW p \in Pushing!Pushes,
               push[p].status = "PENDING", push[p].entity = x[1], push[p].at = x[2]
        PROVE  FALSE
    <3>1. <<push[p].entity, push[p].at>> \in Pushing!Prior
      BY <2>4 DEF Pushing!Prior, Pushing!None
    <3>2. x = <<x[1], x[2]>>
      BY <2>1
    <3> QED  BY <2>4, <3>1, <3>2
  <2> QED  BY <2>2, <2>3, <2>4
<1> HIDE DEF S
<1>4. /\ u \in TxType /\ u.pc = "commit" /\ u.version = version /\ u.source = S
      /\ u.edited = {}
      /\ u.known <=> old
  <2>1. old \in BOOLEAN /\ version \in Nat
    BY <1>2
  <2> HIDE DEF old
  <2> QED  BY <1>3, <2>1 DEF TxType
<1> HIDE DEF u
<1>5. tx'[d] = u /\ \A x \in Devices : x # d => tx'[x] = tx[x]
  BY <1>1, <1>2 DEF ScheduleTyped
<1>6. ScheduleTyped'
  <2>1. tx' \in [Devices -> TxType] /\ \A x \in Devices : IsFiniteSet(tx'[x].source)
    BY <1>1, <1>2, <1>3, <1>4 DEF ScheduleTyped
  <2> QED  BY <1>1, <1>2, <2>1 DEF ScheduleTyped
<1>7. SubsInv'
  BY <1>1, <1>2, <1>4, <1>5, PushCards DEF SubsInv
<1>8. ScheduleInv'
  <2>1. editor'.pc \in {"channels", "create"} =>
        /\ inbox'[editor'.entity].status # "PENDING"
        /\ \A p \in Pushing!Pushes :
             push'[p].status = "PENDING" /\ push'[p].entity = editor'.entity
             => push'[p].stale
        /\ \A x \in Devices : tx'[x].pc = "commit" =>
             \A y \in tx'[x].source : y[1] = editor'.entity => y[1] \in tx'[x].edited
    BY <1>1, <1>2, <1>3, <1>4, <1>5 DEF ScheduleInv
  <2>2. \A x \in Devices : tx'[x].pc = "commit" /\ tx'[x].version = version' =>
        \A y \in tx'[x].source : y[1] \notin tx'[x].edited =>
          \A p \in Pushing!Pushes :
            ~ (push'[p].status = "PENDING" /\ push'[p].entity = y[1] /\ push'[p].at = y[2])
    BY <1>1, <1>2, <1>3, <1>4, <1>5 DEF ScheduleInv
  <2>3. \A p, q \in Pushing!Pushes :
        ( /\ p # q /\ push'[p].status = "PENDING" /\ push'[q].status = "PENDING"
          /\ push'[p].entity = push'[q].entity /\ push'[p].at = push'[q].at )
        => push'[p].stale \/ push'[q].stale
    BY <1>1, <1>2 DEF ScheduleInv
  <2> QED  BY <2>1, <2>2, <2>3 DEF ScheduleInv
<1>9. DeliveryInv' /\ DevicesTyped'
  <2>1. PushRowsTyped' /\ \A p \in Pushing!Pushes : RowMoves(p)
    BY <1>1 DEF PushInv, DeliveryInv, PushRowsTyped, RowsInv, RowMoves
  <2>2. /\ gone \subseteq gone' /\ subs \subseteq subs' \cup gone'
        /\ receipts' \subseteq receipts
        /\ subs' \cap (gone \ subs) = {} /\ \A x \in receipts \ receipts' : x[2] \in gone'
        /\ UNCHANGED <<pusher, sent, excused>>
    BY <1>1
  <2>3. DevicesTyped'
    BY <1>1, <1>2 DEF DevicesTyped
  <2> QED  BY <2>1, <2>2, <2>3, DeliveryRests
<1> QED  BY <1>6, <1>7, <1>8, <1>9 DEF PushInv

LEMMA CancelKept == ASSUME PushInv, Pushing!Cancel PROVE PushInv'
<1> DEFINE e == editor.entity
           Hit(p) == push[p].entity = e /\ push[p].status = "PENDING"
           row(p) == [push[p] EXCEPT !.status = "CANCELLED", !.claim = None, !.over = FALSE]
           more(d) == [tx[d] EXCEPT !.edited = @ \cup {e}]
<1>1. /\ editor.pc = "cancel"
      /\ push' = [p \in Pushing!Pushes |-> IF Hit(p) THEN row(p) ELSE push[p]]
      /\ inbox' = IF inbox[e].status = "PENDING"
                  THEN [inbox EXCEPT ![e].status = "CANCELLED"] ELSE inbox
      /\ editor' = IF when[e] = 0 THEN Pushing!NoEdit
                   ELSE [editor EXCEPT !.pc = "channels"]
      /\ tx' = [d \in Devices |-> IF tx[d].pc = "commit" THEN more(d) ELSE tx[d]]
      /\ UNCHANGED <<now, when, enabled, version>>
      /\ UNCHANGED <<subs, gone, receipts, pusher, sent, excused>>
  BY Ids DEF Pushing!Cancel, Pushing!delivery
<1>2. /\ ScheduleTyped /\ SubsInv /\ ScheduleInv /\ DevicesTyped /\ RowsInv
      /\ PushRowsTyped /\ version \in Nat /\ inbox \in [Entities -> InboxType]
      /\ tx \in [Devices -> TxType] /\ \A d \in Devices : IsFiniteSet(tx[d].source)
      /\ editor \in EditorType
  BY DEF PushInv, ScheduleTyped, DeliveryInv
<1>3. e \in Entities
  BY <1>1, <1>2 DEF ScheduleTyped
<1>4. ASSUME NEW p \in Pushing!Pushes
      PROVE  /\ push'[p] \in PushType
             /\ push'[p].status = "PENDING" =>
                  /\ push[p].status = "PENDING" /\ push'[p].entity = push[p].entity
                  /\ push'[p].at = push[p].at /\ push'[p].stale = push[p].stale
                  /\ push[p].entity # e
             /\ RowMoves(p)
  <2>1. push[p] \in PushType /\ (push[p].over => push[p].claim # None)
    BY <1>2 DEF PushRowsTyped, RowsInv
  <2>2. /\ row(p) \in PushType /\ row(p).status = "CANCELLED" /\ row(p).claim = None
        /\ row(p).over = FALSE /\ row(p).late = push[p].late
    BY <2>1, Ids DEF PushType
  <2>3. push'[p] = IF Hit(p) THEN row(p) ELSE push[p]
    BY <1>1
  <2> HIDE DEF row
  <2>4. CASE Hit(p)
    BY <2>2, <2>3, <2>4 DEF RowMoves
  <2>5. CASE ~Hit(p)
    BY <2>1, <2>3, <2>5 DEF RowMoves
  <2> QED  BY <2>4, <2>5
<1>5. PushRowsTyped'
  <2>1. push' = [p \in Pushing!Pushes |-> push'[p]]
    BY <1>1
  <2> QED  BY <1>4, <2>1 DEF PushRowsTyped
<1>6. /\ inbox' \in [Entities -> InboxType]
      /\ inbox'[e].status # "PENDING"
  <2> DEFINE r == [inbox[e] EXCEPT !.status = "CANCELLED"]
  <2>1. r \in InboxType /\ r.status = "CANCELLED"
    BY <1>2, <1>3, Ids DEF InboxType
  <2>2. inbox' = IF inbox[e].status = "PENDING" THEN [inbox EXCEPT ![e] = r] ELSE inbox
    BY <1>1
  <2> HIDE DEF r, e
  <2> QED  BY <1>2, <1>3, <2>1, <2>2
<1>7. ASSUME NEW d \in Devices
      PROVE  /\ tx'[d] \in TxType /\ IsFiniteSet(tx'[d].source)
             /\ tx'[d].pc = tx[d].pc /\ tx'[d].version = tx[d].version
             /\ tx'[d].known = tx[d].known /\ tx'[d].source = tx[d].source
             /\ tx[d].edited \subseteq tx'[d].edited
             /\ tx'[d].pc = "commit" => e \in tx'[d].edited
  <2>1. tx[d] \in TxType
    BY <1>2
  <2>2. /\ more(d) \in TxType /\ more(d).pc = tx[d].pc /\ more(d).version = tx[d].version
        /\ more(d).known = tx[d].known /\ more(d).source = tx[d].source
        /\ more(d).edited = tx[d].edited \cup {e}
    <3> HIDE DEF e
    <3> QED  BY <1>3, <2>1 DEF TxType
  <2>3. tx'[d] = IF tx[d].pc = "commit" THEN more(d) ELSE tx[d]
    BY <1>1
  <2> HIDE DEF more, e
  <2> QED  BY <1>2, <2>1, <2>2, <2>3
<1>8. /\ editor' \in EditorType
      /\ editor'.pc = "idle" \/ (editor'.pc = "channels" /\ editor'.entity = e)
  BY <1>1, <1>2, Ids DEF EditorType, Pushing!NoEdit
<1>9. ScheduleTyped'
  <2>1. tx' \in [Devices -> TxType]
    <3>1. tx' = [d \in Devices |-> tx'[d]]
      BY <1>1
    <3> QED  BY <1>7, <3>1
  <2>2. editor'.pc # "idle" => editor'.entity \in Entities
    BY <1>3, <1>8
  <2> QED  BY <1>1, <1>2, <1>6, <1>7, <1>8, <2>1, <2>2 DEF ScheduleTyped
<1> HIDE DEF Hit, row, more
<1>10. SubsInv'
  <2>1. version <= version' /\ version' \in Nat
    BY <1>1, <1>2
  <2>2. subs' \subseteq subs /\ subs' \cap gone' = {} /\ gone' \subseteq subs \cup gone
    BY <1>1, <1>2 DEF SubsInv
  <2>3. \A d \in Devices : tx'[d].pc = "commit" =>
          /\ tx[d].pc = "commit"
          /\ tx'[d].version = tx[d].version /\ tx'[d].known = tx[d].known
    BY <1>7
  <2> QED  BY <2>1, <2>2, <2>3, SubsRest
<1>11. ScheduleInv'
  <2>1. editor'.pc \in {"channels", "create"} =>
        /\ inbox'[editor'.entity].status # "PENDING"
        /\ \A p \in Pushing!Pushes :
             push'[p].status = "PENDING" /\ push'[p].entity = editor'.entity
             => push'[p].stale
        /\ \A d \in Devices : tx'[d].pc = "commit" =>
             \A x \in tx'[d].source : x[1] = editor'.entity => x[1] \in tx'[d].edited
    <3>1. editor'.pc \in {"channels", "create"} => editor'.entity = e
      BY <1>8
    <3>2. \A p \in Pushing!Pushes : push'[p].status = "PENDING" => push'[p].entity # e
      BY <1>4
    <3> HIDE DEF e
    <3> QED  BY <1>6, <1>7, <3>1, <3>2
  <2>2. \A d \in Devices : tx'[d].pc = "commit" /\ tx'[d].version = version' =>
        \A x \in tx'[d].source : x[1] \notin tx'[d].edited =>
          \A p \in Pushing!Pushes :
            ~ (push'[p].status = "PENDING" /\ push'[p].entity = x[1] /\ push'[p].at = x[2])
    <3>1. SUFFICES ASSUME NEW d \in Devices, tx'[d].pc = "commit", tx'[d].version = version',
                          NEW x \in tx'[d].source, x[1] \notin tx'[d].edited,
                          NEW p \in Pushing!Pushes, push'[p].status = "PENDING",
                          push'[p].entity = x[1], push'[p].at = x[2]
                   PROVE  FALSE
      OBVIOUS
    <3>2. /\ tx[d].pc = "commit" /\ tx[d].version = version /\ x \in tx[d].source
          /\ x[1] \notin tx[d].edited
      BY <1>1, <1>7, <3>1
    <3>3. push[p].status = "PENDING" /\ push[p].entity = x[1] /\ push[p].at = x[2]
      BY <1>4, <3>1
    <3> QED  BY <1>2, <3>2, <3>3 DEF ScheduleInv
  <2>3. \A p, q \in Pushing!Pushes :
        ( /\ p # q /\ push'[p].status = "PENDING" /\ push'[q].status = "PENDING"
          /\ push'[p].entity = push'[q].entity /\ push'[p].at = push'[q].at )
        => push'[p].stale \/ push'[q].stale
    <3> HIDE DEF e
    <3> QED  BY <1>2, <1>4 DEF ScheduleInv
  <2> QED  BY <2>1, <2>2, <2>3 DEF ScheduleInv
<1>12. DeliveryInv' /\ DevicesTyped'
  <2>1. \A p \in Pushing!Pushes : RowMoves(p)
    BY <1>4
  <2>2. /\ gone \subseteq gone' /\ subs \subseteq subs' \cup gone'
        /\ receipts' \subseteq receipts
        /\ subs' \cap (gone \ subs) = {} /\ \A x \in receipts \ receipts' : x[2] \in gone'
        /\ UNCHANGED <<pusher, sent, excused>>
    BY <1>1
  <2>3. DevicesTyped'
    BY <1>1, <1>2 DEF DevicesTyped
  <2> QED  BY <1>5, <2>1, <2>2, <2>3, DeliveryRests
<1> QED  BY <1>9, <1>10, <1>11, <1>12 DEF PushInv

\* Rows made in free places: what the invariant needs of them.
LEMMA CopiedMoves ==
  ASSUME PushInv, NEW S, NEW old, NEW T, NEW f, Copied(S, old, T, f)
  PROVE  /\ \A p \in T : /\ p \in Pushing!Pushes /\ push'[p].status = "PENDING"
                         /\ push'[p].entity = f[p][1] /\ push'[p].at = f[p][2]
                         /\ f[p] \in S
                         /\ push'[p].stale <=> f[p][1] \in old
         /\ \A p, q \in T : f[p] = f[q] => p = q
         /\ \A p \in Pushing!Pushes : p \notin T => push'[p] = push[p]
         /\ \A p \in Pushing!Pushes : RowMoves(p)
<1>1. T \subseteq Pushing!Pushes /\ \A p \in T : push[p].status = None
  BY DEF Copied, Pushing!Free, Pushing!None, None
<1>2. \A p \in Pushing!Pushes : RowMoves(p)
  BY <1>1 DEF Copied, RowMoves, PushInv, DeliveryInv, RowsInv
<1> QED  BY <1>1, <1>2 DEF Copied

LEMMA CreateKept == ASSUME PushInv, Pushing!Create PROVE PushInv'
<1> DEFINE e == editor.entity
           x == <<e, when[e]>>
           S == {x}
           r == [status |-> "PENDING", at |-> when[e]]
<1>1. /\ editor.pc = "create"
      /\ editor.push => Pushing!Free # {}
      /\ inbox' = [inbox EXCEPT ![e] = r]
      /\ push' = IF editor.push THEN Pushing!WithRows(S, {}) ELSE push
      /\ editor' = Pushing!NoEdit
      /\ UNCHANGED <<now, when, enabled, version, tx>>
      /\ UNCHANGED <<subs, gone, receipts, pusher, sent, excused>>
  BY DEF Pushing!Create, Pushing!device, Pushing!delivery
<1>2. /\ ScheduleTyped /\ SubsInv /\ ScheduleInv /\ DevicesTyped /\ RowsInv
      /\ PushRowsTyped /\ version \in Nat /\ inbox \in [Entities -> InboxType]
      /\ tx \in [Devices -> TxType]
      /\ when \in [Entities -> 0..MaxTime]
  BY DEF PushInv, ScheduleTyped, DeliveryInv
<1>3. e \in Entities /\ when[e] \in Nat
  BY <1>1, <1>2, Ids DEF ScheduleTyped
<1>4. ScheduleTyped' /\ editor'.pc = "idle"
  <2>1. r \in InboxType
    <3> HIDE DEF e
    <3> QED  BY <1>3, Ids DEF InboxType
  <2>2. inbox' \in [Entities -> InboxType]
    BY <1>1, <1>2, <2>1
  <2>3. editor' \in EditorType /\ editor'.pc = "idle"
    BY <1>1, Ids DEF Pushing!NoEdit, EditorType
  <2> QED  BY <1>1, <1>2, <2>2, <2>3 DEF ScheduleTyped
<1>5. SubsInv' /\ DevicesTyped'
  <2>1. version <= version' /\ version' \in Nat
    BY <1>1, <1>2
  <2>2. subs' \subseteq subs /\ subs' \cap gone' = {} /\ gone' \subseteq subs \cup gone
    BY <1>1, <1>2 DEF SubsInv
  <2>3. \A d \in Devices : tx'[d].pc = "commit" =>
          /\ tx[d].pc = "commit"
          /\ tx'[d].version = tx[d].version /\ tx'[d].known = tx[d].known
    BY <1>1
  <2>4. DevicesTyped'
    BY <1>1, <1>2 DEF DevicesTyped
  <2> QED  BY <2>1, <2>2, <2>3, <2>4, SubsRest
<1>6. /\ PushRowsTyped'
      /\ \A p \in Pushing!Pushes :
           /\ RowMoves(p)
           /\ \/ push'[p] = push[p]
              \/ /\ push'[p].status = "PENDING"
                 /\ push'[p].entity = e /\ push'[p].at = when[e]
      /\ \A p, q \in Pushing!Pushes :
           push'[p] # push[p] /\ push'[q] # push[q] => p = q
  <2>1. CASE ~editor.push
    <3>1. push' = push
      BY <1>1, <2>1
    <3> QED  BY <1>2, <3>1 DEF PushRowsTyped, RowMoves, RowsInv
  <2>2. CASE editor.push
    <3>1. /\ S \subseteq Entities \X Nat /\ IsFiniteSet(S) /\ Cardinality(S) = 1
      BY <1>3, FS_Singleton
    <3>2. Cardinality(Pushing!Free) \in Nat /\ Cardinality(Pushing!Free) # 0
      BY <1>1, <2>2, FreeFinite, FS_CardinalityType, FS_EmptySet
    <3>3. PushRowsTyped' /\ \E T, f : Copied(S, {}, T, f)
      <4>1. push' = Pushing!WithRows(S, {})
        BY <1>1, <2>2
      <4>2. Cardinality(S) <= Cardinality(Pushing!Free)
        BY <3>1, <3>2
      <4> HIDE DEF S
      <4> QED  BY <1>2, <3>1, <4>1, <4>2, RowsAre
    <3>4. PICK T, f : Copied(S, {}, T, f)
      BY <3>3
    <3>5. /\ \A p \in T : /\ p \in Pushing!Pushes /\ push'[p].status = "PENDING"
                          /\ push'[p].entity = f[p][1] /\ push'[p].at = f[p][2]
                          /\ f[p] \in S
          /\ \A p, q \in T : f[p] = f[q] => p = q
          /\ \A p \in Pushing!Pushes : p \notin T => push'[p] = push[p]
          /\ \A p \in Pushing!Pushes : RowMoves(p)
      <4> HIDE DEF S
      <4> QED  BY <3>4, CopiedMoves
    <3>6. \A p \in T : f[p] = x /\ f[p][1] = e /\ f[p][2] = when[e]
      BY <3>5
    <3> HIDE DEF S, x, e
    <3> QED  BY <3>3, <3>5, <3>6
  <2> QED  BY <2>1, <2>2
<1> HIDE DEF e
<1>7. ScheduleInv'
  <2>1. /\ \A p \in Pushing!Pushes :
             push[p].status = "PENDING" /\ push[p].entity = e => push[p].stale
        /\ \A d \in Devices : tx[d].pc = "commit" =>
             \A y \in tx[d].source : y[1] = e => y[1] \in tx[d].edited
    BY <1>1, <1>2 DEF ScheduleInv, e
  <2>2. \A d \in Devices : tx'[d].pc = "commit" /\ tx'[d].version = version' =>
        \A y \in tx'[d].source : y[1] \notin tx'[d].edited =>
          \A p \in Pushing!Pushes :
            ~ (push'[p].status = "PENDING" /\ push'[p].entity = y[1] /\ push'[p].at = y[2])
    <3>1. SUFFICES ASSUME NEW d \in Devices, tx[d].pc = "commit", tx[d].version = version,
                          NEW y \in tx[d].source, y[1] \notin tx[d].edited,
                          NEW p \in Pushing!Pushes, push'[p].status = "PENDING",
                          push'[p].entity = y[1], push'[p].at = y[2]
                   PROVE  FALSE
      BY <1>1
    <3>2. y[1] # e
      BY <2>1, <3>1
    <3>3. push'[p] = push[p]
      BY <1>6, <3>1, <3>2
    <3> QED  BY <1>2, <3>1, <3>3 DEF ScheduleInv
  <2>3. \A p, q \in Pushing!Pushes :
        ( /\ p # q /\ push'[p].status = "PENDING" /\ push'[q].status = "PENDING"
          /\ push'[p].entity = push'[q].entity /\ push'[p].at = push'[q].at )
        => push'[p].stale \/ push'[q].stale
    BY <1>2, <1>6, <2>1 DEF ScheduleInv
  <2> QED  BY <1>4, <2>2, <2>3 DEF ScheduleInv
<1>8. DeliveryInv'
  <2>1. \A p \in Pushing!Pushes : RowMoves(p)
    BY <1>6
  <2>2. /\ gone \subseteq gone' /\ subs \subseteq subs' \cup gone'
        /\ receipts' \subseteq receipts
        /\ subs' \cap (gone \ subs) = {} /\ \A y \in receipts \ receipts' : y[2] \in gone'
        /\ UNCHANGED <<pusher, sent, excused>>
    BY <1>1
  <2> QED  BY <1>6, <2>1, <2>2, DeliveryRests
<1> QED  BY <1>4, <1>5, <1>7, <1>8 DEF PushInv

\* The version is the one the snapshot saw: nobody else has committed.
LEMMA CommitKept ==
  ASSUME PushInv, NEW d \in Devices, Pushing!Commit(d) PROVE PushInv'
<1> DEFINE S == tx[d].source
           old == tx[d].edited
<1>1. /\ tx[d].pc = "commit" /\ tx[d].version = version
      /\ tx[d].known => d \in subs
      /\ Cardinality(S) <= Cardinality(Pushing!Free)
      /\ subs' = subs \cup {d} /\ enabled' = TRUE /\ version' = version + 1
      /\ push' = Pushing!WithRows(S, old)
      /\ tx' = [tx EXCEPT ![d] = Pushing!NoTx]
      /\ UNCHANGED <<now, when, inbox, gone, editor>>
      /\ UNCHANGED <<receipts, pusher, sent, excused>>
  BY PushCards DEF Pushing!Commit, Pushing!Serializes, Pushing!delivery
<1>2. /\ ScheduleTyped /\ SubsInv /\ ScheduleInv /\ DevicesTyped /\ RowsInv
      /\ PushRowsTyped /\ version \in Nat
      /\ tx \in [Devices -> TxType]
      /\ \A x \in Devices : IsFiniteSet(tx[x].source) /\ tx[x] \in TxType
  BY DEF PushInv, ScheduleTyped, DeliveryInv
<1>3. /\ Pushing!NoTx \in TxType /\ Pushing!NoTx.pc = "idle"
      /\ IsFiniteSet(Pushing!NoTx.source)
  BY FS_EmptySet DEF Pushing!NoTx, TxType
<1>4. /\ tx' \in [Devices -> TxType] /\ tx'[d].pc = "idle"
      /\ \A x \in Devices : IsFiniteSet(tx'[x].source)
      /\ \A x \in Devices : tx'[x].pc = "commit" => x # d /\ tx'[x] = tx[x]
  BY <1>1, <1>2, <1>3
<1>5. ScheduleTyped'
  <2>1. version' \in Nat /\ enabled' \in BOOLEAN
    BY <1>1, <1>2
  <2> QED  BY <1>1, <1>2, <1>4, <2>1 DEF ScheduleTyped
<1>6. ASSUME NEW x \in Devices, tx'[x].pc = "commit"
      PROVE  x # d /\ tx'[x] = tx[x] /\ tx[x].version <= version /\ tx'[x].version # version'
  <2>1. x # d /\ tx'[x] = tx[x] /\ tx[x].pc = "commit"
    BY <1>4, <1>6
  <2>2. tx[x].version \in Nat /\ tx[x].version <= version
    BY <1>2, <2>1 DEF TxType, SubsInv
  <2> QED  BY <1>1, <1>2, <2>1, <2>2
<1>7. SubsInv'
  <2>1. d \notin gone
    BY <1>1, <1>2 DEF SubsInv
  <2>2. IsFiniteSet(subs') /\ Cardinality(subs') <= DeviceLimit
    <3>1. CASE d \in subs
      <4>1. subs' = subs
        BY <1>1, <3>1
      <4> QED  BY <1>2, <4>1 DEF SubsInv
    <3>2. CASE d \notin subs
      <4>1. IsFiniteSet(subs) /\ Cardinality(subs) < DeviceLimit
        BY <1>1, <1>2, <3>2 DEF SubsInv
      <4>2. IsFiniteSet(subs') /\ Cardinality(subs') = Cardinality(subs) + 1
        BY <1>1, <3>2, <4>1, FS_AddElement
      <4>3. Cardinality(subs) \in Nat /\ DeviceLimit \in Nat
        BY <4>1, FS_CardinalityType, Ids
      <4> QED  BY <4>1, <4>2, <4>3
    <3> QED  BY <3>1, <3>2
  <2>3. ASSUME NEW x \in Devices, tx'[x].pc = "commit"
        PROVE  /\ tx'[x].version <= version'
               /\ ~tx'[x].known => x \notin subs' \cup gone'
               /\ tx'[x].version # version'
    <3>1. x # d /\ tx'[x] = tx[x] /\ tx[x].version <= version /\ tx'[x].version # version'
      BY <1>6, <2>3
    <3>2. tx[x].pc = "commit" /\ tx[x].version \in Nat
      BY <1>2, <2>3, <3>1 DEF TxType
    <3>3. ~tx[x].known => x \notin subs \cup gone
      BY <1>2, <3>2 DEF SubsInv
    <3> QED  BY <1>1, <1>2, <3>1, <3>2, <3>3
  <2> QED  BY <1>1, <1>2, <2>1, <2>2, <2>3 DEF SubsInv
<1>8. S \subseteq Entities \X Nat /\ IsFiniteSet(S)
  BY <1>2 DEF TxType
<1>9. PushRowsTyped' /\ \E T, f : Copied(S, old, T, f)
  <2> HIDE DEF S, old
  <2> QED  BY <1>1, <1>2, <1>8, RowsAre
<1>10. PICK T, f : Copied(S, old, T, f)
  BY <1>9
<1>11. /\ \A p \in T : /\ p \in Pushing!Pushes /\ push'[p].status = "PENDING"
                       /\ push'[p].entity = f[p][1] /\ push'[p].at = f[p][2]
                       /\ f[p] \in S
                       /\ push'[p].stale <=> f[p][1] \in old
       /\ \A p, q \in T : f[p] = f[q] => p = q
       /\ \A p \in Pushing!Pushes : p \notin T => push'[p] = push[p]
       /\ \A p \in Pushing!Pushes : RowMoves(p)
  <2> HIDE DEF S, old
  <2> QED  BY <1>10, CopiedMoves
<1>12. ScheduleInv'
  <2>1. editor'.pc \in {"channels", "create"} =>
        /\ inbox'[editor'.entity].status # "PENDING"
        /\ \A p \in Pushing!Pushes :
             push'[p].status = "PENDING" /\ push'[p].entity = editor'.entity
             => push'[p].stale
        /\ \A x \in Devices : tx'[x].pc = "commit" =>
             \A y \in tx'[x].source : y[1] = editor'.entity => y[1] \in tx'[x].edited
    <3>1. SUFFICES ASSUME editor.pc \in {"channels", "create"}
          PROVE
        /\ inbox[editor.entity].status # "PENDING"
        /\ \A p \in Pushing!Pushes :
             push'[p].status = "PENDING" /\ push'[p].entity = editor.entity
             => push'[p].stale
        /\ \A x \in Devices : tx'[x].pc = "commit" =>
             \A y \in tx'[x].source : y[1] = editor.entity => y[1] \in tx'[x].edited
      BY <1>1
    <3>2. /\ inbox[editor.entity].status # "PENDING"
          /\ \A p \in Pushing!Pushes :
               push[p].status = "PENDING" /\ push[p].entity = editor.entity
               => push[p].stale
          /\ \A x \in Devices : tx[x].pc = "commit" =>
               \A y \in tx[x].source : y[1] = editor.entity => y[1] \in tx[x].edited
      BY <1>2, <3>1 DEF ScheduleInv
    <3>3. \A y \in S : y[1] = editor.entity => y[1] \in old
      BY <1>1, <3>2
    <3> HIDE DEF S, old
    <3>4. ASSUME NEW p \in Pushing!Pushes, push'[p].status = "PENDING",
                 push'[p].entity = editor.entity
          PROVE  push'[p].stale
      BY <1>11, <3>2, <3>3, <3>4
    <3>5. \A x \in Devices : tx'[x].pc = "commit" => tx[x].pc = "commit" /\ tx'[x] = tx[x]
      BY <1>6
    <3> QED  BY <3>2, <3>4, <3>5
  <2>2. \A x \in Devices : ~ (tx'[x].pc = "commit" /\ tx'[x].version = version')
    BY <1>6
  <2>3. ASSUME NEW p \in Pushing!Pushes, NEW q \in Pushing!Pushes, p # q,
               push'[p].status = "PENDING", push'[q].status = "PENDING",
               push'[p].entity = push'[q].entity, push'[p].at = push'[q].at
        PROVE  push'[p].stale \/ push'[q].stale
    <3>1. ASSUME NEW a \in T, NEW b \in Pushing!Pushes, b \notin T,
                 push'[b].status = "PENDING",
                 push'[a].entity = push'[b].entity, push'[a].at = push'[b].at
          PROVE  push'[a].stale
      <4>1. /\ f[a] \in S /\ push'[b] = push[b]
            /\ push[b].entity = f[a][1] /\ push[b].at = f[a][2]
            /\ push[b].status = "PENDING"
            /\ push'[a].stale <=> f[a][1] \in old
        BY <1>11, <3>1
      <4>2. f[a][1] \in old
        BY <1>1, <1>2, <4>1 DEF ScheduleInv
      <4> QED  BY <4>1, <4>2
    <3>2. CASE p \in T /\ q \in T
      <4>1. f[p] \in S /\ f[q] \in S /\ f[p][1] = f[q][1] /\ f[p][2] = f[q][2]
        BY <1>11, <2>3, <3>2
      <4>2. f[p] = f[q]
        <5> HIDE DEF S
        <5>1. \A y, z \in Entities \X Nat : y[1] = z[1] /\ y[2] = z[2] => y = z
          OBVIOUS
        <5> QED  BY <1>8, <4>1, <5>1
      <4> QED  BY <1>11, <2>3, <3>2, <4>2
    <3>3. CASE p \in T /\ q \notin T
      BY <2>3, <3>1, <3>3
    <3>4. CASE p \notin T /\ q \in T
      BY <2>3, <3>1, <3>4
    <3>5. CASE p \notin T /\ q \notin T
      <4>1. push'[p] = push[p] /\ push'[q] = push[q]
        BY <1>11, <3>5
      <4> QED  BY <1>2, <2>3, <4>1 DEF ScheduleInv
    <3> QED  BY <3>2, <3>3, <3>4, <3>5
  <2> QED  BY <2>1, <2>2, <2>3 DEF ScheduleInv
<1>13. DevicesTyped' /\ DeliveryInv'
  <2>1. \A p \in Pushing!Pushes : RowMoves(p)
    BY <1>11
  <2>2. d \notin gone
    BY <1>1, <1>2 DEF SubsInv
  <2>3. /\ gone \subseteq gone' /\ subs \subseteq subs' \cup gone'
        /\ receipts' \subseteq receipts
        /\ subs' \cap (gone \ subs) = {} /\ \A x \in receipts \ receipts' : x[2] \in gone'
        /\ UNCHANGED <<pusher, sent, excused>>
    BY <1>1, <1>2, <2>2 DEF SubsInv
  <2>4. DevicesTyped'
    BY <1>1, <1>2 DEF DevicesTyped
  <2> QED  BY <1>9, <2>1, <2>3, <2>4, DeliveryRests
<1> QED  BY <1>5, <1>7, <1>12, <1>13 DEF PushInv

\* A device that goes takes its receipts with it.
LEMMA RemovedKept ==
  ASSUME PushInv, NEW d \in Devices, Pushing!Removed(d)
  PROVE  /\ DevicesTyped' /\ gone \subseteq gone' /\ subs \subseteq subs' \cup gone'
         /\ subs' \subseteq subs /\ subs' \cap gone' = {} /\ gone' \subseteq subs \cup gone
         /\ subs' \cap (gone \ subs) = {}
         /\ receipts' \subseteq receipts
         /\ \A x \in receipts \ receipts' : x[2] \in gone'
<1>1. /\ subs' = subs \ {d} /\ gone' = gone \cup (subs \cap {d})
      /\ receipts' = {x \in receipts : x[2] # d}
  BY DEF Pushing!Removed
<1>2. DevicesTyped /\ subs \cap gone = {} /\ receipts \subseteq Pushing!Pushes \X subs
  BY DEF PushInv, SubsInv, DevicesTyped
<1>3. receipts' \subseteq Pushing!Pushes \X subs'
  BY <1>1, <1>2
<1>4. \A x \in receipts \ receipts' : x[2] \in gone'
  BY <1>1, <1>2
<1> QED  BY <1>1, <1>2, <1>3, <1>4 DEF DevicesTyped

LEMMA UnsubscribeKept ==
  ASSUME PushInv, NEW d \in Devices, Pushing!Unsubscribe(d) PROVE PushInv'
<1>1. /\ Pushing!Removed(d)
      /\ UNCHANGED <<now, when, inbox, push, enabled, version, editor, tx>>
      /\ UNCHANGED <<pusher, sent, excused>>
  BY DEF Pushing!Unsubscribe
<1>2. /\ ScheduleTyped /\ version \in Nat /\ RowsInv /\ PushRowsTyped
  BY DEF PushInv, ScheduleTyped, DeliveryInv
<1>3. /\ DevicesTyped' /\ gone \subseteq gone' /\ subs \subseteq subs' \cup gone'
      /\ subs' \subseteq subs /\ subs' \cap gone' = {} /\ gone' \subseteq subs \cup gone
      /\ subs' \cap (gone \ subs) = {}
      /\ receipts' \subseteq receipts
      /\ \A x \in receipts \ receipts' : x[2] \in gone'
  BY <1>1, RemovedKept
<1>4. ScheduleTyped' /\ PushRowsTyped' /\ \A p \in Pushing!Pushes : RowMoves(p)
  BY <1>1, <1>2 DEF ScheduleTyped, PushRowsTyped, RowsInv, RowMoves
<1>5. version <= version' /\ version' \in Nat
  BY <1>1, <1>2
<1>6. ScheduleInv'
  BY <1>1, <1>5, ScheduleRests
<1>7. SubsInv'
  BY <1>1, <1>3, <1>5, SubsRest
<1>8. DeliveryInv'
  BY <1>1, <1>3, <1>4, DeliveryRests
<1> QED  BY <1>3, <1>4, <1>6, <1>7, <1>8 DEF PushInv

LEMMA LeaseEndsKept ==
  ASSUME PushInv, NEW p \in Pushing!Pushes, Pushing!LeaseEnds(p) PROVE PushInv'
<1>1. /\ push[p].claim # None
      /\ push' = [push EXCEPT ![p].over = TRUE]
      /\ UNCHANGED <<now, when, inbox, enabled, version, editor, tx>>
      /\ UNCHANGED <<subs, gone, receipts, pusher, sent, excused>>
  BY Ids DEF Pushing!LeaseEnds, Pushing!device, Pushing!delivery
<1>2. /\ ScheduleTyped /\ version \in Nat /\ RowsInv /\ PushRowsTyped /\ DevicesTyped /\ SubsInv
  BY DEF PushInv, ScheduleTyped, DeliveryInv
<1>3. /\ PushRowsTyped'
      /\ \A q \in Pushing!Pushes :
           /\ push'[q].status = push[q].status /\ push'[q].claim = push[q].claim
           /\ push'[q].late = push[q].late /\ push'[q].entity = push[q].entity
           /\ push'[q].at = push[q].at /\ push'[q].stale = push[q].stale
           /\ push'[q].over => push'[q].claim # None
  <2> DEFINE r == [push[p] EXCEPT !.over = TRUE]
  <2>1. push[p] \in PushType
    BY <1>2 DEF PushRowsTyped
  <2>2. /\ r \in PushType /\ r.status = push[p].status /\ r.claim = push[p].claim
        /\ r.late = push[p].late /\ r.entity = push[p].entity /\ r.at = push[p].at
        /\ r.stale = push[p].stale
    BY <2>1 DEF PushType
  <2>3. push' = [push EXCEPT ![p] = r]
    BY <1>1
  <2> HIDE DEF r
  <2> QED  BY <1>1, <1>2, <2>2, <2>3 DEF PushRowsTyped, RowsInv
<1>4. ScheduleTyped' /\ DevicesTyped' /\ \A q \in Pushing!Pushes : RowMoves(q)
  <2>1. \A q \in Pushing!Pushes : RowMoves(q)
    BY <1>3 DEF RowMoves
  <2> QED  BY <1>1, <1>2, <2>1 DEF ScheduleTyped, DevicesTyped
<1>5. version <= version' /\ version' \in Nat
  BY <1>1, <1>2
<1>6. ScheduleInv'
  <2>1. \A q \in Pushing!Pushes : push'[q].status = "PENDING" =>
           /\ push[q].status = "PENDING" /\ push'[q].entity = push[q].entity
           /\ push'[q].at = push[q].at /\ push'[q].stale = push[q].stale
    BY <1>3
  <2> QED  BY <1>1, <1>5, <2>1, ScheduleRests
<1>7. SubsInv'
  BY <1>1, <1>2 DEF SubsInv
<1>8. DeliveryInv'
  <2>1. /\ gone \subseteq gone' /\ subs \subseteq subs' \cup gone'
        /\ receipts' \subseteq receipts
        /\ subs' \cap (gone \ subs) = {} /\ \A x \in receipts \ receipts' : x[2] \in gone'
        /\ UNCHANGED <<pusher, sent, excused>>
    BY <1>1
  <2> QED  BY <1>3, <1>4, <2>1, DeliveryRests
<1> QED  BY <1>4, <1>6, <1>7, <1>8 DEF PushInv

-----------------------------------------------------------------------------
(* One worker makes a step: w becomes u.                                   *)

Bit(b) == IF b THEN 1 ELSE 0
Goes(u, p) == u.pc = "send" /\ u.row = p
GoesTo(u, p, d) == u.pc = "send" /\ u.row = p /\ u.device = d
NearTo(u, p, d) == u.pc \in {"send", "receipt"} /\ u.row = p /\ u.device = d

LEMMA OneMoves ==
  ASSUME NEW S, IsFiniteSet(S), NEW T, NEW x, \A y : y # x => (y \in S <=> y \in T)
  PROVE  Cardinality(T) = Cardinality(S) - Bit(x \in S) + Bit(x \in T)
<1>1. Cardinality(S) \in Nat
  BY FS_CardinalityType
<1>2. CASE x \in S /\ x \notin T
  <2>1. T = S \ {x}
    BY <1>2
  <2>2. Cardinality(T) = Cardinality(S) - 1
    BY <1>2, <2>1, FS_RemoveElement
  <2> QED  BY <1>1, <1>2, <2>2 DEF Bit
<1>3. CASE x \notin S /\ x \in T
  <2>1. T = S \cup {x}
    BY <1>3
  <2>2. Cardinality(T) = Cardinality(S) + 1
    BY <1>3, <2>1, FS_AddElement
  <2> QED  BY <1>1, <1>3, <2>2 DEF Bit
<1>4. CASE x \in S <=> x \in T
  <2>1. T = S
    BY <1>4
  <2> QED  BY <1>1, <2>1 DEF Bit
<1> QED  BY <1>2, <1>3, <1>4

Turns(w, u) == /\ pusher' = [pusher EXCEPT ![w] = u] /\ u \in PusherType
               /\ u.pc # "idle" => u.row \in Pushing!Pushes
               /\ u.pc \in {"send", "receipt"} <=> u.device # None

LEMMA SendersMove ==
  ASSUME PushInv, NEW w \in Workers, NEW u, Turns(w, u), NEW p, NEW d
  PROVE  /\ Cardinality(Sending(p, d)') = Cardinality(Sending(p, d))
              - Bit(GoesTo(pusher[w], p, d)) + Bit(GoesTo(u, p, d))
         /\ Cardinality(SendingOf(p)') = Cardinality(SendingOf(p))
              - Bit(Goes(pusher[w], p)) + Bit(Goes(u, p))
<1>1. pusher'[w] = u /\ \A v \in Workers : v # w => pusher'[v] = pusher[v]
  BY DEF Turns, PushInv, DeliveryInv, PushersTyped
<1>2. /\ w \in Sending(p, d) <=> GoesTo(pusher[w], p, d)
      /\ w \in Sending(p, d)' <=> GoesTo(u, p, d)
      /\ w \in SendingOf(p) <=> Goes(pusher[w], p)
      /\ w \in SendingOf(p)' <=> Goes(u, p)
  BY <1>1 DEF Sending, SendingOf, Goes, GoesTo
<1>3. /\ \A v : v # w => (v \in Sending(p, d) <=> v \in Sending(p, d)')
      /\ \A v : v # w => (v \in SendingOf(p) <=> v \in SendingOf(p)')
  BY <1>1 DEF Sending, SendingOf
<1>4. IsFiniteSet(Sending(p, d)) /\ IsFiniteSet(SendingOf(p))
  BY SendersFinite
<1>5. /\ Cardinality(Sending(p, d)') = Cardinality(Sending(p, d))
           - Bit(w \in Sending(p, d)) + Bit(w \in Sending(p, d)')
      /\ Cardinality(SendingOf(p)') = Cardinality(SendingOf(p))
           - Bit(w \in SendingOf(p)) + Bit(w \in SendingOf(p)')
  BY <1>3, <1>4, OneMoves
<1> QED  BY <1>2, <1>5 DEF Bit

LEMMA SlackStep ==
  ASSUME PushInv, NEW w \in Workers, NEW u, Turns(w, u), NEW p, NEW d,
         push'[p].status = "PENDING" =>
           /\ push[p].status = "PENDING"
           /\ \/ push'[p].claim = push[p].claim
              \/ push[p].claim = w /\ ~NearTo(pusher[w], p, d),
         <<p, d>> \in receipts => <<p, d>> \in receipts',
         NearTo(pusher[w], p, d) => NearTo(u, p, d)
  PROVE  Slack(p, d) <= Slack(p, d)'
<1>1. pusher'[w] = u /\ \A v \in Workers : v # w => pusher'[v] = pusher[v]
  BY DEF Turns, PushInv, DeliveryInv, PushersTyped
<1>2. \A v \in Workers : Nearby(v, p, d) => Nearby(v, p, d)'
  BY <1>1 DEF Nearby, NearTo
<1>3. push'[p].status = "PENDING" => (HolderNear(p, d) => HolderNear(p, d)')
  <2>1. SUFFICES ASSUME push'[p].status = "PENDING", HolderNear(p, d)
                 PROVE  HolderNear(p, d)'
    OBVIOUS
  <2>2. PICK v \in Workers : Nearby(v, p, d) /\ push'[p].claim = v
    BY <2>1 DEF HolderNear, Nearby, NearTo
  <2>3. Nearby(v, p, d)'
    BY <1>2, <2>2
  <2>4. /\ pusher'[push'[p].claim].pc \in {"send", "receipt"}
        /\ pusher'[push'[p].claim].row = p /\ pusher'[push'[p].claim].device = d
    BY <2>2, <2>3 DEF Nearby
  <2> QED  BY <2>1, <2>2, <2>4 DEF HolderNear, Nearby
<1>4. Slack(p, d) \in {0, 1}
  BY DEF Slack
<1> QED  BY <1>3, <1>4 DEF Slack

LEMMA Slacks == \A p, d : Slack(p, d) \in {0, 1} /\ Slack(p, d)' \in {0, 1}
BY DEF Slack

\* What is sent in the step is taken from what was about to be, or excused.
SentStep(w, u) ==
  \A p \in Pushing!Pushes, d \in Devices : d \notin gone' =>
    sent'[<<p, d>>] + Bit(GoesTo(u, p, d)) + excused[<<p, d>>] + Slack(p, d)
      <= excused'[<<p, d>>] + Slack(p, d)' + sent[<<p, d>>] + Bit(GoesTo(pusher[w], p, d))
LateStep(w, u) ==
  \A p \in Pushing!Pushes :
    IF push'[p].status = "CANCELLED"
    THEN /\ push[p].status = "CANCELLED"
         /\ push'[p].late + Bit(Goes(u, p)) <= push[p].late + Bit(Goes(pusher[w], p))
    ELSE push'[p].late = 0
ReachStep(w, u) ==
  /\ \A x \in receipts' : sent'[x] > 0
  /\ \A x \in Pairs : sent[x] <= sent'[x]
  /\ u.found \subseteq subs' \cup gone'
  /\ u.pc = "receipt" => sent'[<<u.row, u.device>>] > 0
  /\ /\ u.pc \in {"loop", "send", "receipt"} /\ ~u.failed
     /\ push'[u.row].status = "PENDING" /\ push'[u.row].claim = w
     => \A d \in u.found \cap subs' :
          d \in u.todo \/ d = u.device \/ sent'[<<u.row, d>>] > 0
  /\ \A v \in Workers \ {w}, p \in Pushing!Pushes :
       push'[p].status = "PENDING" /\ push'[p].claim = v
       => push[p].status = "PENDING" /\ push[p].claim = v

LEMMA WorkerStep ==
  ASSUME PushInv, NEW w \in Workers, NEW u, Turns(w, u),
         PushRowsTyped', CountsTyped', RowsInv',
         gone \subseteq gone', subs' \subseteq subs, subs \subseteq subs' \cup gone',
         SentStep(w, u), LateStep(w, u), ReachStep(w, u)
  PROVE  DeliveryInv'
<1>0. /\ PushersTyped /\ CountsTyped /\ SentInv /\ LateInv /\ ReachInv
      /\ pusher \in [Workers -> PusherType]
  BY DEF PushInv, DeliveryInv, PushersTyped
<1>1. pusher'[w] = u /\ \A v \in Workers : v # w => pusher'[v] = pusher[v]
  BY <1>0 DEF Turns
<1>2. PushersTyped'
  <2>1. pusher' \in [Workers -> PusherType]
    BY <1>0 DEF Turns
  <2>2. \A v \in Workers :
          /\ pusher'[v].pc # "idle" => pusher'[v].row \in Pushing!Pushes
          /\ pusher'[v].pc \in {"send", "receipt"} <=> pusher'[v].device # None
    BY <1>0, <1>1 DEF Turns, PushersTyped
  <2> QED  BY <2>1, <2>2 DEF PushersTyped
<1>3. SentInv'
  <2>1. SUFFICES ASSUME NEW p \in Pushing!Pushes, NEW d \in Devices, d \notin gone'
        PROVE  sent'[<<p, d>>] + Cardinality(Sending(p, d)')
                 <= excused'[<<p, d>>] + Slack(p, d)'
    BY DEF SentInv
  <2>2. sent[<<p, d>>] + Cardinality(Sending(p, d)) <= excused[<<p, d>>] + Slack(p, d)
    BY <1>0, <2>1 DEF SentInv
  <2>3. /\ sent[<<p, d>>] \in Nat /\ excused[<<p, d>>] \in Nat
        /\ sent'[<<p, d>>] \in Nat /\ excused'[<<p, d>>] \in Nat
        /\ Cardinality(Sending(p, d)) \in Nat
    BY <1>0, SendersFinite DEF CountsTyped, Pairs
  <2>4. Slack(p, d) \in {0, 1} /\ Slack(p, d)' \in {0, 1}
    BY Slacks
  <2>5. Cardinality(Sending(p, d)') = Cardinality(Sending(p, d))
              - Bit(GoesTo(pusher[w], p, d)) + Bit(GoesTo(u, p, d))
    BY SendersMove
  <2>6. Bit(GoesTo(pusher[w], p, d)) \in {0, 1} /\ Bit(GoesTo(u, p, d)) \in {0, 1}
    BY DEF Bit
  <2>7. sent'[<<p, d>>] + Bit(GoesTo(u, p, d)) + excused[<<p, d>>] + Slack(p, d)
      <= excused'[<<p, d>>] + Slack(p, d)' + sent[<<p, d>>] + Bit(GoesTo(pusher[w], p, d))
    BY <2>1 DEF SentStep
  <2> QED  BY <2>2, <2>3, <2>4, <2>5, <2>6, <2>7
<1>4. LateInv'
  <2>1. SUFFICES ASSUME NEW p \in Pushing!Pushes
        PROVE  IF push'[p].status = "CANCELLED"
               THEN push'[p].late + Cardinality(SendingOf(p)') <= Cardinality(Workers)
               ELSE push'[p].late = 0
    BY DEF LateInv
  <2>2. IF push'[p].status = "CANCELLED"
        THEN /\ push[p].status = "CANCELLED"
             /\ push'[p].late + Bit(Goes(u, p)) <= push[p].late + Bit(Goes(pusher[w], p))
        ELSE push'[p].late = 0
    BY DEF LateStep
  <2>3. push[p].status = "CANCELLED" =>
          push[p].late + Cardinality(SendingOf(p)) <= Cardinality(Workers)
    BY <1>0 DEF LateInv
  <2>4. Cardinality(SendingOf(p)') = Cardinality(SendingOf(p))
              - Bit(Goes(pusher[w], p)) + Bit(Goes(u, p))
    BY SendersMove
  <2>5. /\ Bit(Goes(pusher[w], p)) \in {0, 1} /\ Bit(Goes(u, p)) \in {0, 1}
        /\ Cardinality(SendingOf(p)) \in Nat /\ Cardinality(Workers) \in Nat
    BY SendersFinite DEF Bit
  <2>6. push[p].late \in Nat /\ push'[p].late \in Nat
    BY DEF PushInv, DeliveryInv, PushRowsTyped, PushType
  <2> QED  BY <2>2, <2>3, <2>4, <2>5, <2>6
<1>5. ReachInv'
  <2>1. \A x \in receipts' : sent'[x] > 0
    BY DEF ReachStep
  <2>2. \A v \in Workers : pusher'[v].found \subseteq subs' \cup gone'
    BY <1>0, <1>1 DEF ReachStep, ReachInv
  <2>3. ASSUME NEW v \in Workers, pusher'[v].pc = "receipt"
        PROVE  sent'[<<pusher'[v].row, pusher'[v].device>>] > 0
    <3>1. CASE v = w
      BY <1>1, <2>3, <3>1 DEF ReachStep
    <3>2. CASE v # w
      <4> DEFINE x == <<pusher[v].row, pusher[v].device>>
      <4>1. pusher'[v] = pusher[v] /\ x \in Pairs /\ sent[x] > 0
        BY <1>0, <1>1, <2>3, <3>2 DEF PushersTyped, PusherType, ReachInv, Pairs
      <4>2. sent[x] \in Nat /\ sent'[x] \in Nat /\ sent[x] <= sent'[x]
        BY <1>0, <4>1 DEF CountsTyped, ReachStep
      <4> QED  BY <4>1, <4>2
    <3> QED  BY <3>1, <3>2
  <2>4. ASSUME NEW v \in Workers, pusher'[v].pc \in {"loop", "send", "receipt"},
               ~pusher'[v].failed, Pushing!Held(v, pusher[v].row)'
        PROVE  Reached(v)'
    <3>1. push'[pusher'[v].row].status = "PENDING" /\ push'[pusher'[v].row].claim = v
      BY <2>4 DEF Pushing!Held
    <3>2. CASE v = w
      BY <1>1, <2>4, <3>1, <3>2 DEF ReachStep, Reached
    <3>3. CASE v # w
      <4>1. pusher'[v] = pusher[v] /\ pusher[v].row \in Pushing!Pushes
        BY <1>0, <1>1, <2>4, <3>3 DEF PushersTyped
      <4>2. Pushing!Held(v, pusher[v].row)
        BY <3>1, <3>3, <4>1 DEF ReachStep, Pushing!Held
      <4>3. Reached(v)
        BY <1>0, <2>4, <4>1, <4>2 DEF ReachInv
      <4>4. ASSUME NEW d \in pusher[v].found \cap subs', d \notin pusher[v].todo,
                   d # pusher[v].device
            PROVE  sent'[<<pusher[v].row, d>>] > 0
        <5> DEFINE x == <<pusher[v].row, d>>
        <5>1. sent[x] > 0
          BY <4>3, <4>4 DEF Reached
        <5>2. x \in Pairs
          BY <1>0, <4>1, <4>4 DEF PusherType, Pairs
        <5>3. sent[x] \in Nat /\ sent'[x] \in Nat /\ sent[x] <= sent'[x]
          BY <1>0, <5>2 DEF CountsTyped, ReachStep
        <5> QED  BY <5>1, <5>3
      <4> QED  BY <4>1, <4>4 DEF Reached
    <3> QED  BY <3>2, <3>3
  <2> QED  BY <2>1, <2>2, <2>3, <2>4 DEF ReachInv
<1> QED  BY <1>2, <1>3, <1>4, <1>5 DEF DeliveryInv

\* What a step that leaves the schedule alone keeps of it.
LEMMA ScheduleSame ==
  ASSUME PushInv, UNCHANGED <<now, when, inbox, editor, enabled, version, tx>>,
         subs' \subseteq subs, subs' \cap gone' = {}, gone' \subseteq subs \cup gone,
         \A p \in Pushing!Pushes : push'[p].status = "PENDING" =>
           /\ push[p].status = "PENDING" /\ push'[p].entity = push[p].entity
           /\ push'[p].at = push[p].at /\ push'[p].stale = push[p].stale
  PROVE  ScheduleTyped' /\ SubsInv' /\ ScheduleInv'
<1>1. ScheduleTyped /\ version <= version' /\ version' \in Nat
  BY DEF PushInv, ScheduleTyped
<1>2. ScheduleTyped'
  BY <1>1 DEF ScheduleTyped
<1>3. SubsInv'
  BY <1>1, SubsRest
<1>4. ScheduleInv'
  BY <1>1, ScheduleRests
<1> QED  BY <1>2, <1>3, <1>4

\* The row a worker is at, and the device it is at.
LEMMA WorkersAre ==
  ASSUME PushInv, NEW w \in Workers
  PROVE  /\ pusher[w] \in PusherType /\ push \in [Pushing!Pushes -> PushType]
         /\ pusher[w].pc # "idle" =>
              /\ pusher[w].row \in Pushing!Pushes /\ push[pusher[w].row] \in PushType
              /\ push[pusher[w].row].status # None
         /\ pusher[w].pc \in {"send", "receipt"} <=> pusher[w].device # None
         /\ pusher[w].pc \in {"send", "receipt"} =>
              /\ pusher[w].device \in Devices
              /\ <<pusher[w].row, pusher[w].device>> \in Pairs
         /\ sent \in [Pairs -> Nat] /\ excused \in [Pairs -> Nat]
<1>1. /\ PushersTyped /\ PushRowsTyped /\ RowsInv /\ CountsTyped
  BY DEF PushInv, DeliveryInv
<1>2. pusher[w] \in PusherType
  BY <1>1 DEF PushersTyped
<1>3. pusher[w].pc # "idle" =>
         /\ pusher[w].row \in Pushing!Pushes /\ push[pusher[w].row] \in PushType
         /\ push[pusher[w].row].status # None
  BY <1>1 DEF PushersTyped, PushRowsTyped, RowsInv
<1>4. pusher[w].pc \in {"send", "receipt"} <=> pusher[w].device # None
  BY <1>1 DEF PushersTyped
<1>5. pusher[w].pc \in {"send", "receipt"} =>
         /\ pusher[w].device \in Devices /\ <<pusher[w].row, pusher[w].device>> \in Pairs
  BY <1>2, <1>3, <1>4 DEF PusherType, Pairs
<1> QED  BY <1>1, <1>2, <1>3, <1>4, <1>5 DEF PushRowsTyped, CountsTyped

\* What w finds no reason to change: its row, and what the pairs it is not at have.
LEMMA RowsStay ==
  ASSUME PushInv, NEW w \in Workers, NEW u, Turns(w, u), UNCHANGED <<push, sent>>,
         u.pc # "idle" => pusher[w].pc # "idle" /\ u.row = pusher[w].row,
         \A p \in Pushing!Pushes :
           Goes(u, p) => Goes(pusher[w], p) \/ push[p].status # "CANCELLED"
  PROVE  PushRowsTyped' /\ RowsInv' /\ LateStep(w, u)
<1>1. /\ PushersTyped /\ PushRowsTyped /\ RowsInv /\ LateInv
  BY DEF PushInv, DeliveryInv
<1>2. pusher'[w] = u /\ \A v \in Workers : v # w => pusher'[v] = pusher[v]
  BY <1>1 DEF Turns, PushersTyped
<1>3. PushRowsTyped'
  BY <1>1 DEF PushRowsTyped
<1>4. RowsInv'
  <2>1. SUFFICES ASSUME NEW p \in Pushing!Pushes
        PROVE  /\ push[p].claim # None => push[p].status = "PENDING"
               /\ push[p].over => push[p].claim # None
               /\ push[p].status = None =>
                    /\ \A v \in Workers : pusher'[v].pc # "idle" => pusher'[v].row # p
                    /\ \A d \in Devices : sent[<<p, d>>] = 0
    BY DEF RowsInv
  <2> QED  BY <1>1, <1>2, <2>1 DEF RowsInv
<1>5. LateStep(w, u)
  <2>1. SUFFICES ASSUME NEW p \in Pushing!Pushes
        PROVE  IF push[p].status = "CANCELLED"
               THEN /\ push[p].status = "CANCELLED"
                    /\ push[p].late + Bit(Goes(u, p)) <= push[p].late + Bit(Goes(pusher[w], p))
               ELSE push[p].late = 0
    BY DEF LateStep
  <2>2. push[p].late \in Nat
    BY <1>1 DEF PushRowsTyped, PushType
  <2> QED  BY <1>1, <2>1, <2>2 DEF LateInv, Bit
<1> QED  BY <1>3, <1>4, <1>5

LEMMA SentFrom ==
  ASSUME PushInv, NEW w \in Workers, NEW u, Turns(w, u), CountsTyped',
         \A p \in Pushing!Pushes : push'[p].status = "PENDING" =>
           /\ push[p].status = "PENDING"
           /\ \/ push'[p].claim = push[p].claim
              \/ push[p].claim = w /\ pusher[w].pc \notin {"send", "receipt"},
         \A x \in receipts : x[2] \in gone' \/ x \in receipts',
         \A p \in Pushing!Pushes, d \in Devices : d \notin gone' =>
           \/ /\ NearTo(pusher[w], p, d) => NearTo(u, p, d) \/ <<p, d>> \in receipts'
              /\ sent'[<<p, d>>] + Bit(GoesTo(u, p, d)) + excused[<<p, d>>]
                   <= excused'[<<p, d>>] + sent[<<p, d>>] + Bit(GoesTo(pusher[w], p, d))
           \/ sent'[<<p, d>>] + Bit(GoesTo(u, p, d)) + excused[<<p, d>>] + 1
                <= excused'[<<p, d>>] + sent[<<p, d>>] + Bit(GoesTo(pusher[w], p, d))
  PROVE  SentStep(w, u)
<1>1. SUFFICES ASSUME NEW p \in Pushing!Pushes, NEW d \in Devices, d \notin gone'
      PROVE  sent'[<<p, d>>] + Bit(GoesTo(u, p, d)) + excused[<<p, d>>] + Slack(p, d)
               <= excused'[<<p, d>>] + Slack(p, d)' + sent[<<p, d>>]
                    + Bit(GoesTo(pusher[w], p, d))
  BY DEF SentStep
<1>2. /\ sent[<<p, d>>] \in Nat /\ excused[<<p, d>>] \in Nat
      /\ sent'[<<p, d>>] \in Nat /\ excused'[<<p, d>>] \in Nat
  BY DEF PushInv, DeliveryInv, CountsTyped, Pairs
<1>3. /\ Bit(GoesTo(pusher[w], p, d)) \in {0, 1} /\ Bit(GoesTo(u, p, d)) \in {0, 1}
      /\ Slack(p, d) \in {0, 1} /\ Slack(p, d)' \in {0, 1}
  BY Slacks DEF Bit
<1>4. CASE <<p, d>> \in receipts'
  <2>1. Slack(p, d)' = 1
    BY <1>4 DEF Slack
  <2> QED  BY <1>1, <1>2, <1>3, <2>1
<1>5. CASE <<p, d>> \notin receipts' /\ (NearTo(pusher[w], p, d) => NearTo(u, p, d))
  <2>1. <<p, d>> \notin receipts
    BY <1>1, <1>5
  <2>2. push'[p].status = "PENDING" =>
           /\ push[p].status = "PENDING"
           /\ \/ push'[p].claim = push[p].claim
              \/ push[p].claim = w /\ ~NearTo(pusher[w], p, d)
    BY DEF NearTo
  <2>3. Slack(p, d) <= Slack(p, d)'
    BY <1>5, <2>1, <2>2, SlackStep
  <2> QED  BY <1>1, <1>2, <1>3, <2>3
<1>6. CASE <<p, d>> \notin receipts' /\ ~(NearTo(pusher[w], p, d) => NearTo(u, p, d))
  BY <1>1, <1>2, <1>3, <1>6
<1> QED  BY <1>4, <1>5, <1>6

LEMMA ReadDevicesKept ==
  ASSUME PushInv, NEW w \in Workers, Pushing!ReadDevices(w) PROVE PushInv'
<1> DEFINE S == IF enabled THEN subs ELSE {}
           u == [pusher[w] EXCEPT !.pc = "loop", !.todo = S, !.found = S]
<1>1. /\ pusher[w].pc = "devices" /\ pusher' = [pusher EXCEPT ![w] = u]
      /\ UNCHANGED <<now, when, inbox, editor, enabled, version, tx>>
      /\ UNCHANGED <<push, subs, gone, receipts, sent, excused>>
  BY DEF Pushing!ReadDevices, Pushing!device
<1>2. /\ DevicesTyped /\ SubsInv /\ S \subseteq subs /\ subs \subseteq Devices /\ ReachInv
  BY DEF PushInv, DevicesTyped, DeliveryInv
<1>3. /\ pusher[w] \in PusherType /\ pusher[w].row \in Pushing!Pushes
      /\ pusher[w].device = None
      /\ sent \in [Pairs -> Nat] /\ excused \in [Pairs -> Nat]
  BY <1>1, WorkersAre
<1>4. /\ u \in PusherType /\ u.pc = "loop" /\ u.row = pusher[w].row /\ u.device = None
      /\ u.todo = S /\ u.found = S
  <2> HIDE DEF S
  <2> QED  BY <1>2, <1>3 DEF PusherType
<1> HIDE DEF u, S
<1>5. Turns(w, u)
  BY <1>1, <1>3, <1>4 DEF Turns
<1>6. PushRowsTyped' /\ RowsInv' /\ LateStep(w, u)
  <2>1. \A p : ~Goes(u, p)
    BY <1>4 DEF Goes
  <2> QED  BY <1>1, <1>4, <1>5, <2>1, RowsStay
<1>7. CountsTyped'
  BY <1>1, <1>3 DEF CountsTyped
<1>8. SentStep(w, u)
  <2>1. \A p \in Pushing!Pushes, d \in Devices :
          /\ ~NearTo(pusher[w], p, d)
          /\ sent'[<<p, d>>] + Bit(GoesTo(u, p, d)) + excused[<<p, d>>]
               <= excused'[<<p, d>>] + sent[<<p, d>>] + Bit(GoesTo(pusher[w], p, d))
    <3>1. TAKE p \in Pushing!Pushes, d \in Devices
    <3>2. <<p, d>> \in Pairs
      BY DEF Pairs
    <3>3. sent[<<p, d>>] \in Nat /\ excused[<<p, d>>] \in Nat
      BY <1>3, <3>2
    <3>4. ~NearTo(pusher[w], p, d) /\ ~GoesTo(u, p, d) /\ ~GoesTo(pusher[w], p, d)
      BY <1>1, <1>4 DEF NearTo, GoesTo
    <3> QED  BY <1>1, <3>3, <3>4 DEF Bit
  <2> QED  BY <1>1, <1>5, <1>7, <2>1, SentFrom
<1>9. ReachStep(w, u)
  <2>1. \A x \in Pairs : sent[x] <= sent'[x]
    BY <1>1, <1>3
  <2> QED  BY <1>1, <1>2, <1>4, <2>1 DEF ReachStep, ReachInv
<1>10. DeliveryInv'
  BY <1>1, <1>5, <1>6, <1>7, <1>8, <1>9, WorkerStep
<1>11. ScheduleTyped' /\ SubsInv' /\ ScheduleInv' /\ DevicesTyped'
  <2>1. subs' \subseteq subs /\ subs' \cap gone' = {} /\ gone' \subseteq subs \cup gone
    BY <1>1, <1>2 DEF SubsInv
  <2>2. DevicesTyped'
    BY <1>1, <1>2 DEF DevicesTyped
  <2> QED  BY <1>1, <2>1, <2>2, ScheduleSame
<1> QED  BY <1>10, <1>11 DEF PushInv

LEMMA Elsewhere ==
  ASSUME PushInv, UNCHANGED <<now, when, inbox, editor, enabled, version, tx>>,
         UNCHANGED <<subs, gone>>, receipts' \subseteq Pushing!Pushes \X subs,
         \A p \in Pushing!Pushes : push'[p].status = "PENDING" =>
           /\ push[p].status = "PENDING" /\ push'[p].entity = push[p].entity
           /\ push'[p].at = push[p].at /\ push'[p].stale = push[p].stale
  PROVE  ScheduleTyped' /\ SubsInv' /\ ScheduleInv' /\ DevicesTyped'
<1>1. subs' \subseteq subs /\ subs' \cap gone' = {} /\ gone' \subseteq subs \cup gone
  BY DEF PushInv, SubsInv
<1>2. DevicesTyped'
  BY DEF PushInv, DevicesTyped
<1> QED  BY <1>1, <1>2, ScheduleSame

LEMMA DeviceKept ==
  ASSUME PushInv, NEW w \in Workers, NEW d \in Devices, Pushing!Device(w, d) PROVE PushInv'
<1> DEFINE row == pusher[w].row
           seen == [pusher[w] EXCEPT !.todo = @ \ {d}]
           lost == [pusher[w] EXCEPT !.todo = {}, !.failed = FALSE]
           goes == [pusher[w] EXCEPT !.todo = @ \ {d}, !.pc = "send", !.device = d]
           noted == Pushing!Noted(row, d)
           held == Pushing!Mine(w, row)
<1>1. PICK u :
        /\ pusher[w].pc = "loop" /\ d \in pusher[w].todo /\ pusher' = [pusher EXCEPT ![w] = u]
        /\ UNCHANGED <<now, when, inbox, editor, enabled, version, tx>>
        /\ UNCHANGED <<push, subs, gone, receipts, sent, excused>>
        /\ noted => u = seen
        /\ ~noted /\ ~held => u = lost
        /\ ~noted /\ held => u = goes
  <2>1. pusher' = [pusher EXCEPT ![w] = pusher'[w]]
    BY DEF Pushing!Device
  <2>2. /\ pusher[w].pc = "loop" /\ d \in pusher[w].todo
        /\ UNCHANGED <<now, when, inbox, editor, enabled, version, tx>>
        /\ UNCHANGED <<push, subs, gone, receipts, sent, excused>>
    BY DEF Pushing!Device, Pushing!device
  <2>3. pusher \in [Workers -> PusherType]
    BY DEF PushInv, DeliveryInv, PushersTyped
  <2>5. ASSUME noted PROVE pusher'[w] = seen
    BY <2>3, <2>5 DEF Pushing!Device
  <2>6. ASSUME ~noted, ~held PROVE pusher'[w] = lost
    BY <2>3, <2>6 DEF Pushing!Device
  <2>7. ASSUME ~noted, held PROVE pusher'[w] = goes
    BY <2>3, <2>7 DEF Pushing!Device
  <2> HIDE DEF noted, held, seen, lost, goes
  <2> QED  BY <2>1, <2>2, <2>5, <2>6, <2>7
<1>0. held <=> push[row].status = "PENDING" /\ push[row].claim = w
  BY DEF Pushing!Mine, Pushing!Held
<1>2. /\ DevicesTyped /\ SubsInv /\ ReachInv /\ subs \subseteq Devices
      /\ receipts \subseteq Pushing!Pushes \X subs
  BY DEF PushInv, DevicesTyped, DeliveryInv
<1>3. /\ pusher[w] \in PusherType /\ row \in Pushing!Pushes
      /\ pusher[w].device = None
      /\ sent \in [Pairs -> Nat] /\ excused \in [Pairs -> Nat]
  BY <1>1, WorkersAre
<1>4. /\ u \in PusherType /\ u.row = row /\ u.found = pusher[w].found
      /\ u.pc = "loop" => u.device = None
      /\ \/ /\ <<row, d>> \in receipts /\ u.pc = "loop"
            /\ u.todo = pusher[w].todo \ {d} /\ u.failed = pusher[w].failed
         \/ /\ ~held /\ u.pc = "loop"
         \/ /\ <<row, d>> \notin receipts /\ held /\ u.pc = "send" /\ u.device = d
            /\ u.todo = pusher[w].todo \ {d} /\ u.failed = pusher[w].failed
  <2>1. /\ seen \in PusherType /\ seen.row = row /\ seen.found = pusher[w].found
        /\ seen.pc = "loop" /\ seen.device = None /\ seen.todo = pusher[w].todo \ {d}
        /\ seen.failed = pusher[w].failed
    BY <1>1, <1>3 DEF PusherType
  <2>2. /\ lost \in PusherType /\ lost.row = row /\ lost.found = pusher[w].found
        /\ lost.pc = "loop" /\ lost.device = None
    BY <1>1, <1>3 DEF PusherType
  <2>3. /\ goes \in PusherType /\ goes.row = row /\ goes.found = pusher[w].found
        /\ goes.pc = "send" /\ goes.device = d /\ goes.todo = pusher[w].todo \ {d}
        /\ goes.failed = pusher[w].failed
    BY <1>1, <1>3 DEF PusherType
  <2>4. noted <=> <<row, d>> \in receipts
    BY DEF Pushing!Noted
  <2> HIDE DEF seen, lost, goes, noted, held, row
  <2>5. CASE noted
    <3>1. u = seen
      BY <1>1, <2>5
    <3> QED  BY <2>1, <2>4, <2>5, <3>1
  <2>6. CASE ~noted /\ ~held
    <3>1. u = lost
      BY <1>1, <2>6
    <3> QED  BY <2>2, <2>4, <2>6, <3>1
  <2>7. CASE ~noted /\ held
    <3>1. u = goes
      BY <1>1, <2>7
    <3> QED  BY <2>3, <2>4, <2>7, <3>1
  <2> QED  BY <2>5, <2>6, <2>7
<1>5. Turns(w, u)
  BY <1>1, <1>3, <1>4, Ids DEF Turns
<1>6. PushRowsTyped' /\ RowsInv' /\ LateStep(w, u)
  <2>1. \A p \in Pushing!Pushes :
          Goes(u, p) => Goes(pusher[w], p) \/ push[p].status # "CANCELLED"
    BY <1>0, <1>4 DEF Goes
  <2> QED  BY <1>1, <1>4, <1>5, <2>1, RowsStay
<1>7. CountsTyped'
  BY <1>1, <1>3 DEF CountsTyped
<1>8. SentStep(w, u)
  <2>1. SUFFICES ASSUME NEW p \in Pushing!Pushes, NEW c \in Devices, c \notin gone'
        PROVE  sent'[<<p, c>>] + Bit(GoesTo(u, p, c)) + excused[<<p, c>>] + Slack(p, c)
                 <= excused'[<<p, c>>] + Slack(p, c)' + sent[<<p, c>>]
                      + Bit(GoesTo(pusher[w], p, c))
    BY DEF SentStep
  <2>2. sent[<<p, c>>] \in Nat /\ excused[<<p, c>>] \in Nat
    BY <1>3 DEF Pairs
  <2>3. ~NearTo(pusher[w], p, c) /\ ~GoesTo(pusher[w], p, c)
    BY <1>1 DEF NearTo, GoesTo
  <2>4. Slack(p, c) <= Slack(p, c)' /\ Slack(p, c) \in {0, 1} /\ Slack(p, c)' \in {0, 1}
    BY <1>1, <1>5, <2>3, SlackStep, Slacks
  <2>5. CASE ~GoesTo(u, p, c)
    BY <1>1, <2>2, <2>3, <2>4, <2>5 DEF Bit
  <2>6. CASE GoesTo(u, p, c)
    <3>1. <<p, c>> \notin receipts /\ held /\ p = row /\ u.pc = "send" /\ u.device = c
      BY <1>4, <2>6 DEF GoesTo
    <3>2. pusher'[w] = u
      BY <1>5 DEF Turns, PushInv, DeliveryInv, PushersTyped
    <3>3. ~HolderNear(p, c)
      BY <1>0, <1>1, <3>1 DEF HolderNear, Nearby
    <3>4. HolderNear(p, c)'
      <4>1. push'[p].status = "PENDING" /\ push'[p].claim = w
        BY <1>0, <1>1, <3>1
      <4>2. /\ pusher'[push'[p].claim].pc = "send" /\ pusher'[push'[p].claim].row = p
            /\ pusher'[push'[p].claim].device = c
        BY <1>4, <3>1, <3>2, <4>1
      <4> QED  BY <4>1, <4>2 DEF HolderNear, Nearby
    <3>5. Slack(p, c) = 0 /\ Slack(p, c)' = 1
      BY <1>0, <3>1, <3>3, <3>4 DEF Slack
    <3> QED  BY <1>1, <2>2, <2>3, <2>6, <3>5 DEF Bit
  <2> QED  BY <2>5, <2>6
<1>9. ReachStep(w, u)
  <2>1. \A x \in Pairs : sent[x] <= sent'[x]
    BY <1>1, <1>3
  <2>2. ASSUME ~u.failed, held, NEW c \in u.found \cap subs, c \notin u.todo, c # u.device
        PROVE  sent[<<row, c>>] > 0
    <3>1. ~pusher[w].failed /\ u.todo = pusher[w].todo \ {d} /\ c \in pusher[w].found
      BY <1>4, <2>2
    <3>2. CASE c = d
      <4>1. <<row, d>> \in receipts
        BY <1>4, <2>2, <3>2
      <4> QED  BY <1>2, <3>2, <4>1 DEF ReachInv
    <3>3. CASE c # d
      <4>1. c \notin pusher[w].todo /\ c # pusher[w].device
        BY <1>2, <1>3, <2>2, <3>1, <3>3, Ids
      <4>2. Reached(w)
        BY <1>0, <1>1, <1>2, <2>2, <3>1 DEF ReachInv, Pushing!Held
      <4> QED  BY <2>2, <3>1, <4>1, <4>2 DEF Reached
    <3> QED  BY <3>2, <3>3
  <2>3. u.found \subseteq subs \cup gone /\ u.pc # "receipt"
    BY <1>2, <1>4 DEF ReachInv
  <2>4. u.row = row
    BY <1>4
  <2> HIDE DEF row
  <2> QED  BY <1>0, <1>1, <1>2, <2>1, <2>2, <2>3, <2>4 DEF ReachStep, ReachInv
<1>10. DeliveryInv'
  BY <1>1, <1>5, <1>6, <1>7, <1>8, <1>9, WorkerStep
<1>11. ScheduleTyped' /\ SubsInv' /\ ScheduleInv' /\ DevicesTyped'
  BY <1>1, <1>2, Elsewhere
<1> QED  BY <1>10, <1>11 DEF PushInv

LEMMA ReceiptKept ==
  ASSUME PushInv, NEW w \in Workers, Pushing!Receipt(w) PROVE PushInv'
<1> DEFINE row == pusher[w].row
           d == pusher[w].device
           u == [pusher[w] EXCEPT !.pc = "loop", !.device = None]
<1>1. /\ pusher[w].pc = "receipt" /\ d \in subs /\ pusher' = [pusher EXCEPT ![w] = u]
      /\ receipts' = receipts \cup {<<row, d>>}
      /\ UNCHANGED <<now, when, inbox, editor, enabled, version, tx>>
      /\ UNCHANGED <<push, subs, gone, sent, excused>>
  BY Ids DEF Pushing!Receipt, Pushing!device
<1>2. /\ DevicesTyped /\ SubsInv /\ ReachInv /\ subs \subseteq Devices
      /\ receipts \subseteq Pushing!Pushes \X subs
  BY DEF PushInv, DevicesTyped, DeliveryInv
<1>3. /\ pusher[w] \in PusherType /\ row \in Pushing!Pushes /\ <<row, d>> \in Pairs
      /\ sent \in [Pairs -> Nat] /\ excused \in [Pairs -> Nat]
  BY <1>1, WorkersAre
<1>4. /\ u \in PusherType /\ u.pc = "loop" /\ u.row = row /\ u.device = None
      /\ u.todo = pusher[w].todo /\ u.found = pusher[w].found /\ u.failed = pusher[w].failed
  BY <1>3 DEF PusherType
<1> HIDE DEF u
<1>5. Turns(w, u)
  BY <1>1, <1>3, <1>4 DEF Turns
<1>6. PushRowsTyped' /\ RowsInv' /\ LateStep(w, u)
  <2>1. \A p : ~Goes(u, p)
    BY <1>4 DEF Goes
  <2> QED  BY <1>1, <1>4, <1>5, <2>1, RowsStay
<1>7. CountsTyped'
  BY <1>1, <1>3 DEF CountsTyped
<1>8. SentStep(w, u)
  <2>1. \A p \in Pushing!Pushes, c \in Devices :
          /\ NearTo(pusher[w], p, c) => NearTo(u, p, c) \/ <<p, c>> \in receipts'
          /\ sent'[<<p, c>>] + Bit(GoesTo(u, p, c)) + excused[<<p, c>>]
               <= excused'[<<p, c>>] + sent[<<p, c>>] + Bit(GoesTo(pusher[w], p, c))
    <3>1. TAKE p \in Pushing!Pushes, c \in Devices
    <3>2. sent[<<p, c>>] \in Nat /\ excused[<<p, c>>] \in Nat
      BY <1>3 DEF Pairs
    <3>3. /\ NearTo(pusher[w], p, c) => <<p, c>> \in receipts'
          /\ ~GoesTo(u, p, c) /\ ~GoesTo(pusher[w], p, c)
      BY <1>1, <1>4 DEF NearTo, GoesTo
    <3> QED  BY <1>1, <3>2, <3>3 DEF Bit
  <2>2. \A x \in receipts : x[2] \in gone' \/ x \in receipts'
    BY <1>1
  <2> HIDE DEF row, d
  <2> QED  BY <1>1, <1>5, <1>7, <2>1, <2>2, SentFrom
<1>9. ReachStep(w, u)
  <2>1. \A x \in Pairs : sent[x] <= sent'[x]
    BY <1>1, <1>3
  <2>2. sent[<<row, d>>] > 0
    BY <1>1, <1>2 DEF ReachInv
  <2>3. ASSUME ~u.failed, push[row].status = "PENDING", push[row].claim = w,
               NEW c \in u.found \cap subs, c \notin u.todo
        PROVE  sent[<<row, c>>] > 0
    <3>1. Reached(w)
      BY <1>1, <1>2, <1>4, <2>3 DEF ReachInv, Pushing!Held
    <3> QED  BY <1>4, <2>2, <2>3, <3>1 DEF Reached
  <2>4. \A x \in receipts' : sent'[x] > 0
    BY <1>1, <1>2, <2>2 DEF ReachInv
  <2>5. u.found \subseteq subs' \cup gone'
    BY <1>1, <1>2, <1>4 DEF ReachInv
  <2> HIDE DEF row, d
  <2> QED  BY <1>1, <1>4, <2>1, <2>3, <2>4, <2>5 DEF ReachStep
<1>10. DeliveryInv'
  BY <1>1, <1>5, <1>6, <1>7, <1>8, <1>9, WorkerStep
<1>11. ScheduleTyped' /\ SubsInv' /\ ScheduleInv' /\ DevicesTyped'
  <2>1. receipts' \subseteq Pushing!Pushes \X subs
    BY <1>1, <1>2, <1>3
  <2> QED  BY <1>1, <2>1, Elsewhere
<1> QED  BY <1>10, <1>11 DEF PushInv

\* A worker leaves its device, or its row: what that takes from both sides.
LEMMA Leaves ==
  ASSUME PushInv, NEW w \in Workers, NEW u, Turns(w, u), UNCHANGED <<push, sent>>,
         CountsTyped', u.pc \in {"idle", "loop"},
         \A x \in receipts : x[2] \in gone' \/ x \in receipts',
         \A x \in Pairs : excused[x] <= excused'[x],
         pusher[w].pc = "receipt" =>
           LET x == <<pusher[w].row, pusher[w].device>> IN
           x[2] \in gone' \/ x \in receipts' \/ excused[x] + 1 <= excused'[x]
  PROVE  SentStep(w, u)
<1>1. \A p \in Pushing!Pushes, d \in Devices : d \notin gone' =>
        \/ /\ NearTo(pusher[w], p, d) => NearTo(u, p, d) \/ <<p, d>> \in receipts'
           /\ sent'[<<p, d>>] + Bit(GoesTo(u, p, d)) + excused[<<p, d>>]
                <= excused'[<<p, d>>] + sent[<<p, d>>] + Bit(GoesTo(pusher[w], p, d))
        \/ sent'[<<p, d>>] + Bit(GoesTo(u, p, d)) + excused[<<p, d>>] + 1
             <= excused'[<<p, d>>] + sent[<<p, d>>] + Bit(GoesTo(pusher[w], p, d))
  <2>1. SUFFICES ASSUME NEW p \in Pushing!Pushes, NEW d \in Devices, d \notin gone'
        PROVE
        \/ /\ NearTo(pusher[w], p, d) => NearTo(u, p, d) \/ <<p, d>> \in receipts'
           /\ sent[<<p, d>>] + Bit(GoesTo(u, p, d)) + excused[<<p, d>>]
                <= excused'[<<p, d>>] + sent[<<p, d>>] + Bit(GoesTo(pusher[w], p, d))
        \/ sent[<<p, d>>] + Bit(GoesTo(u, p, d)) + excused[<<p, d>>] + 1
             <= excused'[<<p, d>>] + sent[<<p, d>>] + Bit(GoesTo(pusher[w], p, d))
    OBVIOUS
  <2> DEFINE s == sent[<<p, d>>]
             e == excused[<<p, d>>]
             f == excused'[<<p, d>>]
  <2>2. s \in Nat /\ e \in Nat /\ f \in Nat /\ e <= f
    BY DEF PushInv, DeliveryInv, CountsTyped, Pairs
  <2>3. ~GoesTo(u, p, d)
    BY DEF GoesTo
  <2>4. CASE GoesTo(pusher[w], p, d)
    <3>1. Bit(GoesTo(u, p, d)) = 0 /\ Bit(GoesTo(pusher[w], p, d)) = 1
      BY <2>3, <2>4 DEF Bit
    <3> HIDE DEF s, e, f
    <3>2. s + 0 + e + 1 <= f + s + 1
      BY <2>2
    <3> QED  BY <3>1, <3>2 DEF s, e, f
  <2>5. CASE ~GoesTo(pusher[w], p, d)
    <3>1. Bit(GoesTo(u, p, d)) = 0 /\ Bit(GoesTo(pusher[w], p, d)) = 0
      BY <2>3, <2>5 DEF Bit
    <3>2. CASE ~NearTo(pusher[w], p, d) \/ <<p, d>> \in receipts'
      <4> HIDE DEF s, e, f
      <4>1. s + 0 + e <= f + s + 0
        BY <2>2
      <4> QED  BY <3>1, <3>2, <4>1 DEF s, e, f
    <3>3. CASE NearTo(pusher[w], p, d) /\ <<p, d>> \notin receipts'
      <4>1. pusher[w].pc = "receipt" /\ pusher[w].row = p /\ pusher[w].device = d
        BY <2>5, <3>3 DEF NearTo, GoesTo
      <4>2. e + 1 <= f
        BY <2>1, <3>3, <4>1
      <4> HIDE DEF s, e, f
      <4>3. s + 0 + e + 1 <= f + s + 0
        BY <2>2, <4>2
      <4> QED  BY <3>1, <4>3 DEF s, e, f
    <3> QED  BY <3>2, <3>3
  <2> QED  BY <2>4, <2>5
<1>2. \A p \in Pushing!Pushes : push'[p].status = "PENDING" =>
           /\ push[p].status = "PENDING"
           /\ \/ push'[p].claim = push[p].claim
              \/ push[p].claim = w /\ pusher[w].pc \notin {"send", "receipt"}
  OBVIOUS
<1> QED  BY <1>1, <1>2, SentFrom

LEMMA ReceiptFailsKept ==
  ASSUME PushInv, NEW w \in Workers, Pushing!ReceiptFails(w) PROVE PushInv'
<1> DEFINE row == pusher[w].row
           d == pusher[w].device
           u == Pushing!Broken(pusher[w])
<1>1. /\ pusher[w].pc = "receipt" /\ pusher' = [pusher EXCEPT ![w] = u]
      /\ excused' = [excused EXCEPT ![<<row, d>>] = @ + 1]
      /\ UNCHANGED <<now, when, inbox, editor, enabled, version, tx>>
      /\ UNCHANGED <<push, subs, gone, receipts, sent>>
  BY DEF Pushing!ReceiptFails, Pushing!device
<1>2. /\ DevicesTyped /\ SubsInv /\ ReachInv /\ subs \subseteq Devices
      /\ receipts \subseteq Pushing!Pushes \X subs
  BY DEF PushInv, DevicesTyped, DeliveryInv
<1>3. /\ pusher[w] \in PusherType /\ row \in Pushing!Pushes /\ <<row, d>> \in Pairs
      /\ sent \in [Pairs -> Nat] /\ excused \in [Pairs -> Nat]
  BY <1>1, WorkersAre
<1>4. /\ u \in PusherType /\ u.pc = "loop" /\ u.row = row /\ u.device = None
      /\ u.found = pusher[w].found /\ u.failed
  BY <1>3, Ids DEF PusherType, Pushing!Broken
<1> HIDE DEF u
<1>5. Turns(w, u)
  BY <1>1, <1>3, <1>4 DEF Turns
<1>6. PushRowsTyped' /\ RowsInv' /\ LateStep(w, u)
  <2>1. \A p : ~Goes(u, p)
    BY <1>4 DEF Goes
  <2> QED  BY <1>1, <1>4, <1>5, <2>1, RowsStay
<1>7. /\ CountsTyped' /\ \A x \in Pairs : excused[x] <= excused'[x]
      /\ excused[<<row, d>>] + 1 <= excused'[<<row, d>>]
  <2> DEFINE x == <<row, d>>
  <2>1. excused' = [excused EXCEPT ![x] = excused[x] + 1] /\ x \in Pairs
    BY <1>1, <1>3
  <2> HIDE DEF x
  <2>2. excused[x] \in Nat
    BY <1>3, <2>1
  <2>3. excused' \in [Pairs -> Nat] /\ excused[x] + 1 <= excused'[x]
    BY <1>3, <2>1, <2>2
  <2>4. \A y \in Pairs : excused[y] <= excused'[y]
    BY <1>3, <2>1
  <2> QED  BY <1>1, <1>3, <2>3, <2>4 DEF CountsTyped, x
<1>8. SentStep(w, u)
  BY <1>1, <1>4, <1>5, <1>7, Leaves
<1>9. ReachStep(w, u)
  <2>1. \A x \in Pairs : sent[x] <= sent'[x]
    BY <1>1, <1>3
  <2> QED  BY <1>1, <1>2, <1>4, <2>1 DEF ReachStep, ReachInv
<1>10. DeliveryInv'
  BY <1>1, <1>5, <1>6, <1>7, <1>8, <1>9, WorkerStep
<1>11. ScheduleTyped' /\ SubsInv' /\ ScheduleInv' /\ DevicesTyped'
  BY <1>1, <1>2, Elsewhere
<1> QED  BY <1>10, <1>11 DEF PushInv

LEMMA Resting ==
  /\ Pushing!Idle \in PusherType /\ Pushing!Idle.pc = "idle"
  /\ Pushing!Idle.device = None /\ Pushing!Idle.found = {}
BY Ids DEF Pushing!Idle, PusherType

LEMMA RestartKept ==
  ASSUME PushInv, NEW w \in Workers, Pushing!Restart(w) PROVE PushInv'
<1> DEFINE own == <<pusher[w].row, pusher[w].device>>
           more(x) == IF pusher[w].pc = "receipt" /\ x = own THEN 1 ELSE 0
           u == Pushing!Idle
<1>1. /\ pusher' = [pusher EXCEPT ![w] = u]
      /\ excused' = [x \in Pairs |-> excused[x] + more(x)]
      /\ UNCHANGED <<now, when, inbox, editor, enabled, version, tx>>
      /\ UNCHANGED <<push, subs, gone, receipts, sent>>
  BY DEF Pushing!Restart, Pushing!device, Pairs
<1>2. /\ DevicesTyped /\ SubsInv /\ ReachInv /\ subs \subseteq Devices
      /\ receipts \subseteq Pushing!Pushes \X subs
  BY DEF PushInv, DevicesTyped, DeliveryInv
<1>3. /\ pusher[w].pc = "receipt" => own \in Pairs
      /\ sent \in [Pairs -> Nat] /\ excused \in [Pairs -> Nat]
  BY <1>1, WorkersAre
<1>4. /\ u \in PusherType /\ u.pc = "idle" /\ u.device = None /\ u.found = {}
  BY Resting
<1> HIDE DEF u
<1>5. Turns(w, u)
  BY <1>1, <1>3, <1>4 DEF Turns
<1>6. PushRowsTyped' /\ RowsInv' /\ LateStep(w, u)
  <2>1. \A p : ~Goes(u, p)
    BY <1>4 DEF Goes
  <2> QED  BY <1>1, <1>4, <1>5, <2>1, RowsStay
<1>7. /\ CountsTyped' /\ \A x \in Pairs : excused[x] <= excused'[x]
      /\ pusher[w].pc = "receipt" => excused[own] + 1 <= excused'[own]
  <2>1. \A x : more(x) \in {0, 1} /\ (pusher[w].pc = "receipt" => more(own) = 1)
    OBVIOUS
  <2> HIDE DEF more, own
  <2>2. \A x \in Pairs : excused'[x] = excused[x] + more(x) /\ excused[x] \in Nat
    BY <1>1, <1>3
  <2>3. \A x \in Pairs : excused'[x] \in Nat /\ excused[x] <= excused'[x]
    BY <2>1, <2>2
  <2>4. excused' \in [Pairs -> Nat]
    BY <1>1, <2>3
  <2>5. pusher[w].pc = "receipt" => excused[own] + 1 <= excused'[own]
    BY <1>3, <2>1, <2>2
  <2> QED  BY <1>1, <1>3, <2>3, <2>4, <2>5 DEF CountsTyped
<1>8. SentStep(w, u)
  BY <1>1, <1>4, <1>5, <1>7, Leaves
<1>9. ReachStep(w, u)
  <2>1. \A x \in Pairs : sent[x] <= sent'[x]
    BY <1>1, <1>3
  <2> QED  BY <1>1, <1>2, <1>4, <2>1 DEF ReachStep, ReachInv
<1>10. DeliveryInv'
  BY <1>1, <1>5, <1>6, <1>7, <1>8, <1>9, WorkerStep
<1>11. ScheduleTyped' /\ SubsInv' /\ ScheduleInv' /\ DevicesTyped'
  BY <1>1, <1>2, Elsewhere
<1> QED  BY <1>10, <1>11 DEF PushInv

LEMMA DeviceGoneKept ==
  ASSUME PushInv, NEW w \in Workers, Pushing!DeviceGone(w) PROVE PushInv'
<1> DEFINE row == pusher[w].row
           d == pusher[w].device
           u == [pusher[w] EXCEPT !.pc = "loop", !.device = None]
<1>1. /\ pusher[w].pc = "send" /\ pusher' = [pusher EXCEPT ![w] = u]
      /\ Pushing!Removed(d)
      /\ UNCHANGED <<now, when, inbox, editor, enabled, version, tx>>
      /\ UNCHANGED <<push, sent, excused>>
  BY Ids DEF Pushing!DeviceGone
<1>2. /\ DevicesTyped /\ SubsInv /\ ReachInv /\ subs \subseteq Devices
      /\ receipts \subseteq Pushing!Pushes \X subs
  BY DEF PushInv, DevicesTyped, DeliveryInv
<1>3. /\ pusher[w] \in PusherType /\ row \in Pushing!Pushes /\ d \in Devices
      /\ sent \in [Pairs -> Nat] /\ excused \in [Pairs -> Nat]
  BY <1>1, WorkersAre
<1>4. /\ u \in PusherType /\ u.pc = "loop" /\ u.row = row /\ u.device = None
      /\ u.todo = pusher[w].todo /\ u.found = pusher[w].found /\ u.failed = pusher[w].failed
  BY <1>3 DEF PusherType
<1> HIDE DEF u
<1>12. /\ DevicesTyped' /\ gone \subseteq gone' /\ subs \subseteq subs' \cup gone'
       /\ subs' \subseteq subs /\ subs' \cap gone' = {} /\ gone' \subseteq subs \cup gone
       /\ receipts' \subseteq receipts
       /\ \A x \in receipts \ receipts' : x[2] \in gone'
  <2> HIDE DEF d
  <2> QED  BY <1>1, <1>3, RemovedKept
<1>13. d \notin subs'
  BY <1>1 DEF Pushing!Removed
<1>5. Turns(w, u)
  BY <1>1, <1>3, <1>4 DEF Turns
<1>6. PushRowsTyped' /\ RowsInv' /\ LateStep(w, u)
  <2>1. \A p : ~Goes(u, p)
    BY <1>4 DEF Goes
  <2> QED  BY <1>1, <1>4, <1>5, <2>1, RowsStay
<1>7. CountsTyped' /\ \A x \in Pairs : excused[x] <= excused'[x]
  BY <1>1, <1>3 DEF CountsTyped
<1>8. SentStep(w, u)
  <2>1. \A x \in receipts : x[2] \in gone' \/ x \in receipts'
    BY <1>12
  <2> QED  BY <1>1, <1>4, <1>5, <1>7, <2>1, Leaves
<1>9. ReachStep(w, u)
  <2>1. \A x \in Pairs : sent[x] <= sent'[x]
    BY <1>1, <1>3
  <2>2. ASSUME ~u.failed, push[row].status = "PENDING", push[row].claim = w,
               NEW c \in u.found \cap subs', c \notin u.todo
        PROVE  sent[<<row, c>>] > 0
    <3>1. Reached(w)
      BY <1>1, <1>2, <1>4, <2>2 DEF ReachInv, Pushing!Held
    <3>2. c \in pusher[w].found \cap subs /\ c # d /\ c \notin pusher[w].todo
      BY <1>4, <1>12, <1>13, <2>2
    <3> QED  BY <3>1, <3>2 DEF Reached
  <2>3. u.found \subseteq subs' \cup gone'
    BY <1>2, <1>4, <1>12 DEF ReachInv
  <2>4. \A x \in receipts' : sent'[x] > 0
    BY <1>1, <1>2, <1>12 DEF ReachInv
  <2> HIDE DEF row
  <2> QED  BY <1>1, <1>4, <2>1, <2>2, <2>3, <2>4 DEF ReachStep
<1>10. DeliveryInv'
  BY <1>5, <1>6, <1>7, <1>8, <1>9, <1>12, WorkerStep
<1>11. ScheduleTyped' /\ SubsInv' /\ ScheduleInv'
  BY <1>1, <1>12, ScheduleSame
<1> QED  BY <1>10, <1>11, <1>12 DEF PushInv

\* A push goes out: to a cancelled row it is late, by one for the worker that sent it.
LEMMA GoesOut ==
  ASSUME PushInv, NEW w \in Workers, NEW u, Turns(w, u), pusher[w].pc = "send",
         u.pc \in {"loop", "receipt"}, u.row = pusher[w].row,
         Pushing!Pushed(w), push' = Pushing!Late(pusher[w].row)
  PROVE  /\ PushRowsTyped' /\ RowsInv' /\ LateStep(w, u)
         /\ sent' \in [Pairs -> Nat] /\ \A x \in Pairs : sent[x] <= sent'[x]
         /\ \A x \in Pairs : sent'[x] = IF x = <<pusher[w].row, pusher[w].device>>
                                        THEN sent[x] + 1 ELSE sent[x]
         /\ \A p \in Pushing!Pushes :
              /\ push'[p].status = push[p].status /\ push'[p].claim = push[p].claim
              /\ push'[p].entity = push[p].entity /\ push'[p].at = push[p].at
              /\ push'[p].stale = push[p].stale
<1> DEFINE row == pusher[w].row
           own == <<pusher[w].row, pusher[w].device>>
<1>0. /\ PushersTyped /\ RowsInv /\ LateInv /\ PushRowsTyped
  BY DEF PushInv, DeliveryInv
<1>1. /\ row \in Pushing!Pushes /\ push[row] \in PushType /\ push[row].status # None
      /\ own \in Pairs /\ sent \in [Pairs -> Nat]
      /\ push \in [Pushing!Pushes -> PushType]
  BY WorkersAre
<1>2. sent' = [sent EXCEPT ![own] = sent[own] + 1]
  BY DEF Pushing!Pushed
<1>3. /\ sent' \in [Pairs -> Nat] /\ \A x \in Pairs : sent[x] <= sent'[x]
      /\ \A x \in Pairs : sent'[x] = IF x = own THEN sent[x] + 1 ELSE sent[x]
  <2> HIDE DEF own
  <2>1. \A x \in Pairs : sent'[x] = IF x = own THEN sent[x] + 1 ELSE sent[x]
    BY <1>1, <1>2
  <2>2. \A x \in Pairs : sent[x] \in Nat /\ sent'[x] \in Nat /\ sent[x] <= sent'[x]
    BY <1>1, <2>1
  <2>3. sent' \in [Pairs -> Nat]
    BY <1>1, <1>2, <2>2
  <2> QED  BY <2>1, <2>2, <2>3
<1> DEFINE r == [push[row] EXCEPT !.late = @ + 1]
<1>4. /\ r \in PushType /\ r.status = push[row].status /\ r.claim = push[row].claim
      /\ r.entity = push[row].entity /\ r.at = push[row].at /\ r.stale = push[row].stale
      /\ r.over = push[row].over /\ r.late = push[row].late + 1 /\ push[row].late \in Nat
  <2>1. push[row].late \in Nat /\ push[row].late + 1 \in Nat
    BY <1>1 DEF PushType
  <2> QED  BY <1>1, <2>1 DEF PushType
<1>5. push' = IF push[row].status = "CANCELLED" THEN [push EXCEPT ![row] = r] ELSE push
  BY DEF Pushing!Late
<1> HIDE DEF r
<1>6. \A p \in Pushing!Pushes :
        /\ push'[p] \in PushType
        /\ push'[p].status = push[p].status /\ push'[p].claim = push[p].claim
        /\ push'[p].entity = push[p].entity /\ push'[p].at = push[p].at
        /\ push'[p].stale = push[p].stale /\ push'[p].over = push[p].over
        /\ push'[p].late = IF p = row /\ push[p].status = "CANCELLED"
                           THEN push[p].late + 1 ELSE push[p].late
  <2> HIDE DEF row
  <2> QED  BY <1>1, <1>4, <1>5
<1>7. PushRowsTyped'
  <2> HIDE DEF row
  <2>1. push' \in [Pushing!Pushes -> PushType]
    BY <1>1, <1>4, <1>5
  <2> QED  BY <2>1 DEF PushRowsTyped
<1>8. pusher'[w] = u /\ \A v \in Workers : v # w => pusher'[v] = pusher[v]
  BY <1>0 DEF Turns, PushersTyped
<1>9. RowsInv'
  <2>1. SUFFICES ASSUME NEW p \in Pushing!Pushes
        PROVE  /\ push'[p].claim # None => push'[p].status = "PENDING"
               /\ push'[p].over => push'[p].claim # None
               /\ push'[p].status = None =>
                    /\ \A v \in Workers : pusher'[v].pc # "idle" => pusher'[v].row # p
                    /\ \A d \in Devices : sent'[<<p, d>>] = 0
    BY DEF RowsInv
  <2>2. /\ push[p].claim # None => push[p].status = "PENDING"
        /\ push[p].over => push[p].claim # None
        /\ push[p].status = None =>
             /\ \A v \in Workers : pusher[v].pc # "idle" => pusher[v].row # p
             /\ \A d \in Devices : sent[<<p, d>>] = 0
    BY <1>0 DEF RowsInv
  <2>3. ASSUME push[p].status = None
        PROVE  /\ \A v \in Workers : pusher'[v].pc # "idle" => pusher'[v].row # p
               /\ \A d \in Devices : sent'[<<p, d>>] = 0
    <3>1. p # row
      BY <1>1, <2>3
    <3>2. \A d \in Devices : sent'[<<p, d>>] = sent[<<p, d>>]
      BY <1>3, <3>1 DEF Pairs
    <3>3. \A v \in Workers : pusher'[v].pc # "idle" => pusher'[v].row # p
      BY <1>8, <2>2, <2>3, <3>1
    <3> QED  BY <2>2, <2>3, <3>2, <3>3
  <2> QED  BY <1>6, <2>2, <2>3
<1>10. LateStep(w, u)
  <2>1. SUFFICES ASSUME NEW p \in Pushing!Pushes
        PROVE  IF push'[p].status = "CANCELLED"
               THEN /\ push[p].status = "CANCELLED"
                    /\ push'[p].late + Bit(Goes(u, p)) <= push[p].late + Bit(Goes(pusher[w], p))
               ELSE push'[p].late = 0
    BY DEF LateStep
  <2>2. push[p].late \in Nat /\ ~Goes(u, p) /\ (Goes(pusher[w], p) <=> p = row)
    BY <1>1 DEF PushType, Goes
  <2>3. push[p].status # "CANCELLED" => push[p].late = 0
    BY <1>0 DEF LateInv
  <2> QED  BY <1>6, <2>2, <2>3 DEF Bit
<1> QED  BY <1>3, <1>6, <1>7, <1>9, <1>10

LEMMA SendsKept ==
  ASSUME PushInv, NEW w \in Workers, Pushing!Sends(w) PROVE PushInv'
<1> DEFINE row == pusher[w].row
           d == pusher[w].device
           own == <<row, d>>
           u == [pusher[w] EXCEPT !.pc = "receipt"]
<1>1. /\ pusher[w].pc = "send" /\ pusher' = [pusher EXCEPT ![w] = u]
      /\ Pushing!Pushed(w) /\ push' = Pushing!Late(row)
      /\ UNCHANGED <<now, when, inbox, editor, enabled, version, tx>>
      /\ UNCHANGED <<subs, gone, receipts, excused>>
  BY DEF Pushing!Sends, Pushing!device
<1>2. /\ DevicesTyped /\ SubsInv /\ ReachInv
      /\ receipts \subseteq Pushing!Pushes \X subs /\ subs \subseteq Devices
  BY DEF PushInv, DevicesTyped, DeliveryInv
<1>3. /\ pusher[w] \in PusherType /\ row \in Pushing!Pushes /\ d # None /\ own \in Pairs
      /\ sent \in [Pairs -> Nat] /\ excused \in [Pairs -> Nat]
  BY <1>1, WorkersAre
<1>4. /\ u \in PusherType /\ u.pc = "receipt" /\ u.row = row /\ u.device = d
      /\ u.todo = pusher[w].todo /\ u.found = pusher[w].found /\ u.failed = pusher[w].failed
  BY <1>3 DEF PusherType
<1> HIDE DEF u
<1>5. Turns(w, u)
  BY <1>1, <1>3, <1>4 DEF Turns
<1>6. /\ PushRowsTyped' /\ RowsInv' /\ LateStep(w, u)
      /\ sent' \in [Pairs -> Nat] /\ \A x \in Pairs : sent[x] <= sent'[x]
      /\ \A x \in Pairs : sent'[x] = IF x = own THEN sent[x] + 1 ELSE sent[x]
      /\ \A p \in Pushing!Pushes :
           /\ push'[p].status = push[p].status /\ push'[p].claim = push[p].claim
           /\ push'[p].entity = push[p].entity /\ push'[p].at = push[p].at
           /\ push'[p].stale = push[p].stale
  BY <1>1, <1>4, <1>5, GoesOut
<1>7. CountsTyped'
  BY <1>1, <1>3, <1>6 DEF CountsTyped
<1>8. SentStep(w, u)
  <2>1. \A p \in Pushing!Pushes, c \in Devices :
          /\ NearTo(pusher[w], p, c) => NearTo(u, p, c) \/ <<p, c>> \in receipts'
          /\ sent'[<<p, c>>] + Bit(GoesTo(u, p, c)) + excused[<<p, c>>]
               <= excused'[<<p, c>>] + sent[<<p, c>>] + Bit(GoesTo(pusher[w], p, c))
    <3>1. TAKE p \in Pushing!Pushes, c \in Devices
    <3> DEFINE s == sent[<<p, c>>]
               e == excused[<<p, c>>]
    <3>2. s \in Nat /\ e \in Nat /\ <<p, c>> \in Pairs /\ excused'[<<p, c>>] = e
      BY <1>1, <1>3 DEF Pairs
    <3>3. NearTo(pusher[w], p, c) => NearTo(u, p, c)
      BY <1>4 DEF NearTo
    <3>4. ~GoesTo(u, p, c) /\ (GoesTo(pusher[w], p, c) <=> <<p, c>> = own)
      BY <1>1, <1>4 DEF GoesTo
    <3>5. sent'[<<p, c>>] = s + Bit(GoesTo(pusher[w], p, c)) /\ Bit(GoesTo(u, p, c)) = 0
      BY <1>6, <3>2, <3>4 DEF Bit
    <3>6. Bit(GoesTo(pusher[w], p, c)) \in Nat
      BY DEF Bit
    <3> HIDE DEF s, e
    <3>7. \A b \in Nat : (s + b) + 0 + e <= e + s + b
      BY <3>2
    <3> QED  BY <3>2, <3>3, <3>5, <3>6, <3>7 DEF s, e
  <2>2. \A p \in Pushing!Pushes : push'[p].status = "PENDING" =>
           /\ push[p].status = "PENDING"
           /\ \/ push'[p].claim = push[p].claim
              \/ push[p].claim = w /\ pusher[w].pc \notin {"send", "receipt"}
    BY <1>6
  <2>3. \A x \in receipts : x[2] \in gone' \/ x \in receipts'
    BY <1>1
  <2> HIDE DEF own, row, d
  <2> QED  BY <1>5, <1>7, <2>1, <2>2, <2>3, SentFrom
<1>9. ReachStep(w, u)
  <2>1. \A x \in receipts' : sent'[x] > 0
    <3>1. TAKE x \in receipts'
    <3>2. x \in Pairs /\ sent[x] > 0
      BY <1>1, <1>2 DEF ReachInv, Pairs
    <3>3. sent[x] \in Nat /\ sent'[x] \in Nat /\ sent[x] <= sent'[x]
      BY <1>3, <1>6, <3>2
    <3> QED  BY <3>2, <3>3
  <2>2. sent'[own] > 0
    <3>1. sent[own] \in Nat /\ sent'[own] = sent[own] + 1
      BY <1>3, <1>6
    <3> HIDE DEF own
    <3> QED  BY <3>1
  <2>3. ASSUME ~u.failed, push'[row].status = "PENDING", push'[row].claim = w,
               NEW c \in u.found \cap subs, c \notin u.todo, c # d
        PROVE  sent'[<<row, c>>] > 0
    <3>1. push[row].status = "PENDING" /\ push[row].claim = w
      BY <1>3, <1>6, <2>3
    <3>2. Reached(w)
      BY <1>1, <1>2, <1>4, <2>3, <3>1 DEF ReachInv, Pushing!Held
    <3>3. sent[<<row, c>>] > 0
      BY <1>4, <2>3, <3>2 DEF Reached
    <3>4. <<row, c>> \in Pairs
      BY <1>2, <1>3, <2>3 DEF Pairs
    <3>5. sent[<<row, c>>] \in Nat /\ sent'[<<row, c>>] \in Nat
          /\ sent[<<row, c>>] <= sent'[<<row, c>>]
      BY <1>3, <1>6, <3>4
    <3> QED  BY <3>3, <3>5
  <2>4. u.found \subseteq subs' \cup gone'
    BY <1>1, <1>2, <1>4 DEF ReachInv
  <2>5. \A v \in Workers \ {w}, p \in Pushing!Pushes :
          push'[p].status = "PENDING" /\ push'[p].claim = v
          => push[p].status = "PENDING" /\ push[p].claim = v
    BY <1>6
  <2>6. u.pc = "receipt" => sent'[<<u.row, u.device>>] > 0
    BY <1>4, <2>2
  <2> HIDE DEF own, row, d
  <2> QED  BY <1>1, <1>4, <1>6, <2>1, <2>3, <2>4, <2>5, <2>6 DEF ReachStep
<1>10. DeliveryInv'
  BY <1>1, <1>5, <1>6, <1>7, <1>8, <1>9, WorkerStep
<1>11. ScheduleTyped' /\ SubsInv' /\ ScheduleInv' /\ DevicesTyped'
  BY <1>1, <1>2, <1>6, Elsewhere
<1> QED  BY <1>10, <1>11 DEF PushInv

\* No answer: nothing went out, or one did that is excused.
LEMMA SendFailsKept ==
  ASSUME PushInv, NEW w \in Workers, Pushing!SendFails(w) PROVE PushInv'
<1> DEFINE row == pusher[w].row
           d == pusher[w].device
           own == <<row, d>>
           u == Pushing!Broken(pusher[w])
<1>1. /\ pusher[w].pc = "send" /\ pusher' = [pusher EXCEPT ![w] = u]
      /\ \/ UNCHANGED <<push, sent, excused>>
         \/ /\ Pushing!Pushed(w) /\ push' = Pushing!Late(row)
            /\ excused' = [excused EXCEPT ![own] = @ + 1]
      /\ UNCHANGED <<now, when, inbox, editor, enabled, version, tx>>
      /\ UNCHANGED <<subs, gone, receipts>>
  BY DEF Pushing!SendFails, Pushing!device
<1>2. /\ DevicesTyped /\ SubsInv /\ ReachInv
      /\ receipts \subseteq Pushing!Pushes \X subs /\ subs \subseteq Devices
  BY DEF PushInv, DevicesTyped, DeliveryInv
<1>3. /\ pusher[w] \in PusherType /\ row \in Pushing!Pushes /\ own \in Pairs
      /\ sent \in [Pairs -> Nat] /\ excused \in [Pairs -> Nat]
  BY <1>1, WorkersAre
<1>4. /\ u \in PusherType /\ u.pc = "loop" /\ u.row = row /\ u.device = None
      /\ u.found = pusher[w].found /\ u.failed
  BY <1>3, Ids DEF PusherType, Pushing!Broken
<1> HIDE DEF u
<1>5. Turns(w, u)
  BY <1>1, <1>3, <1>4 DEF Turns
<1>6. CASE UNCHANGED <<push, sent, excused>>
  <2>1. PushRowsTyped' /\ RowsInv' /\ LateStep(w, u)
    <3>1. \A p : ~Goes(u, p)
      BY <1>4 DEF Goes
    <3> QED  BY <1>1, <1>4, <1>5, <1>6, <3>1, RowsStay
  <2>2. CountsTyped' /\ (\A x \in Pairs : excused[x] <= excused'[x] /\ sent[x] <= sent'[x])
    BY <1>3, <1>6 DEF CountsTyped
  <2>3. SentStep(w, u)
    BY <1>1, <1>4, <1>5, <1>6, <2>2, Leaves
  <2>4. ReachStep(w, u)
    BY <1>1, <1>2, <1>4, <1>6, <2>2 DEF ReachStep, ReachInv
  <2>5. DeliveryInv'
    BY <1>1, <1>5, <2>1, <2>2, <2>3, <2>4, WorkerStep
  <2>6. ScheduleTyped' /\ SubsInv' /\ ScheduleInv' /\ DevicesTyped'
    BY <1>1, <1>2, <1>6, Elsewhere
  <2> QED  BY <2>5, <2>6 DEF PushInv
<1>7. CASE /\ Pushing!Pushed(w) /\ push' = Pushing!Late(row)
           /\ excused' = [excused EXCEPT ![own] = @ + 1]
  <2>1. /\ PushRowsTyped' /\ RowsInv' /\ LateStep(w, u)
        /\ sent' \in [Pairs -> Nat] /\ \A x \in Pairs : sent[x] <= sent'[x]
        /\ \A x \in Pairs : sent'[x] = IF x = own THEN sent[x] + 1 ELSE sent[x]
        /\ \A p \in Pushing!Pushes :
             /\ push'[p].status = push[p].status /\ push'[p].claim = push[p].claim
             /\ push'[p].entity = push[p].entity /\ push'[p].at = push[p].at
             /\ push'[p].stale = push[p].stale
    BY <1>1, <1>4, <1>5, <1>7, GoesOut
  <2>2. /\ CountsTyped'
        /\ \A x \in Pairs : excused'[x] = IF x = own THEN excused[x] + 1 ELSE excused[x]
    <3> HIDE DEF own
    <3>1. excused[own] + 1 \in Nat
      BY <1>3
    <3>2. excused' \in [Pairs -> Nat]
      BY <1>3, <1>7, <3>1
    <3>3. \A x \in Pairs : excused'[x] = IF x = own THEN excused[x] + 1 ELSE excused[x]
      BY <1>3, <1>7
    <3> QED  BY <2>1, <3>2, <3>3 DEF CountsTyped
  <2>3. SentStep(w, u)
    <3>1. \A p \in Pushing!Pushes, c \in Devices :
           \/ /\ ~NearTo(pusher[w], p, c)
              /\ sent'[<<p, c>>] + Bit(GoesTo(u, p, c)) + excused[<<p, c>>]
                   <= excused'[<<p, c>>] + sent[<<p, c>>] + Bit(GoesTo(pusher[w], p, c))
           \/ sent'[<<p, c>>] + Bit(GoesTo(u, p, c)) + excused[<<p, c>>] + 1
                <= excused'[<<p, c>>] + sent[<<p, c>>] + Bit(GoesTo(pusher[w], p, c))
      <4>1. TAKE p \in Pushing!Pushes, c \in Devices
      <4> DEFINE x == <<p, c>>
                 s == sent[x]
                 e == excused[x]
      <4>2. s \in Nat /\ e \in Nat /\ x \in Pairs
        BY <1>3 DEF Pairs
      <4>3. ~GoesTo(u, p, c) /\ (GoesTo(pusher[w], p, c) <=> x = own)
            /\ (NearTo(pusher[w], p, c) <=> x = own)
        BY <1>1, <1>4 DEF GoesTo, NearTo
      <4>4. CASE x = own
        <5>1. /\ sent'[x] = s + 1 /\ excused'[x] = e + 1
              /\ Bit(GoesTo(u, p, c)) = 0 /\ Bit(GoesTo(pusher[w], p, c)) = 1
          BY <2>1, <2>2, <4>2, <4>3, <4>4 DEF Bit
        <5> HIDE DEF s, e
        <5>2. (s + 1) + 0 + e + 1 <= (e + 1) + s + 1
          BY <4>2
        <5> QED  BY <5>1, <5>2 DEF s, e
      <4>5. CASE x # own
        <5>1. /\ sent'[x] = s /\ excused'[x] = e
              /\ Bit(GoesTo(u, p, c)) = 0 /\ Bit(GoesTo(pusher[w], p, c)) = 0
          BY <2>1, <2>2, <4>2, <4>3, <4>5 DEF Bit
        <5> HIDE DEF s, e
        <5>2. s + 0 + e <= e + s + 0
          BY <4>2
        <5> QED  BY <4>3, <4>5, <5>1, <5>2 DEF s, e
      <4> QED  BY <4>4, <4>5
    <3>2. \A p \in Pushing!Pushes : push'[p].status = "PENDING" =>
           /\ push[p].status = "PENDING"
           /\ \/ push'[p].claim = push[p].claim
              \/ push[p].claim = w /\ pusher[w].pc \notin {"send", "receipt"}
      BY <2>1
    <3>3. \A x \in receipts : x[2] \in gone' \/ x \in receipts'
      BY <1>1
    <3> HIDE DEF own, row, d
    <3> QED  BY <1>5, <2>2, <3>1, <3>2, <3>3, SentFrom
  <2>4. ReachStep(w, u)
    <3>1. \A x \in receipts' : sent'[x] > 0
      <4>1. TAKE x \in receipts'
      <4>2. x \in Pairs /\ sent[x] > 0
        BY <1>1, <1>2 DEF ReachInv, Pairs
      <4>3. sent[x] \in Nat /\ sent'[x] \in Nat /\ sent[x] <= sent'[x]
        BY <1>3, <2>1, <4>2
      <4> QED  BY <4>2, <4>3
    <3>2. u.found \subseteq subs' \cup gone'
      BY <1>1, <1>2, <1>4 DEF ReachInv
    <3> HIDE DEF own, row, d
    <3> QED  BY <1>4, <2>1, <3>1, <3>2 DEF ReachStep
  <2>5. DeliveryInv'
    BY <1>1, <1>5, <2>1, <2>2, <2>3, <2>4, WorkerStep
  <2>6. ScheduleTyped' /\ SubsInv' /\ ScheduleInv' /\ DevicesTyped'
    BY <1>1, <1>2, <2>1, Elsewhere
  <2> QED  BY <2>5, <2>6 DEF PushInv
<1> QED  BY <1>1, <1>6, <1>7

\* Whoever loses the claim may have a push out: the step excuses it.
LEMMA ClaimKept ==
  ASSUME PushInv, NEW w \in Workers, NEW row \in Pushing!Pushes, Pushing!Claim(w, row)
  PROVE  PushInv'
<1> DEFINE u == [pusher[w] EXCEPT !.pc = "devices", !.row = row]
           r == [push[row] EXCEPT !.claim = w, !.over = FALSE]
           Lost(x) == /\ x[1] = row
                      /\ \E v \in Workers \ {w} :
                           /\ pusher[v].pc \in {"send", "receipt"}
                           /\ pusher[v].row = row /\ pusher[v].device = x[2]
           more(x) == IF Lost(x) THEN 1 ELSE 0
<1>1. /\ pusher[w].pc = "idle" /\ pusher' = [pusher EXCEPT ![w] = u]
      /\ push[row].status = "PENDING"
      /\ push' = [push EXCEPT ![row].claim = w, ![row].over = FALSE]
      /\ excused' = [x \in Pairs |-> excused[x] + more(x)]
      /\ UNCHANGED <<now, when, inbox, editor, enabled, version, tx>>
      /\ UNCHANGED <<subs, gone, receipts, sent>>
  BY DEF Pushing!Claim, Pushing!device, Pairs
<1>2. /\ DevicesTyped /\ SubsInv /\ ReachInv /\ RowsInv /\ PushersTyped /\ LateInv
      /\ receipts \subseteq Pushing!Pushes \X subs /\ subs \subseteq Devices
  BY DEF PushInv, DevicesTyped, DeliveryInv
<1>3. /\ pusher[w] \in PusherType /\ pusher[w].device = None
      /\ push \in [Pushing!Pushes -> PushType]
      /\ sent \in [Pairs -> Nat] /\ excused \in [Pairs -> Nat]
  BY <1>1, WorkersAre
<1>4. /\ u \in PusherType /\ u.pc = "devices" /\ u.row = row /\ u.device = None
      /\ u.found = pusher[w].found
  BY <1>3 DEF PusherType
<1> HIDE DEF u
<1>5. Turns(w, u)
  BY <1>1, <1>3, <1>4 DEF Turns
<1>6. /\ push' \in [Pushing!Pushes -> PushType]
      /\ push'[row].claim = w /\ ~push'[row].over
      /\ \A p \in Pushing!Pushes :
           /\ push'[p].status = push[p].status /\ push'[p].late = push[p].late
           /\ push'[p].entity = push[p].entity /\ push'[p].at = push[p].at
           /\ push'[p].stale = push[p].stale
           /\ p # row => push'[p] = push[p]
  <2>1. push' = [push EXCEPT ![row] = r]
    BY <1>1, <1>3
  <2>2. push[row] \in PushType
    BY <1>3
  <2>3. /\ r \in PushType /\ r.status = push[row].status /\ r.late = push[row].late
        /\ r.entity = push[row].entity /\ r.at = push[row].at
        /\ r.stale = push[row].stale /\ r.claim = w /\ ~r.over
    BY <2>2 DEF PushType
  <2> HIDE DEF r
  <2> QED  BY <1>3, <2>1, <2>3
<1>7. pusher'[w] = u /\ \A v \in Workers : v # w => pusher'[v] = pusher[v]
  BY <1>2, <1>5 DEF Turns, PushersTyped
<1>8. RowsInv' /\ PushRowsTyped'
  <2>1. SUFFICES ASSUME NEW p \in Pushing!Pushes
        PROVE  /\ push'[p].claim # None => push'[p].status = "PENDING"
               /\ push'[p].over => push'[p].claim # None
               /\ push'[p].status = None =>
                    /\ \A v \in Workers : pusher'[v].pc # "idle" => pusher'[v].row # p
                    /\ \A d \in Devices : sent'[<<p, d>>] = 0
    BY <1>6 DEF RowsInv, PushRowsTyped
  <2>2. /\ push[p].claim # None => push[p].status = "PENDING"
        /\ push[p].over => push[p].claim # None
        /\ push[p].status = None =>
             /\ \A v \in Workers : pusher[v].pc # "idle" => pusher[v].row # p
             /\ \A d \in Devices : sent[<<p, d>>] = 0
    BY <1>2 DEF RowsInv
  <2>3. CASE p = row
    BY <1>1, <1>6, <2>3, Ids
  <2>4. CASE p # row
    <3>1. push'[p] = push[p]
      BY <1>6, <2>4
    <3>2. \A v \in Workers : pusher'[v].pc # "idle" => pusher'[v].row # p
                                 \/ (v # w /\ pusher[v].pc # "idle" /\ pusher[v].row = p)
      BY <1>4, <1>7, <2>4
    <3> QED  BY <1>1, <2>2, <3>1, <3>2
  <2> QED  BY <2>3, <2>4
<1>9. CountsTyped' /\ \A x \in Pairs : excused'[x] = excused[x] + more(x)
  <2>1. \A x : more(x) \in {0, 1}
    OBVIOUS
  <2> HIDE DEF more
  <2>2. \A x \in Pairs : excused[x] + more(x) \in Nat
    BY <1>3, <2>1
  <2> QED  BY <1>1, <1>3, <2>2 DEF CountsTyped
<1>10. SentStep(w, u)
  <2>1. SUFFICES ASSUME NEW p \in Pushing!Pushes, NEW c \in Devices, c \notin gone'
        PROVE  sent'[<<p, c>>] + Bit(GoesTo(u, p, c)) + excused[<<p, c>>] + Slack(p, c)
                 <= excused'[<<p, c>>] + Slack(p, c)' + sent[<<p, c>>]
                      + Bit(GoesTo(pusher[w], p, c))
    BY DEF SentStep
  <2> DEFINE x == <<p, c>>
             m == more(x)
  <2>2. /\ sent[x] \in Nat /\ excused[x] \in Nat /\ m \in {0, 1} /\ sent'[x] = sent[x]
        /\ excused'[x] = excused[x] + m
    BY <1>1, <1>3, <1>9 DEF Pairs
  <2>3. /\ Bit(GoesTo(u, p, c)) = 0 /\ Bit(GoesTo(pusher[w], p, c)) = 0
        /\ ~NearTo(pusher[w], p, c)
    BY <1>1, <1>4 DEF Bit, GoesTo, NearTo
  <2>4. Slack(p, c) <= m + Slack(p, c)'
    <3>1. Slack(p, c) \in {0, 1} /\ Slack(p, c)' \in {0, 1}
      BY Slacks
    <3>2. CASE p # row
      <4>1. Slack(p, c) <= Slack(p, c)'
        BY <1>1, <1>5, <1>6, <2>3, <3>2, SlackStep
      <4> QED  BY <2>2, <3>1, <4>1
    <3>3. CASE p = row /\ HolderNear(p, c)
      <4>1. PICK v \in Workers : Nearby(v, p, c)
        BY <3>3 DEF HolderNear
      <4>2. v # w
        BY <1>1, <4>1 DEF Nearby
      <4>3. m = 1
        BY <3>3, <4>1, <4>2 DEF Nearby
      <4> HIDE DEF m
      <4> QED  BY <3>1, <4>3
    <3>4. CASE p = row /\ ~HolderNear(p, c)
      <4>1. x \in receipts => x \in receipts'
        BY <1>1
      <4>2. CASE x \in receipts
        <5>1. Slack(p, c)' = 1
          BY <4>1, <4>2 DEF Slack
        <5> QED  BY <2>2, <3>1, <5>1
      <4>3. CASE x \notin receipts
        <5>1. Slack(p, c) = 0
          BY <1>1, <3>4, <4>3 DEF Slack
        <5> QED  BY <2>2, <3>1, <5>1
      <4> QED  BY <4>2, <4>3
    <3> QED  BY <3>2, <3>3, <3>4
  <2> DEFINE a == Slack(p, c)
             b == Slack(p, c)'
             s == sent[x]
             e == excused[x]
  <2>5. s \in Nat /\ e \in Nat /\ a \in {0, 1} /\ b \in {0, 1} /\ m \in {0, 1} /\ a <= m + b
    BY <2>2, <2>4, Slacks
  <2> HIDE DEF a, b, s, e, m
  <2>6. s + 0 + e + a <= (e + m) + b + s + 0
    BY <2>5
  <2> QED  BY <2>2, <2>3, <2>6 DEF a, b, s, e
<1>11. LateStep(w, u)
  <2>1. SUFFICES ASSUME NEW p \in Pushing!Pushes
        PROVE  IF push'[p].status = "CANCELLED"
               THEN /\ push[p].status = "CANCELLED"
                    /\ push'[p].late + Bit(Goes(u, p)) <= push[p].late + Bit(Goes(pusher[w], p))
               ELSE push'[p].late = 0
    BY DEF LateStep
  <2>2. push[p].late \in Nat /\ ~Goes(u, p) /\ ~Goes(pusher[w], p)
    BY <1>1, <1>3, <1>4 DEF PushType, Goes
  <2> QED  BY <1>2, <1>6, <2>1, <2>2 DEF Bit, LateInv
<1>12. ReachStep(w, u)
  <2>1. \A x \in Pairs : sent[x] <= sent'[x]
    BY <1>1, <1>3
  <2>2. u.found \subseteq subs' \cup gone'
    BY <1>1, <1>2, <1>4 DEF ReachInv
  <2>3. \A v \in Workers \ {w}, p \in Pushing!Pushes :
          push'[p].status = "PENDING" /\ push'[p].claim = v
          => push[p].status = "PENDING" /\ push[p].claim = v
    BY <1>6
  <2> QED  BY <1>1, <1>2, <1>4, <2>1, <2>2, <2>3 DEF ReachStep, ReachInv
<1>13. DeliveryInv'
  BY <1>1, <1>5, <1>8, <1>9, <1>10, <1>11, <1>12, WorkerStep
<1>14. ScheduleTyped' /\ SubsInv' /\ ScheduleInv' /\ DevicesTyped'
  BY <1>1, <1>2, <1>6, Elsewhere
<1> QED  BY <1>13, <1>14 DEF PushInv

LEMMA FinishKept ==
  ASSUME PushInv, NEW w \in Workers, Pushing!Finish(w) PROVE PushInv'
<1> DEFINE row == pusher[w].row
           old == push[row]
           freed == [old EXCEPT !.claim = None, !.over = FALSE]
           done == [freed EXCEPT !.status = "SENT"]
           end == IF old.tries + 1 >= MaxRetries THEN "FAILED" ELSE "PENDING"
           again == [freed EXCEPT !.tries = @ + 1, !.status = end]
           held == Pushing!Held(w, row)
           u == Pushing!Idle
<1>1. PICK r :
        /\ pusher[w].pc = "loop" /\ pusher' = [pusher EXCEPT ![w] = u]
        /\ push' = [push EXCEPT ![row] = r]
        /\ ~held => r = old
        /\ held /\ ~pusher[w].failed => r = done
        /\ held /\ pusher[w].failed => r = again
        /\ UNCHANGED <<now, when, inbox, editor, enabled, version, tx>>
        /\ UNCHANGED <<subs, gone, receipts, sent, excused>>
  <2> DEFINE t == CASE ~held -> old
                    [] held /\ ~pusher[w].failed -> done
                    [] held /\ pusher[w].failed -> again
  <2>1. /\ pusher[w].pc = "loop" /\ pusher' = [pusher EXCEPT ![w] = u]
        /\ UNCHANGED <<now, when, inbox, editor, enabled, version, tx>>
        /\ UNCHANGED <<subs, gone, receipts, sent, excused>>
    BY DEF Pushing!Finish, Pushing!device
  <2>2. push' = [push EXCEPT ![row] = t]
    BY Ids DEF Pushing!Finish
  <2>3. /\ ~held => t = old
        /\ held /\ ~pusher[w].failed => t = done
        /\ held /\ pusher[w].failed => t = again
    <3> HIDE DEF held, done, again, old
    <3> QED  OBVIOUS
  <2> HIDE DEF t, held, done, again
  <2> QED  BY <2>1, <2>2, <2>3
<1>2. /\ DevicesTyped /\ SubsInv /\ ReachInv /\ RowsInv /\ PushersTyped /\ LateInv
      /\ receipts \subseteq Pushing!Pushes \X subs /\ subs \subseteq Devices
  BY DEF PushInv, DevicesTyped, DeliveryInv
<1>3. /\ pusher[w] \in PusherType /\ row \in Pushing!Pushes /\ old \in PushType
      /\ push \in [Pushing!Pushes -> PushType] /\ old.status # None
      /\ sent \in [Pairs -> Nat] /\ excused \in [Pairs -> Nat]
  BY <1>1, WorkersAre
<1>4. /\ u \in PusherType /\ u.pc = "idle" /\ u.device = None /\ u.found = {}
  BY Resting
<1> HIDE DEF u
<1>5. Turns(w, u)
  BY <1>1, <1>4 DEF Turns
<1>6. /\ r \in PushType /\ r.status # None /\ r.entity = old.entity /\ r.at = old.at
      /\ r.stale = old.stale /\ r.late = old.late
      /\ r.status = "CANCELLED" => old.status = "CANCELLED"
      /\ old.status = "CANCELLED" => r.status = "CANCELLED"
      /\ r.status = "PENDING" => old.status = "PENDING"
      /\ r.claim = old.claim \/ (old.claim = w /\ r.claim = None)
      /\ r.claim # None => r.status = "PENDING"
      /\ r.over => r.claim # None
  <2>1. /\ held <=> old.status = "PENDING" /\ old.claim = w
    BY DEF Pushing!Held
  <2>2. /\ old.claim # None => old.status = "PENDING"
        /\ old.over => old.claim # None
    BY <1>2, <1>3 DEF RowsInv
  <2>3. /\ done \in PushType /\ done.status = "SENT" /\ done.entity = old.entity
        /\ done.at = old.at /\ done.stale = old.stale /\ done.late = old.late
        /\ done.claim = None /\ done.over = FALSE
    <3> HIDE DEF old
    <3> QED  BY <1>3, Ids DEF PushType
  <2>4. end \in {"FAILED", "PENDING"}
    OBVIOUS
  <2>5. /\ again \in PushType /\ again.status = end /\ again.entity = old.entity
        /\ again.at = old.at /\ again.stale = old.stale /\ again.late = old.late
        /\ again.claim = None /\ again.over = FALSE
    <3> HIDE DEF old, end
    <3>1. old.tries \in Nat /\ old.tries + 1 \in Nat
      BY <1>3 DEF PushType
    <3>2. /\ freed \in PushType /\ freed.entity = old.entity /\ freed.tries = old.tries
          /\ freed.at = old.at /\ freed.stale = old.stale /\ freed.late = old.late
          /\ freed.claim = None /\ freed.over = FALSE
      BY <1>3, Ids DEF PushType
    <3> HIDE DEF freed
    <3>3. again = [freed EXCEPT !.tries = old.tries + 1, !.status = end]
      BY <3>2
    <3> HIDE DEF again
    <3> QED  BY <2>4, <3>1, <3>2, <3>3, Ids DEF PushType
  <2> HIDE DEF done, again, held, end, old
  <2>6. CASE ~held
    BY <1>1, <1>3, <2>2, <2>6
  <2>7. CASE held /\ ~pusher[w].failed
    BY <1>1, <1>3, <2>1, <2>3, <2>7, Ids
  <2>8. CASE held /\ pusher[w].failed
    <3>1. r = again
      BY <1>1, <2>8
    <3> QED  BY <1>3, <2>1, <2>4, <2>5, <2>8, <3>1, Ids
  <2> QED  BY <2>6, <2>7, <2>8
<1> HIDE DEF done, again, held
<1>7. pusher'[w] = u /\ \A v \in Workers : v # w => pusher'[v] = pusher[v]
  BY <1>2, <1>5 DEF Turns, PushersTyped
<1>8. /\ push' \in [Pushing!Pushes -> PushType] /\ push'[row] = r
      /\ \A p \in Pushing!Pushes : p # row => push'[p] = push[p]
  <2> HIDE DEF row
  <2> QED  BY <1>1, <1>3, <1>6
<1>9. RowsInv' /\ PushRowsTyped'
  <2>1. SUFFICES ASSUME NEW p \in Pushing!Pushes
        PROVE  /\ push'[p].claim # None => push'[p].status = "PENDING"
               /\ push'[p].over => push'[p].claim # None
               /\ push'[p].status = None =>
                    /\ \A v \in Workers : pusher'[v].pc # "idle" => pusher'[v].row # p
                    /\ \A d \in Devices : sent'[<<p, d>>] = 0
    BY <1>8 DEF RowsInv, PushRowsTyped
  <2>2. CASE p = row
    BY <1>6, <1>8, <2>2
  <2>3. CASE p # row
    BY <1>1, <1>2, <1>4, <1>7, <1>8, <2>3 DEF RowsInv
  <2> QED  BY <2>2, <2>3
<1>10. CountsTyped'
  BY <1>1, <1>3 DEF CountsTyped
<1>11. SentStep(w, u)
  <2>1. \A p \in Pushing!Pushes, c \in Devices :
          /\ ~NearTo(pusher[w], p, c)
          /\ sent'[<<p, c>>] + Bit(GoesTo(u, p, c)) + excused[<<p, c>>]
               <= excused'[<<p, c>>] + sent[<<p, c>>] + Bit(GoesTo(pusher[w], p, c))
    <3>1. TAKE p \in Pushing!Pushes, c \in Devices
    <3>2. sent[<<p, c>>] \in Nat /\ excused[<<p, c>>] \in Nat
      BY <1>3 DEF Pairs
    <3>3. ~NearTo(pusher[w], p, c) /\ ~GoesTo(u, p, c) /\ ~GoesTo(pusher[w], p, c)
      BY <1>1, <1>4 DEF NearTo, GoesTo
    <3> QED  BY <1>1, <3>2, <3>3 DEF Bit
  <2>2. \A p \in Pushing!Pushes : push'[p].status = "PENDING" =>
           /\ push[p].status = "PENDING"
           /\ \/ push'[p].claim = push[p].claim
              \/ push[p].claim = w /\ pusher[w].pc \notin {"send", "receipt"}
    BY <1>1, <1>6, <1>8
  <2>3. \A x \in receipts : x[2] \in gone' \/ x \in receipts'
    BY <1>1
  <2> QED  BY <1>5, <1>10, <2>1, <2>2, <2>3, SentFrom
<1>12. LateStep(w, u)
  <2>1. SUFFICES ASSUME NEW p \in Pushing!Pushes
        PROVE  IF push'[p].status = "CANCELLED"
               THEN /\ push[p].status = "CANCELLED"
                    /\ push'[p].late + Bit(Goes(u, p)) <= push[p].late + Bit(Goes(pusher[w], p))
               ELSE push'[p].late = 0
    BY DEF LateStep
  <2>2. push[p].late \in Nat /\ ~Goes(u, p) /\ ~Goes(pusher[w], p)
    BY <1>1, <1>3, <1>4 DEF PushType, Goes
  <2>3. /\ push'[p].late = push[p].late
        /\ push'[p].status = "CANCELLED" <=> push[p].status = "CANCELLED"
    BY <1>6, <1>8
  <2>4. push[p].status # "CANCELLED" => push[p].late = 0
    BY <1>2 DEF LateInv
  <2> QED  BY <2>2, <2>3, <2>4 DEF Bit
<1>13. ReachStep(w, u)
  <2>1. \A x \in Pairs : sent[x] <= sent'[x]
    BY <1>1, <1>3
  <2>2. \A v \in Workers \ {w}, p \in Pushing!Pushes :
          push'[p].status = "PENDING" /\ push'[p].claim = v
          => push[p].status = "PENDING" /\ push[p].claim = v
    BY <1>6, <1>8, Ids
  <2> QED  BY <1>1, <1>2, <1>4, <2>1, <2>2 DEF ReachStep, ReachInv
<1>14. DeliveryInv'
  BY <1>1, <1>5, <1>9, <1>10, <1>11, <1>12, <1>13, WorkerStep
<1>15. ScheduleTyped' /\ SubsInv' /\ ScheduleInv' /\ DevicesTyped'
  <2>1. \A p \in Pushing!Pushes : push'[p].status = "PENDING" =>
           /\ push[p].status = "PENDING" /\ push'[p].entity = push[p].entity
           /\ push'[p].at = push[p].at /\ push'[p].stale = push[p].stale
    BY <1>6, <1>8
  <2> QED  BY <1>1, <1>2, <2>1, Elsewhere
<1> QED  BY <1>14, <1>15 DEF PushInv

LEMMA PushesStep == PushInv /\ [Pushing!Next]_(Pushing!vars) => PushInv'
<1> SUFFICES ASSUME PushInv, [Pushing!Next]_(Pushing!vars) PROVE PushInv'
  OBVIOUS
<1>1. CASE UNCHANGED Pushing!vars
  <2>1. /\ UNCHANGED <<now, when, inbox, editor, enabled, version, tx>>
        /\ UNCHANGED <<push, subs, gone, receipts, pusher, sent, excused>>
    BY <1>1 DEF Pushing!vars
  <2>2. ScheduleTyped' /\ version \in Nat
    BY <2>1 DEF PushInv, ScheduleTyped
  <2>3. version <= version'
    BY <2>1, <2>2
  <2> QED  BY <2>1, <2>2, <2>3, PushesRest
<1>2. CASE Pushing!Passes \/ Pushing!Cancel \/ Pushing!Channels \/ Pushing!Create
           \/ Pushing!SetPreference
  BY <1>2, PassesKept, CancelKept, ChannelsKept, CreateKept, SetPreferenceKept
<1>3. ASSUME NEW e \in Entities,
             Pushing!DeliverInApp(e) \/ \E t \in 0..MaxTime : Pushing!Edit(e, t)
      PROVE  PushInv'
  BY <1>3, DeliverInAppKept, EditKept
<1>4. ASSUME NEW d \in Devices,
             Pushing!Subscribe(d) \/ Pushing!Commit(d) \/ Pushing!Aborts(d)
               \/ Pushing!Unsubscribe(d)
      PROVE  PushInv'
  BY <1>4, SubscribeKept, CommitKept, AbortsKept, UnsubscribeKept
<1>5. ASSUME NEW p \in Pushing!Pushes, Pushing!LeaseEnds(p) PROVE PushInv'
  BY <1>5, LeaseEndsKept
<1>6. ASSUME NEW w \in Workers,
             \/ Pushing!ReadDevices(w) \/ Pushing!Sends(w) \/ Pushing!SendFails(w)
             \/ Pushing!DeviceGone(w) \/ Pushing!Receipt(w) \/ Pushing!ReceiptFails(w)
             \/ Pushing!Finish(w) \/ Pushing!Restart(w)
             \/ \E p \in Pushing!Pushes : Pushing!Claim(w, p)
             \/ \E d \in Devices : Pushing!Device(w, d)
      PROVE  PushInv'
  BY <1>6, ReadDevicesKept, SendsKept, SendFailsKept, DeviceGoneKept, ReceiptKept,
     ReceiptFailsKept, FinishKept, RestartKept, ClaimKept, DeviceKept
<1> QED  BY <1>1, <1>2, <1>3, <1>4, <1>5, <1>6 DEF Pushing!Next

LEMMA PushesPromised ==
  PushInv => /\ Pushing!TypeOK /\ Pushing!AsIfOneAtATime
             /\ Pushing!NotPushedTwice /\ Pushing!CancelSilences
<1> SUFFICES ASSUME PushInv
             PROVE  /\ Pushing!TypeOK /\ Pushing!AsIfOneAtATime
                    /\ Pushing!NotPushedTwice /\ Pushing!CancelSilences
  OBVIOUS
<1>1. /\ ScheduleTyped /\ DevicesTyped /\ SubsInv /\ ScheduleInv
      /\ PushRowsTyped /\ PushersTyped /\ CountsTyped /\ RowsInv /\ SentInv /\ LateInv
  BY DEF PushInv, DeliveryInv
<1>2. Pushing!TypeOK
  <2>1. \A e \in Entities : inbox[e].status \in Pushing!Statuses
    BY <1>1 DEF ScheduleTyped, InboxType, RowStatuses
  <2>2. \A p \in Pushing!Pushes :
          /\ push[p].status \in Pushing!Statuses
          /\ push[p].claim # None => push[p].status = "PENDING"
          /\ push[p].over => push[p].claim # None
    BY <1>1 DEF PushRowsTyped, PushType, RowStatuses, RowsInv
  <2>3. \A w \in Workers :
          (pusher[w].pc \in {"send", "receipt"}) = (pusher[w].device # None)
    BY <1>1 DEF PushersTyped
  <2>4. now \in 1..MaxTime /\ when \in [Entities -> 0..MaxTime]
    BY <1>1 DEF ScheduleTyped
  <2>5. subs \subseteq Devices /\ receipts \subseteq Pushing!Pushes \X subs
    BY <1>1 DEF DevicesTyped
  <2>6. Pushing!None = None
    BY Ids
  <2> QED  BY <2>1, <2>2, <2>3, <2>4, <2>5, <2>6 DEF Pushing!TypeOK
<1>3. Pushing!AsIfOneAtATime
  BY <1>1, PushCards DEF Pushing!AsIfOneAtATime, SubsInv, ScheduleInv
<1>4. Pushing!NotPushedTwice
  <2>1. SUFFICES ASSUME NEW p \in Pushing!Pushes, NEW d \in Devices, d \notin gone
                 PROVE  sent[<<p, d>>] <= 1 + excused[<<p, d>>]
    BY DEF Pushing!NotPushedTwice
  <2>2. /\ sent[<<p, d>>] \in Nat /\ excused[<<p, d>>] \in Nat
        /\ Cardinality(Sending(p, d)) \in Nat
    BY <1>1, SendersFinite DEF CountsTyped, Pairs
  <2>3. Slack(p, d) \in {0, 1}
    BY Slacks
  <2>4. sent[<<p, d>>] + Cardinality(Sending(p, d)) <= excused[<<p, d>>] + Slack(p, d)
    BY <1>1, <2>1 DEF SentInv
  <2> QED  BY <2>2, <2>3, <2>4
<1>5. Pushing!CancelSilences
  <2>1. SUFFICES ASSUME NEW p \in Pushing!Pushes PROVE push[p].late <= Cardinality(Workers)
    BY PushCards DEF Pushing!CancelSilences
  <2>2. push[p].late \in Nat
    BY <1>1 DEF PushRowsTyped, PushType
  <2>3. IF push[p].status = "CANCELLED"
        THEN push[p].late + Cardinality(SendingOf(p)) <= Cardinality(Workers)
        ELSE push[p].late = 0
    BY <1>1 DEF LateInv
  <2> QED  BY <2>2, <2>3, SendersFinite
<1> QED  BY <1>2, <1>3, <1>4, <1>5

\* Only the worker that finishes a row, holding it and without an error, says SENT.
LEMMA SentReached ==
  ASSUME PushInv, [Pushing!Next]_(Pushing!vars), NEW w \in Workers,
         pusher[w].pc = "loop", pusher'[w] = Pushing!Idle,
         push[pusher[w].row].status = "PENDING", push'[pusher[w].row].status = "SENT",
         NEW d \in pusher[w].found \cap subs
  PROVE  sent[<<pusher[w].row, d>>] > 0
<1> DEFINE row == pusher[w].row
<1>1. /\ pusher \in [Workers -> PusherType] /\ row \in Pushing!Pushes
      /\ push \in [Pushing!Pushes -> PushType] /\ pusher[w].device = None
      /\ pusher'[w].pc = "idle"
  BY WorkersAre, Resting DEF PushInv, DeliveryInv, PushersTyped
<1>2. pusher' # pusher /\ push' # push
  BY <1>1
<1>3. ~ UNCHANGED Pushing!vars
  BY <1>2 DEF Pushing!vars
<1>4. ~ (\/ Pushing!Passes \/ Pushing!Cancel \/ Pushing!Channels \/ Pushing!Create
         \/ Pushing!SetPreference)
  BY <1>2 DEF Pushing!Passes, Pushing!Cancel, Pushing!Channels, Pushing!Create,
              Pushing!SetPreference, Pushing!delivery
<1>5. \A e \in Entities : ~ (Pushing!DeliverInApp(e)
                             \/ \E t \in 0..MaxTime : Pushing!Edit(e, t))
  BY <1>2 DEF Pushing!DeliverInApp, Pushing!Edit, Pushing!delivery
<1>6. \A c \in Devices : ~ (Pushing!Subscribe(c) \/ Pushing!Commit(c) \/ Pushing!Aborts(c)
                            \/ Pushing!Unsubscribe(c))
  BY <1>2 DEF Pushing!Subscribe, Pushing!Commit, Pushing!Aborts, Pushing!Unsubscribe,
              Pushing!delivery
<1>7. \A p \in Pushing!Pushes : ~Pushing!LeaseEnds(p)
  BY <1>2 DEF Pushing!LeaseEnds, Pushing!delivery
<1>8. ASSUME NEW v \in Workers,
             \/ Pushing!ReadDevices(v) \/ Pushing!DeviceGone(v) \/ Pushing!Receipt(v)
             \/ Pushing!ReceiptFails(v) \/ Pushing!Restart(v)
             \/ \E c \in Devices : Pushing!Device(v, c)
      PROVE  FALSE
  BY <1>2, <1>8 DEF Pushing!ReadDevices, Pushing!DeviceGone, Pushing!Receipt,
                    Pushing!ReceiptFails, Pushing!Restart, Pushing!Device
<1>9. ASSUME NEW v \in Workers,
             Pushing!Sends(v) \/ Pushing!SendFails(v)
               \/ \E p \in Pushing!Pushes : Pushing!Claim(v, p)
      PROVE  FALSE
  <2>1. /\ \A x \in Workers \ {v} : pusher'[x] = pusher[x]
        /\ pusher[v].pc \in {"idle", "send"}
    BY <1>1, <1>9 DEF Pushing!Sends, Pushing!SendFails, Pushing!Claim
  <2>2. v # w
    BY <2>1
  <2> QED  BY <1>1, <2>1, <2>2
<1>10. PICK v \in Workers : Pushing!Finish(v)
  BY <1>3, <1>4, <1>5, <1>6, <1>7, <1>8, <1>9 DEF Pushing!Next
<1>11. v = w
  <2>1. pusher' = [pusher EXCEPT ![v] = Pushing!Idle]
    BY <1>10 DEF Pushing!Finish
  <2> QED  BY <1>1, <2>1
<1>12. pusher[w].todo = {} /\ Pushing!Held(w, row) /\ ~pusher[w].failed
  <2> DEFINE old == push[row]
             freed == [old EXCEPT !.claim = None, !.over = FALSE]
             held == Pushing!Held(w, row)
             end == IF old.tries + 1 >= MaxRetries THEN "FAILED" ELSE "PENDING"
             t == CASE ~held -> old
                    [] held /\ ~pusher[w].failed -> [freed EXCEPT !.status = "SENT"]
                    [] held /\ pusher[w].failed ->
                         [freed EXCEPT !.tries = @ + 1, !.status = end]
  <2>1. pusher[w].todo = {} /\ push' = [push EXCEPT ![row] = t]
    BY <1>10, <1>11, Ids DEF Pushing!Finish
  <2>2. t.status = "SENT" /\ old.status = "PENDING"
    <3> HIDE DEF t, old
    <3>1. push'[row] = t
      BY <1>1, <2>1
    <3> QED  BY <3>1 DEF old
  <2>3. ASSUME ~held PROVE FALSE
    <3>1. t = old
      BY <2>3
    <3> QED  BY <2>2, <3>1
  <2>4. ASSUME held, pusher[w].failed PROVE FALSE
    <3>1. end # "SENT"
      OBVIOUS
    <3>2. old \in PushType
      BY <1>1
    <3> HIDE DEF end
    <3>3. t.status = end
      <4>1. t = [freed EXCEPT !.tries = @ + 1, !.status = end]
        BY <2>4
      <4>2. freed \in PushType
        BY <3>2, Ids DEF PushType
      <4> HIDE DEF freed, t
      <4> QED  BY <4>1, <4>2 DEF PushType
    <3> QED  BY <2>2, <3>1, <3>3
  <2> HIDE DEF t
  <2> QED  BY <2>1, <2>3, <2>4
<1>13. Reached(w)
  BY <1>12 DEF PushInv, DeliveryInv, ReachInv
<1>14. d \in Devices /\ d # None
  BY <1>1, Ids DEF PusherType
<1> QED  BY <1>1, <1>12, <1>13, <1>14 DEF Reached

\* Every value is in its type; subscribes that overlap leave no more devices
\* than the limit and no two live pushes for one time of an entity, a device
\* that stays gets a notification once and again only for what no receipt could
\* tell of, what is cancelled reaches one more device for each worker at most,
\* and a row becomes SENT only when every device its worker found has the push
\* or is gone, through every order of the edits, the subscribes and the workers,
\* with faults and restarts (web-push.service.ts, notification-worker.service.ts).
THEOREM PushesAreKept == MCSpec => PushesKept
<1> DEFINE Kept == part = "pushes" =>
                     /\ Pushing!TypeOK /\ Pushing!AsIfOneAtATime
                     /\ Pushing!NotPushedTwice /\ Pushing!CancelSilences
           Says == \A w \in Workers :
                     ( /\ pusher[w].pc = "loop" /\ pusher'[w] = Pushing!Idle
                       /\ push[pusher[w].row].status = "PENDING"
                       /\ push'[pusher[w].row].status = "SENT" )
                     => \A d \in pusher[w].found \cap subs :
                          sent[<<pusher[w].row, d>>] > 0
<1>1. MCInit => PushInv
  BY PushesInit DEF MCInit
<1>2. ASSUME [MCNext]_<<part, vars, files, budgets, plans, pushes>>
      PROVE  [Pushing!Next]_(Pushing!vars)
  <2>1. ASSUME UNCHANGED pushes PROVE UNCHANGED Pushing!vars
    BY <2>1 DEF pushes, Pushing!vars
  <2> QED  BY <1>2, <2>1 DEF MCNext
<1>3. PushInv /\ [MCNext]_<<part, vars, files, budgets, plans, pushes>> => PushInv'
  BY <1>2, PushesStep
<1>4. PushInv => Kept
  BY PushesPromised
<1>5. PushInv /\ [MCNext]_<<part, vars, files, budgets, plans, pushes>>
        => [Says]_(Pushing!vars)
  BY <1>2, SentReached
<1>6. (Pushing!SentReachedAll) <=> [][Says]_(Pushing!vars)
  BY PTL DEF Pushing!SentReachedAll
<1> HIDE DEF Says
<1> QED  BY <1>1, <1>3, <1>4, <1>5, <1>6, PTL DEF MCSpec, PushesKept

=============================================================================
