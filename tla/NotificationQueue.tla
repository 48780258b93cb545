--------------------------- MODULE NotificationQueue ---------------------------
(***************************************************************************)
(* The notification table as a queue: NotificationSchedulerService creates *)
(* and cancels rows as tasks, reminders and meetings change, and the       *)
(* NotificationWorkerService of every server instance claims due rows      *)
(* under a lease, delivers them and records what happened.                 *)
(*                                                                         *)
(* Time is not a number here: a row comes due, a lease (120 s) runs out    *)
(* and a backoff (retryCount minutes) is over at some point.  A claim      *)
(* token (a fresh UUID) is the lane that made it: a lane makes its next    *)
(* claim only after it is done with the last, or its process is gone.      *)
(* One entity is modelled, its rows being cancelled and created together;  *)
(* other rows are announcements (briefings, suggestions).                  *)
(***************************************************************************)
EXTENDS Integers, FiniteSets

CONSTANTS
  Notes,        \* identifiers of notification rows
  Instances,    \* server instances
  Editors,      \* requests that may change the entity
  NoLane, NoNote,
  MaxRetries,   \* maxRetries (3)
  MaxEdits,     \* bound: changes of the entity
  MaxFaults     \* bound: database errors and crashes

ASSUME NotificationQueueAssumption ==
  /\ NoNote \notin Notes
  /\ NoLane \notin Instances \X BOOLEAN
  /\ MaxRetries \in Nat \ {0}
  /\ MaxEdits \in Nat /\ MaxFaults \in Nat

\* The lanes of an instance: TRUE for the external channels, FALSE for in-app.
Lanes == Instances \X BOOLEAN

VARIABLES
  status,   \* status column; "none" before the row is created or once deleted
  external, \* channel column: Telegram or web push rather than in-app
  due,      \* scheduledAt has come
  backoff,  \* nextRetryAt is still ahead
  retries,  \* retryCount column
  lease,    \* claimedAt: free, held, or expired
  token,    \* claimToken column
  version,  \* the version of the entity a row was made from, 0 for none
  marking,  \* markRead under way: the status it read, "none" if there is none
  lane,     \* the lanes: step, row, rows of the batch still to do, retryCounts read
  entity,   \* version of the entity, and whether it wants a notification
  editor,   \* the requests that change it
  delivered,\* history: the rows delivered once, and more than once
  excused,  \* history: rows with a late, cut-off, unrecorded, half-done or undone attempt
  torn,     \* history: changes of the entity overlapped or were cut off, or a
            \* row of it was written back
  faults    \* history: number of faults

rowVars == <<status, external, due, backoff, retries, lease, token, version>>
editVars == <<entity, editor, torn, marking>>
history == <<delivered, excused>>
vars == <<rowVars, lane, editVars, history, faults>>

Resting(w) == [pc |-> "idle", note |-> NoNote, todo |-> {}, seen |-> w]
NoneSeen == [n \in Notes |-> 0]

Init ==
  /\ status = [n \in Notes |-> "none"]
  /\ external = [n \in Notes |-> FALSE]
  /\ due = [n \in Notes |-> FALSE]
  /\ backoff = [n \in Notes |-> FALSE]
  /\ retries = [n \in Notes |-> 0]
  /\ lease = [n \in Notes |-> "free"]
  /\ token = [n \in Notes |-> NoLane]
  /\ version = [n \in Notes |-> 0]
  /\ marking = [n \in Notes |-> "none"]
  /\ lane = [l \in Lanes |-> Resting(NoneSeen)]
  /\ entity = [version |-> 0, wants |-> FALSE]
  /\ editor = [e \in Editors |-> [pc |-> "idle", version |-> 0, wants |-> FALSE]]
  /\ delivered = [once |-> {}, again |-> {}]
  /\ excused = {} /\ torn = FALSE /\ faults = 0

Fault == faults < MaxFaults /\ faults' = faults + 1

-----------------------------------------------------------------------------
(* Scheduling.                                                             *)

\* The service updates the task, reminder or meeting and keeps what it wrote.
Edit(e, wants) ==
  LET v == entity.version + 1 IN
  /\ editor[e].pc = "idle"
  /\ v <= MaxEdits
  /\ entity' = [version |-> v, wants |-> wants]
  /\ editor' = [editor EXCEPT ![e] = [pc |-> "cancel", version |-> v, wants |-> wants]]
  /\ torn' = (torn \/ \E f \in Editors : editor[f].pc # "idle")
  /\ UNCHANGED <<rowVars, lane, history, faults, marking>>

\* The rows a change of the entity cancels.
Replaced == {n \in Notes : status[n] = "PENDING" /\ version[n] > 0}

\* cancelEntityNotifications; an entity that wants none is done with that.
CancelRows(e) ==
  /\ editor[e].pc = "cancel"
  /\ status' = [n \in Notes |-> IF n \in Replaced THEN "CANCELLED" ELSE status[n]]
  /\ lease' = [n \in Notes |-> IF n \in Replaced THEN "free" ELSE lease[n]]
  /\ token' = [n \in Notes |-> IF n \in Replaced THEN NoLane ELSE token[n]]
  /\ editor' = [editor EXCEPT ![e].pc = IF editor[e].wants THEN "create" ELSE "idle"]
  /\ UNCHANGED <<external, due, backoff, retries, version, lane, entity, torn, history, faults, marking>>

Fresh == {n \in Notes : status[n] = "none" /\ n \notin delivered.once}

Insert(S, v) ==
  /\ S \subseteq Fresh
  /\ status' = [n \in Notes |-> IF n \in S THEN "PENDING" ELSE status[n]]
  /\ version' = [n \in Notes |-> IF n \in S THEN v ELSE version[n]]
  /\ \E X \in SUBSET S : external' = [n \in Notes |-> IF n \in S THEN n \in X ELSE external[n]]
  /\ UNCHANGED <<due, backoff, retries, lease, token>>

\* One row per draft and channel in one transaction; none if the owner turned
\* the notifications of this type off.
CreateRows(e) ==
  /\ editor[e].pc = "create"
  /\ \E S \in SUBSET Notes : Insert(S, editor[e].version)
  /\ editor' = [editor EXCEPT ![e].pc = "idle"]
  /\ UNCHANGED <<lane, entity, torn, history, faults, marking>>

EditCut(e) ==
  /\ editor[e].pc # "idle"
  /\ Fault
  /\ editor' = [editor EXCEPT ![e].pc = "idle"]
  /\ torn' = TRUE
  /\ UNCHANGED <<rowVars, lane, entity, history, marking>>

\* scheduleAgentNotification: rows of no entity, replaced by nothing.
Announce(n) ==
  /\ Insert({n}, 0)
  /\ UNCHANGED <<lane, editVars, history, faults>>

ComesDue(n) ==
  /\ status[n] = "PENDING" /\ ~due[n]
  /\ due' = [due EXCEPT ![n] = TRUE]
  /\ UNCHANGED <<status, external, backoff, retries, lease, token, version,
                 lane, editVars, history, faults>>

\* A lease runs out under a lane that stopped, or under a slow one: a delivery
\* that takes longer than 120 s counts as a fault.
LeaseExpires(n) ==
  /\ lease[n] = "held"
  /\ IF \E l \in Lanes : token[n] = l /\ lane[l].note = n
       THEN Fault ELSE UNCHANGED faults
  /\ lease' = [lease EXCEPT ![n] = "expired"]
  /\ excused' = excused \cup {n}
  /\ UNCHANGED <<status, external, due, backoff, retries, token, version, lane,
                 editVars, delivered>>

BackoffOver(n) ==
  /\ backoff[n]
  /\ backoff' = [backoff EXCEPT ![n] = FALSE]
  /\ UNCHANGED <<status, external, due, retries, lease, token, version, lane,
                 editVars, history, faults>>

-----------------------------------------------------------------------------
(* The worker.                                                             *)

\* What the query of a tick returns: rows that are due and in nobody's hands.
Due == {n \in Notes : /\ status[n] = "PENDING" /\ due[n] /\ ~backoff[n]
                      /\ lease[n] # "held"}

\* The tick of an instance that is not processing one: it reads its batch and
\* gives each lane its rows. (No model has more rows than the 50 of a batch.)
Scan(i) ==
  /\ \A x \in BOOLEAN : lane[i, x].pc = "idle"
  /\ Due # {}
  /\ lane' = [l \in Lanes |->
       LET mine == {n \in Due : external[n] = l[2]} IN
       IF l[1] = i /\ mine # {}
         THEN [pc |-> "claim", note |-> NoNote, todo |-> mine,
               seen |-> [n \in Notes |-> IF n \in mine THEN retries[n] ELSE 0]]
         ELSE lane[l]]
  /\ UNCHANGED <<rowVars, editVars, history, faults>>

\* A lane goes on to a step of its row, or to the next row of its batch.
GoesTo(l, pc) == lane' = [lane EXCEPT ![l].pc = pc]
GoesOn(l, todo) ==
  lane' = [lane EXCEPT ![l] =
    IF todo = {} THEN Resting(NoneSeen)
    ELSE [pc |-> "claim", note |-> NoNote, todo |-> todo, seen |-> @.seen]]

\* The where clause of the claim; the variant trusts the batch it read.
ClaimableAsRead(n) == status[n] = "PENDING"
Claimable(n) == status[n] = "PENDING" /\ lease[n] # "held"

\* updateMany(PENDING, unclaimed or lease over -> claimedAt, claimToken).
Claim(l, n) ==
  LET rest == lane[l].todo \ {n} IN
  /\ lane[l].pc = "claim" /\ n \in lane[l].todo
  /\ \/ /\ Claimable(n)
        /\ lease' = [lease EXCEPT ![n] = "held"]
        /\ token' = [token EXCEPT ![n] = l]
        /\ lane' = [lane EXCEPT ![l].pc = "check", ![l].note = n, ![l].todo = rest]
     \/ /\ ~Claimable(n)
        /\ GoesOn(l, rest)
        /\ UNCHANGED <<lease, token>>
  /\ UNCHANGED <<status, external, due, backoff, retries, version, editVars, history, faults>>

\* The condition of every update after the claim; the variant is an
\* update by id, whatever has become of the row.
HoldsById(l, n) == status[n] # "none"
Holds(l, n) == status[n] = "PENDING" /\ token[n] = l

\* findFirst of the claimed row: it may be cancelled or taken over by now.
LiveCheck(l) ==
  LET n == lane[l].note IN
  /\ lane[l].pc = "check"
  /\ IF Holds(l, n) THEN GoesTo(l, "deliver") ELSE GoesOn(l, lane[l].todo)
  /\ UNCHANGED <<rowVars, editVars, history, faults>>

\* The adapter: an in-app row needs no effect and cannot fail; a message or a
\* push may fail, and may fail after it reached the owner.
Deliver(l) ==
  LET n == lane[l].note
      Reaches == delivered' =
        IF n \in delivered.once THEN [delivered EXCEPT !.again = @ \cup {n}]
                                ELSE [delivered EXCEPT !.once = @ \cup {n}]
  IN
  /\ lane[l].pc = "deliver"
  /\ \/ Reaches /\ GoesTo(l, "mark") /\ UNCHANGED excused
     \/ external[n] /\ Reaches /\ GoesTo(l, "fail") /\ excused' = excused \cup {n}
     \/ external[n] /\ GoesTo(l, "fail") /\ UNCHANGED <<delivered, excused>>
  /\ UNCHANGED <<rowVars, editVars, faults>>

\* updateMany(PENDING, own token -> SENT).
MarkSent(l) ==
  LET n == lane[l].note IN
  /\ lane[l].pc = "mark"
  /\ IF Holds(l, n)
       THEN /\ status' = [status EXCEPT ![n] = "SENT"]
            /\ lease' = [lease EXCEPT ![n] = "free"]
            /\ token' = [token EXCEPT ![n] = NoLane]
       ELSE UNCHANGED <<status, lease, token>>
  /\ GoesOn(l, lane[l].todo)
  /\ UNCHANGED <<external, due, backoff, retries, version, editVars, history, faults>>

\* The attempt that is the last one.
Exhausted(count) == count >= MaxRetries

\* catch: one more retry counted from the row as the batch read it.
RecordFailure(l) ==
  LET n == lane[l].note
      count == lane[l].seen[n] + 1
  IN
  /\ lane[l].pc = "fail"
  /\ IF Holds(l, n)
       THEN /\ status' = [status EXCEPT ![n] =
                            IF Exhausted(count) THEN "FAILED" ELSE "PENDING"]
            /\ retries' = [retries EXCEPT ![n] = count]
            /\ backoff' = [backoff EXCEPT ![n] = ~Exhausted(count)]
            /\ lease' = [lease EXCEPT ![n] = "free"]
            /\ token' = [token EXCEPT ![n] = NoLane]
       ELSE UNCHANGED <<status, retries, backoff, lease, token>>
  /\ GoesOn(l, lane[l].todo)
  /\ UNCHANGED <<external, due, version, editVars, delivered, excused, faults>>

\* A database error inside the try block counts as a failed delivery; one of
\* the claim or of the failure's own update ends the lane's batch.
DatabaseError(l) ==
  LET n == lane[l].note IN
  /\ Fault
  /\ \/ lane[l].pc \in {"check", "mark"} /\ GoesTo(l, "fail")
     \/ lane[l].pc \in {"claim", "fail"} /\ GoesOn(l, {})
  /\ excused' = IF n = NoNote THEN excused ELSE excused \cup {n}
  /\ UNCHANGED <<rowVars, editVars, delivered>>

\* The instance stops; its claims stay in the table until their lease is over.
Crash(i) ==
  LET lost == {n \in Notes : \E x \in BOOLEAN : lane[i, x].note = n} IN
  /\ \E x \in BOOLEAN : lane[i, x].pc # "idle"
  /\ Fault
  /\ lane' = [l \in Lanes |-> IF l[1] = i THEN Resting(NoneSeen) ELSE lane[l]]
  /\ excused' = excused \cup lost
  /\ UNCHANGED <<rowVars, editVars, delivered>>

-----------------------------------------------------------------------------
(* The owner's inbox: markRead, readAll, deleteForUser.                    *)

\* The rows the owner's clients know by id: those the inbox lists, and those a
\* web push named in its payload, whatever has become of them.
Known(n) == IF external[n] THEN n \in delivered.once ELSE status[n] \in {"SENT", "READ"}

\* markRead looks the row up ...
ReadLooks(n) ==
  /\ Known(n) /\ status[n] # "none" /\ marking[n] = "none"
  /\ marking' = [marking EXCEPT ![n] = status[n]]
  /\ UNCHANGED <<rowVars, lane, entity, editor, torn, history, faults>>

\* ... and updates it by id: SENT becomes READ, any other status is written
\* back as it was read, even if the row has moved on (or is gone: a 404). To
\* bring a row back to PENDING this way counts as a fault.
ReadWrites(n) ==
  LET written == IF marking[n] = "SENT" THEN "READ" ELSE marking[n] IN
  /\ marking[n] # "none"
  /\ marking' = [marking EXCEPT ![n] = "none"]
  /\ status' = [status EXCEPT ![n] = IF @ = "none" THEN @ ELSE written]
  /\ IF written = "PENDING" /\ status[n] \notin {"PENDING", "none"}
       THEN Fault /\ excused' = excused \cup {n} /\ torn' = TRUE
       ELSE UNCHANGED <<excused, torn, faults>>
  /\ UNCHANGED <<external, due, backoff, retries, lease, token, version, lane,
                 entity, editor, delivered>>

ReadAll ==
  LET unread == {n \in Notes : status[n] = "SENT" /\ ~external[n]} IN
  /\ unread # {}
  /\ status' = [n \in Notes |-> IF n \in unread THEN "READ" ELSE status[n]]
  /\ UNCHANGED <<external, due, backoff, retries, lease, token, version, lane,
                 editVars, history, faults>>

Delete(n) ==
  /\ Known(n) /\ status[n] # "none"
  /\ status' = [status EXCEPT ![n] = "none"]
  /\ UNCHANGED <<external, due, backoff, retries, lease, token, version, lane,
                 editVars, history, faults>>

LaneStep(l) ==
  \/ \E n \in Notes : Claim(l, n)
  \/ LiveCheck(l) \/ Deliver(l) \/ MarkSent(l) \/ RecordFailure(l)

Next ==
  \/ \E e \in Editors :
       \/ \E wants \in BOOLEAN : Edit(e, wants)
       \/ CancelRows(e) \/ CreateRows(e) \/ EditCut(e)
  \/ \E n \in Notes :
       \/ Announce(n) \/ ComesDue(n) \/ LeaseExpires(n) \/ BackoffOver(n)
       \/ ReadLooks(n) \/ ReadWrites(n) \/ Delete(n)
  \/ ReadAll
  \/ \E i \in Instances : Scan(i) \/ Crash(i)
  \/ \E l \in Lanes : LaneStep(l) \/ DatabaseError(l)

\* Ticks repeat every five seconds, a lane works its batch off, and time passes.
Fairness ==
  /\ \A i \in Instances : WF_vars(Scan(i))
  /\ \A l \in Lanes : WF_vars(LaneStep(l))
  /\ \A n \in Notes :
       WF_vars(ComesDue(n)) /\ WF_vars(LeaseExpires(n)) /\ WF_vars(BackoffOver(n))

Spec == Init /\ [][Next]_vars
FairSpec == Spec /\ Fairness

-----------------------------------------------------------------------------
(* Properties.                                                             *)

Final == {"SENT", "FAILED", "CANCELLED", "READ"}

\* Every variable holds a value of its type in the code.
TypeOK ==
  /\ status \in [Notes -> {"none", "PENDING"} \cup Final]
  /\ external \in [Notes -> BOOLEAN]
  /\ due \in [Notes -> BOOLEAN] /\ backoff \in [Notes -> BOOLEAN]
  /\ retries \in [Notes -> 0..MaxRetries + MaxFaults]
  /\ lease \in [Notes -> {"free", "held", "expired"}]
  /\ token \in [Notes -> Lanes \cup {NoLane}]
  /\ version \in [Notes -> 0..MaxEdits]
  /\ marking \in [Notes -> {"none", "PENDING"} \cup Final]
  /\ lane \in [Lanes -> [pc : {"idle", "claim", "check", "deliver", "mark", "fail"},
                         note : Notes \cup {NoNote}, todo : SUBSET Notes,
                         seen : [Notes -> 0..MaxRetries + MaxFaults]]]
  /\ entity \in [version : 0..MaxEdits, wants : BOOLEAN]
  /\ editor \in [Editors -> [pc : {"idle", "cancel", "create"},
                             version : 0..MaxEdits, wants : BOOLEAN]]
  /\ delivered \in [once : SUBSET Notes, again : SUBSET Notes]
  /\ excused \subseteq Notes /\ torn \in BOOLEAN
  /\ faults \in 0..MaxFaults

\* The owner gets a notification twice only for one of the reasons no lease
\* can rule out: a delivery outlived its lease, an instance stopped or could
\* not record it, the channel failed after the message was out, or a markRead
\* of a pushed row wrote an old status back.
DeliveredTwiceOnlyIfExcused == delivered.again \subseteq excused

\* What became of a row is final: no late answer of an instance that lost its
\* lease, or the row, brings it back or changes the outcome. (A markRead that
\* read a pushed row while it was PENDING does write that back.)
OutcomeIsFinal ==
  [][\A n \in Notes :
       status[n] \in Final =>
         \/ status'[n] = status[n]
         \/ marking[n] = "PENDING" /\ marking'[n] = "none" /\ status'[n] = "PENDING"
         \/ status[n] = "SENT" /\ status'[n] = "READ"
         \/ status'[n] = "none" /\ Known(n)]_vars

\* An entity at rest, whose changes never overlapped or were cut off (and no row
\* of which a markRead wrote back), has no
\* scheduled row left from an earlier version, and none if it wants none.
ScheduleFollowsEntity ==
  ~torn /\ (\A e \in Editors : editor[e].pc = "idle") =>
    \A n \in Notes : status[n] = "PENDING" /\ version[n] > 0 =>
      version[n] = entity.version /\ entity.wants

\* What the table keeps, however many instances work on it: no lease is outlived
\* without an excuse, and the rows of an entity are those of its last version.
RowsKept == TypeOK /\ DeliveredTwiceOnlyIfExcused /\ ScheduleFollowsEntity

\* Every scheduled row is delivered, given up or cancelled in the end, although
\* instances stop while they hold it.
EveryRowSettles == \A n \in Notes : []<>(status[n] # "PENDING")
=============================================================================
