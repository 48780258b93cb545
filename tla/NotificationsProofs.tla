------------------------- MODULE NotificationsProofs -------------------------
(***************************************************************************)
(* Proofs about what the owner is sent (MCNotifications).  Of the queue,   *)
(* for every set of rows, instances and editors and every bound: a row is  *)
(* delivered twice only for a reason, a change of the entity leaves no row *)
(* of an earlier version, and what became of a row is final.  Of the       *)
(* rounds, for any instances, days and calendars: a briefing and a         *)
(* suggestion come once, and meetings in conflict are noticed.             *)
(***************************************************************************)
EXTENDS MCNotifications, Sequences, FiniteSetTheorems, TLAPS

\* A lane has a row from its claim to the end of the row's step, and a row it
\* has was created.
AtWork ==
  \A l \in Lanes :
    /\ lane[l].pc \in {"idle", "claim"} <=> lane[l].note = NoNote
    /\ \A n \in Notes : lane[l].note = n => status[n] # "none" \/ n \in delivered.once

\* A scheduled row is in the hands of the one lane whose token it carries.
InHands(n) ==
  \A l \in Lanes : lane[l].note = n =>
    /\ status[n] = "PENDING" => token[n] = l /\ lease[n] = "held"
    /\ \A m \in Lanes : lane[m].note = n => m = l
Leased == \A n \in Notes : n \notin excused => InHands(n)

\* A row that reached its owner is at the mark of some lane or not scheduled
\* any more; a lane before its delivery has a row that did not.
ReachedOnce(n) ==
  /\ \A l \in Lanes :
       lane[l].note = n /\ lane[l].pc # "mark" => n \notin delivered.once
  /\ status[n] = "PENDING" /\ n \in delivered.once =>
       \E l \in Lanes : lane[l].note = n /\ lane[l].pc = "mark"
Reached == \A n \in Notes : n \notin excused => ReachedOnce(n)

\* What is marked, shown or read was delivered.
Shown ==
  /\ \A l \in Lanes : lane[l].pc = "mark" => lane[l].note \in delivered.once
  /\ \A n \in Notes :
       status[n] \in {"SENT", "READ"} \/ marking[n] # "none" => n \in delivered.once

\* A markRead that found an outcome writes it over the same one.
MarksOutcome ==
  \A n \in Notes : marking[n] \in Final =>
    \/ status[n] \in {marking[n], "none"}
    \/ marking[n] = "SENT" /\ status[n] = "READ"

\* Every attempt is counted once, but for the faults; no row is created twice.
Counted ==
  /\ \A n \in Notes :
       /\ retries[n] <= MaxRetries + faults
       /\ status[n] = "PENDING" => retries[n] < MaxRetries + faults
       /\ status[n] = "none" /\ n \notin delivered.once => retries[n] = 0
  /\ \A l \in Lanes, n \in Notes : lane[l].seen[n] < MaxRetries + faults

\* Changes that do not overlap: the one under way is of the last version, has
\* cancelled the rows of the others before it creates its own, and leaves the
\* schedule of its version.
OneChange ==
  ~torn =>
    /\ \A e, f \in Editors : editor[e].pc # "idle" /\ editor[f].pc # "idle" => e = f
    /\ \A e \in Editors : editor[e].pc # "idle" =>
         editor[e].version = entity.version /\ editor[e].wants = entity.wants
    /\ \A e \in Editors : editor[e].pc = "create" =>
         editor[e].wants /\ Replaced = {}

IInv == /\ TypeOK /\ AtWork /\ Leased /\ Reached /\ Shown /\ MarksOutcome
        /\ Counted /\ OneChange /\ ScheduleFollowsEntity
        /\ DeliveredTwiceOnlyIfExcused

-----------------------------------------------------------------------------
(* What the lanes do.                                                      *)

LaneState ==
  [pc : {"idle", "claim", "check", "deliver", "mark", "fail"},
   note : Notes \cup {NoNote}, todo : SUBSET Notes,
   seen : [Notes -> 0..MaxRetries + MaxFaults]]

\* One lane moves: to the next step of its row, or it is done with that.
Only(l) ==
  /\ lane' \in [Lanes -> LaneState]
  /\ \A m \in Lanes : m # l => lane'[m] = lane[m]
StepsTo(l, pc) ==
  lane'[l].pc = pc /\ lane'[l].note = lane[l].note /\ lane'[l].seen = lane[l].seen
Rests(l) ==
  /\ lane'[l].pc \in {"idle", "claim"} /\ lane'[l].note = NoNote
  /\ lane'[l].seen \in {lane[l].seen, NoneSeen}

\* The types of the lanes.
LEMMA LaneTypes ==
  ASSUME TypeOK
  PROVE  /\ lane \in [Lanes -> LaneState]
         /\ NoneSeen \in [Notes -> 0..MaxRetries + MaxFaults]
         /\ \A l \in Lanes :
              /\ lane[l].pc \in {"idle", "claim", "check", "deliver", "mark", "fail"}
              /\ lane[l].note \in Notes \cup {NoNote} /\ lane[l].todo \in SUBSET Notes
              /\ lane[l].seen \in [Notes -> 0..MaxRetries + MaxFaults]
BY NotificationQueueAssumption DEF TypeOK, LaneState, NoneSeen

LEMMA LaneGoesTo ==
  ASSUME TypeOK, NEW l \in Lanes,
         NEW pc \in {"check", "deliver", "mark", "fail"}, GoesTo(l, pc)
  PROVE  Only(l) /\ StepsTo(l, pc)
<1>1. lane \in [Lanes -> LaneState]
  BY LaneTypes
<1> QED BY <1>1 DEF GoesTo, LaneState, Only, StepsTo

LEMMA LaneGoesOn ==
  ASSUME TypeOK, NEW l \in Lanes, NEW todo \in SUBSET Notes, GoesOn(l, todo)
  PROVE  Only(l) /\ Rests(l)
<1>1. lane \in [Lanes -> LaneState]
  BY LaneTypes
<1>2. CASE todo = {}
  <2>1. lane' = [lane EXCEPT ![l] = Resting(NoneSeen)]
    BY <1>2 DEF GoesOn
  <2>2. Resting(NoneSeen) \in LaneState
    BY LaneTypes DEF Resting, LaneState
  <2> QED BY <1>1, <2>1, <2>2 DEF Resting, Only, Rests
<1>3. CASE todo # {}
  <2> DEFINE next == [pc |-> "claim", note |-> NoNote, todo |-> todo,
                      seen |-> lane[l].seen]
  <2>1. lane' = [lane EXCEPT ![l] = next]
    BY <1>3 DEF GoesOn
  <2>2. next \in LaneState
    BY LaneTypes DEF LaneState
  <2> QED BY <1>1, <2>1, <2>2 DEF Only, Rests
<1> QED BY <1>2, <1>3

\* A claim takes a row that nobody holds.
LEMMA ClaimDoes ==
  ASSUME TypeOK, NEW l \in Lanes, NEW n \in Notes, Claim(l, n)
  PROVE  /\ Only(l) /\ lane[l].pc = "claim"
         /\ UNCHANGED <<status, external, due, backoff, retries, version,
                        editVars, history, faults>>
         /\ \/ /\ status[n] = "PENDING" /\ lease[n] # "held"
               /\ lease' = [lease EXCEPT ![n] = "held"]
               /\ token' = [token EXCEPT ![n] = l]
               /\ lane'[l].pc = "check" /\ lane'[l].note = n
               /\ lane'[l].seen = lane[l].seen
            \/ Rests(l) /\ UNCHANGED <<lease, token>>
<1>1. lane \in [Lanes -> LaneState] /\ lane[l].todo \ {n} \in SUBSET Notes
  BY LaneTypes
<1>2. CASE Claimable(n)
  <2>1. lane' = [lane EXCEPT ![l].pc = "check", ![l].note = n,
                             ![l].todo = lane[l].todo \ {n}]
    BY <1>2 DEF Claim
  <2>2. /\ Only(l) /\ lane'[l].pc = "check" /\ lane'[l].note = n
        /\ lane'[l].seen = lane[l].seen
    <3> DEFINE next == [lane[l] EXCEPT !.pc = "check", !.note = n,
                                       !.todo = lane[l].todo \ {n}]
    <3>1. /\ next \in LaneState /\ next.pc = "check" /\ next.note = n
          /\ next.seen = lane[l].seen
      BY <1>1 DEF LaneState
    <3>2. lane' = [lane EXCEPT ![l] = next]
      BY <2>1, Zenon
    <3> HIDE DEF next
    <3> QED BY <1>1, <3>1, <3>2 DEF Only
  <2> QED BY <1>2, <2>2 DEF Claim, Claimable
<1>3. CASE ~Claimable(n)
  <2>1. GoesOn(l, lane[l].todo \ {n})
    BY <1>3 DEF Claim
  <2>2. Only(l) /\ Rests(l)
    BY <1>1, <2>1, LaneGoesOn
  <2> QED BY <1>3, <2>2 DEF Claim
<1> QED BY <1>2, <1>3

LEMMA LiveCheckDoes ==
  ASSUME TypeOK, NEW l \in Lanes, LiveCheck(l)
  PROVE  /\ Only(l) /\ lane[l].pc = "check"
         /\ Rests(l) \/ StepsTo(l, "deliver")
         /\ UNCHANGED <<rowVars, editVars, history, faults>>
<1>1. lane[l].todo \in SUBSET Notes
  BY LaneTypes
<1> QED BY <1>1, LaneGoesTo, LaneGoesOn DEF LiveCheck

LEMMA DeliverDoes ==
  ASSUME TypeOK, NEW l \in Lanes, Deliver(l)
  PROVE  /\ Only(l) /\ lane[l].pc = "deliver"
         /\ \/ StepsTo(l, "fail") /\ UNCHANGED <<delivered, excused>>
            \/ /\ \/ StepsTo(l, "mark") /\ UNCHANGED excused
                  \/ StepsTo(l, "fail") /\ excused' = excused \cup {lane[l].note}
               /\ delivered' =
                    IF lane[l].note \in delivered.once
                      THEN [delivered EXCEPT !.again = @ \cup {lane[l].note}]
                      ELSE [delivered EXCEPT !.once = @ \cup {lane[l].note}]
         /\ UNCHANGED <<rowVars, editVars, faults>>
BY LaneGoesTo DEF Deliver

LEMMA MarkSentDoes ==
  ASSUME TypeOK, NEW l \in Lanes, MarkSent(l)
  PROVE  /\ Only(l) /\ lane[l].pc = "mark" /\ Rests(l)
         /\ \/ /\ Holds(l, lane[l].note)
               /\ status' = [status EXCEPT ![lane[l].note] = "SENT"]
               /\ lease' = [lease EXCEPT ![lane[l].note] = "free"]
               /\ token' = [token EXCEPT ![lane[l].note] = NoLane]
            \/ ~Holds(l, lane[l].note) /\ UNCHANGED <<status, lease, token>>
         /\ UNCHANGED <<external, due, backoff, retries, version, editVars,
                        history, faults>>
<1>1. lane[l].todo \in SUBSET Notes
  BY LaneTypes
<1> QED BY <1>1, LaneGoesOn DEF MarkSent

LEMMA RecordFailureDoes ==
  ASSUME TypeOK, NEW l \in Lanes, RecordFailure(l)
  PROVE  /\ Only(l) /\ lane[l].pc = "fail" /\ Rests(l)
         /\ \/ /\ Holds(l, lane[l].note)
               /\ retries' = [retries EXCEPT ![lane[l].note] =
                                lane[l].seen[lane[l].note] + 1]
               /\ \E last \in BOOLEAN :
                    /\ last <=> lane[l].seen[lane[l].note] + 1 >= MaxRetries
                    /\ status' = [status EXCEPT ![lane[l].note] =
                                    IF last THEN "FAILED" ELSE "PENDING"]
                    /\ backoff' = [backoff EXCEPT ![lane[l].note] = ~last]
               /\ lease' = [lease EXCEPT ![lane[l].note] = "free"]
               /\ token' = [token EXCEPT ![lane[l].note] = NoLane]
            \/ /\ ~Holds(l, lane[l].note)
               /\ UNCHANGED <<status, retries, backoff, lease, token>>
         /\ UNCHANGED <<external, due, version, editVars, history, faults>>
<1>1. lane[l].todo \in SUBSET Notes
  BY LaneTypes
<1> QED BY <1>1, LaneGoesOn DEF RecordFailure, history, Exhausted

LEMMA DatabaseErrorDoes ==
  ASSUME TypeOK, NEW l \in Lanes, DatabaseError(l)
  PROVE  /\ Only(l) /\ Fault
         /\ \/ lane[l].pc \in {"check", "mark"} /\ StepsTo(l, "fail")
            \/ lane[l].pc \in {"claim", "fail"} /\ Rests(l)
         /\ excused' = excused \cup ({lane[l].note} \ {NoNote})
         /\ UNCHANGED <<rowVars, editVars, delivered>>
<1>1. {} \in SUBSET Notes
  OBVIOUS
<1>2. Only(l) /\ \/ lane[l].pc \in {"check", "mark"} /\ StepsTo(l, "fail")
                 \/ lane[l].pc \in {"claim", "fail"} /\ Rests(l)
  BY <1>1, LaneGoesTo, LaneGoesOn DEF DatabaseError
<1> QED BY <1>2 DEF DatabaseError

\* A tick gives rows to the lanes of its instance that rest, ...
LEMMA ScanDoes ==
  ASSUME TypeOK, NEW i \in Instances, Scan(i)
  PROVE  /\ lane' \in [Lanes -> LaneState]
         /\ \A l \in Lanes :
              \/ lane'[l] = lane[l]
              \/ /\ lane[l].pc = "idle" /\ lane'[l].pc = "claim"
                 /\ lane'[l].note = NoNote
                 /\ \A n \in Notes : \/ lane'[l].seen[n] = 0
                                     \/ /\ status[n] = "PENDING"
                                        /\ lane'[l].seen[n] = retries[n]
         /\ UNCHANGED <<rowVars, editVars, history, faults>>
<1> DEFINE mine(l) == {n \in Due : external[n] = l[2]}
           seen(l) == [n \in Notes |-> IF n \in mine(l) THEN retries[n] ELSE 0]
           claim(l) == [pc |-> "claim", note |-> NoNote, todo |-> mine(l),
                        seen |-> seen(l)]
<1>1. lane' = [l \in Lanes |-> IF l[1] = i /\ mine(l) # {} THEN claim(l) ELSE lane[l]]
  BY DEF Scan
<1>2. \A l \in Lanes : claim(l) \in LaneState
  <2> TAKE l \in Lanes
  <2>1. seen(l) \in [Notes -> 0..MaxRetries + MaxFaults]
    BY NotificationQueueAssumption DEF TypeOK
  <2>2. mine(l) \in SUBSET Notes
    BY DEF Due
  <2> HIDE DEF mine, seen
  <2> QED BY <2>1, <2>2 DEF LaneState
<1>3. \A l \in Lanes : l[1] = i => lane[l].pc = "idle"
  <2> TAKE l \in Lanes
  <2> SUFFICES ASSUME l[1] = i PROVE lane[l].pc = "idle"
    OBVIOUS
  <2>1. l[2] \in BOOLEAN /\ l = <<i, l[2]>>
    BY DEF Lanes
  <2> QED BY <2>1 DEF Scan
<1>4. \A n \in Due : status[n] = "PENDING"
  BY DEF Due
<1>5. lane' \in [Lanes -> LaneState]
  <2> HIDE DEF claim
  <2> QED BY <1>1, <1>2, LaneTypes
<1>6. ASSUME NEW l \in Lanes
      PROVE  \/ lane'[l] = lane[l]
             \/ /\ lane[l].pc = "idle" /\ lane'[l].pc = "claim"
                /\ lane'[l].note = NoNote
                /\ \A n \in Notes : \/ lane'[l].seen[n] = 0
                                    \/ /\ status[n] = "PENDING"
                                       /\ lane'[l].seen[n] = retries[n]
  <2>1. CASE l[1] = i /\ mine(l) # {}
    <3>1. lane'[l] = claim(l) /\ lane[l].pc = "idle"
      BY <1>1, <1>3, <2>1
    <3> QED BY <1>4, <3>1
  <2>2. CASE ~(l[1] = i /\ mine(l) # {})
    BY <1>1, <2>2
  <2> QED BY <2>1, <2>2
<1> QED BY <1>5, <1>6 DEF Scan

\* ... and a crash excuses the rows of those it stops.
LEMMA CrashDoes ==
  ASSUME TypeOK, NEW i \in Instances, Crash(i)
  PROVE  /\ lane' \in [Lanes -> LaneState]
         /\ \A l \in Lanes :
              \/ lane'[l] = lane[l]
              \/ /\ lane'[l].pc = "idle" /\ lane'[l].note = NoNote
                 /\ lane'[l].seen = NoneSeen
                 /\ lane[l].note \in Notes => lane[l].note \in excused'
         /\ Fault /\ excused \subseteq excused' /\ excused' \subseteq Notes
         /\ UNCHANGED <<rowVars, editVars, delivered>>
<1>1. lane' = [l \in Lanes |-> IF l[1] = i THEN Resting(NoneSeen) ELSE lane[l]]
  BY DEF Crash
<1>2. Resting(NoneSeen) \in LaneState
  BY LaneTypes DEF Resting, LaneState
<1>3. lane' \in [Lanes -> LaneState]
  BY <1>1, <1>2, LaneTypes
<1>4. ASSUME NEW l \in Lanes, l[1] = i, lane[l].note \in Notes
      PROVE  lane[l].note \in excused'
  <2>1. l[2] \in BOOLEAN /\ l = <<i, l[2]>>
    BY <1>4 DEF Lanes
  <2>2. lane[<<i, l[2]>>].note = lane[l].note
    BY <2>1
  <2>3. \E x \in BOOLEAN : lane[<<i, x>>].note = lane[l].note
    BY <2>1, <2>2
  <2> QED BY <1>4, <2>3 DEF Crash
<1>5. ASSUME NEW l \in Lanes
      PROVE  \/ lane'[l] = lane[l]
             \/ /\ lane'[l].pc = "idle" /\ lane'[l].note = NoNote
                /\ lane'[l].seen = NoneSeen
                /\ lane[l].note \in Notes => lane[l].note \in excused'
  BY <1>1, <1>4 DEF Resting
<1>6. excused \subseteq excused' /\ excused' \subseteq Notes
  BY DEF Crash, TypeOK
<1> QED BY <1>3, <1>5, <1>6 DEF Crash

\* The row of a delivery, if it reached the owner, is delivered once or again.
LEMMA DeliverReaches ==
  ASSUME TypeOK, NEW l \in Lanes, Deliver(l)
  PROVE  \/ lane'[l].pc = "fail" /\ UNCHANGED <<delivered, excused>>
         \/ /\ lane'[l].pc = "mark" \/ lane[l].note \in excused'
            /\ delivered'.once = delivered.once \cup {lane[l].note}
            /\ \/ delivered'.again = delivered.again
               \/ /\ lane[l].note \in delivered.once
                  /\ delivered'.again = delivered.again \cup {lane[l].note}
<1> DEFINE r == lane[l].note
<1>1. delivered \in [once : SUBSET Notes, again : SUBSET Notes]
  BY DEF TypeOK
<1>2. CASE StepsTo(l, "fail") /\ UNCHANGED <<delivered, excused>>
  BY <1>2 DEF StepsTo
<1>3. ASSUME \/ StepsTo(l, "mark") /\ UNCHANGED excused
             \/ StepsTo(l, "fail") /\ excused' = excused \cup {r},
             delivered' = IF r \in delivered.once
                            THEN [delivered EXCEPT !.again = @ \cup {r}]
                            ELSE [delivered EXCEPT !.once = @ \cup {r}]
      PROVE  /\ lane'[l].pc = "mark" \/ r \in excused'
             /\ delivered'.once = delivered.once \cup {r}
             /\ \/ delivered'.again = delivered.again
                \/ r \in delivered.once /\ delivered'.again = delivered.again \cup {r}
  <2>1. lane'[l].pc = "mark" \/ r \in excused'
    BY <1>3 DEF StepsTo
  <2> HIDE DEF r
  <2>2. CASE r \in delivered.once
    <3>1. delivered' = [delivered EXCEPT !.again = @ \cup {r}]
      BY <1>3, <2>2
    <3>2. delivered'.once = delivered.once /\ delivered'.again = delivered.again \cup {r}
      BY <1>1, <3>1
    <3> QED BY <2>1, <2>2, <3>2
  <2>3. CASE r \notin delivered.once
    <3>1. delivered' = [delivered EXCEPT !.once = @ \cup {r}]
      BY <1>3, <2>3
    <3>2. delivered'.once = delivered.once \cup {r} /\ delivered'.again = delivered.again
      BY <1>1, <3>1
    <3> QED BY <2>1, <3>2
  <2> QED BY <2>2, <2>3
<1> QED BY <1>2, <1>3, DeliverDoes

-----------------------------------------------------------------------------
(* What each step keeps.                                                   *)

\* A lane that goes on with its row, or rests, has a row that was created.
LEMMA AtWorkStays ==
  ASSUME TypeOK, AtWork, NEW l \in Lanes, Only(l),
         \/ Rests(l)
         \/ \E pc \in {"deliver", "mark", "fail"} :
              StepsTo(l, pc) /\ lane[l].pc \notin {"idle", "claim"},
         \A n \in Notes : status[n] # "none" => status'[n] # "none",
         delivered.once \subseteq delivered'.once
  PROVE  AtWork'
<1>1. ASSUME NEW m \in Lanes
      PROVE  /\ lane'[m].pc \in {"idle", "claim"} <=> lane'[m].note = NoNote
             /\ lane'[m].note \in {lane[m].note, NoNote}
  <2>1. CASE m # l
    BY <2>1 DEF Only, AtWork
  <2>2. CASE m = l
    BY <2>2 DEF Rests, StepsTo, AtWork
  <2> QED BY <2>1, <2>2
<1> QED BY <1>1, NotificationQueueAssumption DEF AtWork

\* A lane has a row from its claim on, and one that was created.
LEMMA AtWorkStep ==
  ASSUME TypeOK, AtWork, Shown, [Next]_vars
  PROVE  AtWork'
<1>1. ASSUME NEW e \in Editors, NEW wants \in BOOLEAN, Edit(e, wants) PROVE
      AtWork'
  BY <1>1, NotificationQueueAssumption DEF Edit, rowVars, history, TypeOK,
      AtWork, Shown
<1>2. ASSUME NEW e \in Editors, CancelRows(e) PROVE AtWork'
  BY <1>2, NotificationQueueAssumption DEF CancelRows, Replaced, history, TypeOK,
      AtWork, Shown
<1>3. ASSUME NEW e \in Editors, CreateRows(e) PROVE AtWork'
  BY <1>3, NotificationQueueAssumption DEF CreateRows, Insert, Fresh, history,
      TypeOK, AtWork, Shown
<1>4. ASSUME NEW e \in Editors, EditCut(e) PROVE AtWork'
  BY <1>4, NotificationQueueAssumption DEF EditCut, Fault, rowVars, history,
      TypeOK, AtWork, Shown
<1>5. ASSUME NEW n \in Notes, Announce(n) PROVE AtWork'
  BY <1>5, NotificationQueueAssumption DEF Announce, Insert, Fresh, editVars,
      history, TypeOK, AtWork, Shown
<1>6. ASSUME NEW n \in Notes, ComesDue(n) PROVE AtWork'
  BY <1>6, NotificationQueueAssumption DEF ComesDue, editVars, history, TypeOK,
      AtWork, Shown
<1>7. ASSUME NEW n \in Notes, LeaseExpires(n) PROVE AtWork'
  BY <1>7, NotificationQueueAssumption DEF LeaseExpires, Fault, editVars, TypeOK,
      AtWork, Shown
<1>8. ASSUME NEW n \in Notes, BackoffOver(n) PROVE AtWork'
  BY <1>8, NotificationQueueAssumption DEF BackoffOver, editVars, history,
      TypeOK, AtWork, Shown
<1>9. ASSUME NEW n \in Notes, ReadLooks(n) PROVE AtWork'
  BY <1>9, NotificationQueueAssumption DEF ReadLooks, Known, rowVars, history,
      TypeOK, AtWork, Shown
<1>10. ASSUME NEW n \in Notes, ReadWrites(n) PROVE AtWork'
  BY <1>10, NotificationQueueAssumption DEF ReadWrites, Fault, TypeOK, AtWork,
      Shown
<1>11. ASSUME NEW n \in Notes, Delete(n) PROVE AtWork'
  BY <1>11, NotificationQueueAssumption DEF Delete, Known, editVars, history,
      TypeOK, AtWork, Shown
<1>12. CASE ReadAll
  BY <1>12, NotificationQueueAssumption DEF ReadAll, editVars, history, TypeOK,
      AtWork, Shown
<1>13. ASSUME NEW i \in Instances, Scan(i) PROVE AtWork'
  <2>1. UNCHANGED <<status, delivered>>
    BY <1>13, ScanDoes DEF rowVars, history
  <2>2. \A m \in Lanes : /\ lane'[m].pc \in {"idle", "claim"} <=> lane'[m].note = NoNote
                         /\ lane'[m].note \in {lane[m].note, NoNote}
    BY <1>13, ScanDoes DEF AtWork
  <2>3. ASSUME NEW m \in Lanes, NEW n \in Notes, lane'[m].note = n
        PROVE  status'[n] # "none" \/ n \in delivered'.once
    <3>1. lane[m].note = n
      BY <2>2, <2>3, NotificationQueueAssumption
    <3>2. status[n] # "none" \/ n \in delivered.once
      BY <3>1 DEF AtWork
    <3> QED BY <2>1, <3>2
  <2> QED BY <2>2, <2>3 DEF AtWork
<1>14. ASSUME NEW i \in Instances, Crash(i) PROVE AtWork'
  <2>1. UNCHANGED <<status, delivered>>
    BY <1>14, CrashDoes DEF rowVars
  <2>2. \A m \in Lanes : \/ lane'[m] = lane[m]
                         \/ lane'[m].pc = "idle" /\ lane'[m].note = NoNote
    BY <1>14, CrashDoes
  <2>3. \A m \in Lanes : lane'[m].pc \in {"idle", "claim"} <=> lane'[m].note = NoNote
    <3> SUFFICES ASSUME NEW m \in Lanes
                 PROVE  lane'[m].pc \in {"idle", "claim"} <=> lane'[m].note = NoNote
      OBVIOUS
    <3>1. lane[m].pc \in {"idle", "claim"} <=> lane[m].note = NoNote
      BY DEF AtWork
    <3> QED BY <2>2, <3>1
  <2>4. ASSUME NEW m \in Lanes, NEW n \in Notes, lane'[m].note = n
        PROVE  status'[n] # "none" \/ n \in delivered'.once
    <3>1. lane[m].note = n
      BY <2>2, <2>4, NotificationQueueAssumption
    <3>2. status[n] # "none" \/ n \in delivered.once
      BY <3>1 DEF AtWork
    <3> QED BY <2>1, <3>2
  <2> QED BY <2>3, <2>4 DEF AtWork
<1>15. ASSUME NEW l \in Lanes, NEW n \in Notes, Claim(l, n) PROVE AtWork'
  BY <1>15, ClaimDoes, LaneTypes, NotificationQueueAssumption DEF Only, Rests,
      StepsTo, NoneSeen, rowVars, editVars, history, TypeOK, AtWork, Shown
<1>16. ASSUME NEW l \in Lanes, LiveCheck(l) PROVE AtWork'
  <2>1. /\ Only(l)
        /\ \/ Rests(l)
           \/ \E pc \in {"deliver", "mark", "fail"} :
                StepsTo(l, pc) /\ lane[l].pc \notin {"idle", "claim"}
    BY <1>16, LiveCheckDoes
  <2>2. \A n \in Notes : status[n] # "none" => status'[n] # "none"
    BY <1>16, LiveCheckDoes DEF rowVars, TypeOK
  <2>3. delivered.once \subseteq delivered'.once
    BY <1>16, LiveCheckDoes DEF history, TypeOK
  <2> QED BY <2>1, <2>2, <2>3, AtWorkStays
<1>17. ASSUME NEW l \in Lanes, Deliver(l) PROVE AtWork'
  <2>1. /\ Only(l)
        /\ \/ Rests(l)
           \/ \E pc \in {"deliver", "mark", "fail"} :
                StepsTo(l, pc) /\ lane[l].pc \notin {"idle", "claim"}
    BY <1>17, DeliverDoes
  <2>2. \A n \in Notes : status[n] # "none" => status'[n] # "none"
    BY <1>17, DeliverDoes DEF rowVars, TypeOK
  <2>3. delivered.once \subseteq delivered'.once
    BY <1>17, DeliverDoes DEF history, TypeOK
  <2> QED BY <2>1, <2>2, <2>3, AtWorkStays
<1>18. ASSUME NEW l \in Lanes, MarkSent(l) PROVE AtWork'
  <2>1. /\ Only(l)
        /\ \/ Rests(l)
           \/ \E pc \in {"deliver", "mark", "fail"} :
                StepsTo(l, pc) /\ lane[l].pc \notin {"idle", "claim"}
    BY <1>18, MarkSentDoes
  <2>2. \A n \in Notes : status[n] # "none" => status'[n] # "none"
    BY <1>18, MarkSentDoes DEF rowVars, TypeOK
  <2>3. delivered.once \subseteq delivered'.once
    BY <1>18, MarkSentDoes DEF history, TypeOK
  <2> QED BY <2>1, <2>2, <2>3, AtWorkStays
<1>19. ASSUME NEW l \in Lanes, RecordFailure(l) PROVE AtWork'
  <2>1. /\ Only(l)
        /\ \/ Rests(l)
           \/ \E pc \in {"deliver", "mark", "fail"} :
                StepsTo(l, pc) /\ lane[l].pc \notin {"idle", "claim"}
    BY <1>19, RecordFailureDoes
  <2>2. \A n \in Notes : status[n] # "none" => status'[n] # "none"
    BY <1>19, RecordFailureDoes DEF rowVars, TypeOK
  <2>3. delivered.once \subseteq delivered'.once
    BY <1>19, RecordFailureDoes DEF history, TypeOK
  <2> QED BY <2>1, <2>2, <2>3, AtWorkStays
<1>20. ASSUME NEW l \in Lanes, DatabaseError(l) PROVE AtWork'
  <2>1. /\ Only(l)
        /\ \/ Rests(l)
           \/ \E pc \in {"deliver", "mark", "fail"} :
                StepsTo(l, pc) /\ lane[l].pc \notin {"idle", "claim"}
    BY <1>20, DatabaseErrorDoes
  <2>2. \A n \in Notes : status[n] # "none" => status'[n] # "none"
    BY <1>20, DatabaseErrorDoes DEF rowVars, TypeOK
  <2>3. delivered.once \subseteq delivered'.once
    BY <1>20, DatabaseErrorDoes DEF history, TypeOK
  <2> QED BY <2>1, <2>2, <2>3, AtWorkStays
<1>21. CASE UNCHANGED vars
  BY <1>21 DEF vars, rowVars, editVars, history,
         TypeOK, AtWork, Shown
<1> QED BY <1>1, <1>2, <1>3, <1>4, <1>5, <1>6, <1>7, <1>8, <1>9, <1>10, <1>11,
           <1>12, <1>13, <1>14, <1>15, <1>16, <1>17, <1>18, <1>19, <1>20,
           <1>21 DEF Next, LaneStep

\* A row stays in the hands of its lane if no lane gets one and the row of a
\* lane is scheduled, if it is, as it was.
LEMMA LeasedStays ==
  ASSUME Leased, excused \subseteq excused',
         \A m \in Lanes : lane'[m].note \in {lane[m].note, NoNote},
         \A n \in Notes, m \in Lanes :
           n \notin excused' /\ lane[m].note = n /\ lane'[m].note = n
           /\ status'[n] = "PENDING"
           => status[n] = "PENDING" /\ token'[n] = token[n] /\ lease'[n] = lease[n]
  PROVE  Leased'
<1> SUFFICES ASSUME NEW n \in Notes, n \notin excused', NEW l \in Lanes,
                    lane'[l].note = n
             PROVE  /\ status'[n] = "PENDING" => token'[n] = l /\ lease'[n] = "held"
                    /\ \A m \in Lanes : lane'[m].note = n => m = l
  BY DEF Leased, InHands
<1>1. \A m \in Lanes : lane'[m].note = n => lane[m].note = n
  BY NotificationQueueAssumption
<1>2. InHands(n)
  BY DEF Leased
<1> QED BY <1>1, <1>2 DEF InHands

\* A scheduled row is in the hands of one lane.
LEMMA LeasedStep ==
  ASSUME TypeOK, AtWork, Leased, [Next]_vars
  PROVE  Leased'
<1>1. ASSUME NEW e \in Editors, NEW wants \in BOOLEAN, Edit(e, wants) PROVE
      Leased'
  BY <1>1, NotificationQueueAssumption DEF Edit, rowVars, history, TypeOK,
      AtWork, Leased, InHands
<1>2. ASSUME NEW e \in Editors, CancelRows(e) PROVE Leased'
  BY <1>2, NotificationQueueAssumption DEF CancelRows, Replaced, history, TypeOK,
      AtWork, Leased, InHands
<1>3. ASSUME NEW e \in Editors, CreateRows(e) PROVE Leased'
  <2>1. PICK S \in SUBSET Notes : Insert(S, editor[e].version)
    BY <1>3 DEF CreateRows
  <2>2. \A n \in Notes, m \in Lanes : lane[m].note = n => n \notin S
    BY <2>1 DEF Insert, Fresh, AtWork
  <2>3. /\ UNCHANGED <<lane, lease, token, excused>>
        /\ \A n \in Notes : n \notin S => status'[n] = status[n]
    BY <1>3, <2>1 DEF CreateRows, Insert, history
  <2> QED BY <2>2, <2>3, LeasedStays
<1>4. ASSUME NEW e \in Editors, EditCut(e) PROVE Leased'
  BY <1>4, NotificationQueueAssumption DEF EditCut, Fault, rowVars, history,
      TypeOK, AtWork, Leased, InHands
<1>5. ASSUME NEW n \in Notes, Announce(n) PROVE Leased'
  BY <1>5, NotificationQueueAssumption DEF Announce, Insert, Fresh, editVars,
      history, TypeOK, AtWork, Leased, InHands
<1>6. ASSUME NEW n \in Notes, ComesDue(n) PROVE Leased'
  BY <1>6, NotificationQueueAssumption DEF ComesDue, editVars, history, TypeOK,
      AtWork, Leased, InHands
<1>7. ASSUME NEW n \in Notes, LeaseExpires(n) PROVE Leased'
  BY <1>7, NotificationQueueAssumption DEF LeaseExpires, Fault, editVars, TypeOK,
      AtWork, Leased, InHands
<1>8. ASSUME NEW n \in Notes, BackoffOver(n) PROVE Leased'
  BY <1>8, NotificationQueueAssumption DEF BackoffOver, editVars, history,
      TypeOK, AtWork, Leased, InHands
<1>9. ASSUME NEW n \in Notes, ReadLooks(n) PROVE Leased'
  BY <1>9, NotificationQueueAssumption DEF ReadLooks, Known, rowVars, history,
      TypeOK, AtWork, Leased, InHands
<1>10. ASSUME NEW n \in Notes, ReadWrites(n) PROVE Leased'
  BY <1>10, NotificationQueueAssumption DEF ReadWrites, Fault, TypeOK, AtWork,
      Leased, InHands
<1>11. ASSUME NEW n \in Notes, Delete(n) PROVE Leased'
  BY <1>11, NotificationQueueAssumption DEF Delete, Known, editVars, history,
      TypeOK, AtWork, Leased, InHands
<1>12. CASE ReadAll
  BY <1>12, NotificationQueueAssumption DEF ReadAll, editVars, history, TypeOK,
      AtWork, Leased, InHands
<1>13. ASSUME NEW i \in Instances, Scan(i) PROVE Leased'
  <2>1. \A m \in Lanes : lane'[m].note \in {lane[m].note, NoNote}
    BY <1>13, ScanDoes DEF Only, Rests, StepsTo
  <2>2. UNCHANGED <<status, token, lease>> /\ excused \subseteq excused'
    BY <1>13, ScanDoes DEF rowVars, history
  <2> QED BY <2>1, <2>2, LeasedStays
<1>14. ASSUME NEW i \in Instances, Crash(i) PROVE Leased'
  <2>1. \A m \in Lanes : lane'[m].note \in {lane[m].note, NoNote}
    BY <1>14, CrashDoes DEF Only, Rests, StepsTo
  <2>2. UNCHANGED <<status, token, lease>> /\ excused \subseteq excused'
    BY <1>14, CrashDoes DEF rowVars, history
  <2> QED BY <2>1, <2>2, LeasedStays
<1>15. ASSUME NEW l \in Lanes, NEW n \in Notes, Claim(l, n) PROVE Leased'
  <2>1. Only(l) /\ lane[l].pc = "claim" /\ UNCHANGED <<status, excused>>
    BY <1>15, ClaimDoes DEF history
  <2>2. \A m \in Lanes : m # l => lane'[m] = lane[m]
    BY <2>1 DEF Only
  <2>3. CASE Rests(l) /\ UNCHANGED <<lease, token>>
    <3>1. \A m \in Lanes : lane'[m].note \in {lane[m].note, NoNote}
      BY <2>2, <2>3 DEF Rests
    <3> QED BY <2>1, <2>3, <3>1, LeasedStays
  <2>4. ASSUME status[n] = "PENDING", lease[n] # "held", lane'[l].note = n,
               lease' = [lease EXCEPT ![n] = "held"],
               token' = [token EXCEPT ![n] = l]
        PROVE  Leased'
    <3> SUFFICES ASSUME NEW k \in Notes, k \notin excused PROVE InHands(k)'
      BY <2>1 DEF Leased
    <3>1. lane[l].note = NoNote /\ NoNote \notin Notes
      BY <2>1, NotificationQueueAssumption DEF AtWork
    <3>2. InHands(k)
      BY DEF Leased
    <3>3. CASE k # n
      <4>1. \A m \in Lanes : lane'[m].note = k => lane[m].note = k
        BY <2>2, <2>4, <3>3
      <4>2. token'[k] = token[k] /\ lease'[k] = lease[k] /\ status'[k] = status[k]
        BY <2>1, <2>4, <3>3 DEF TypeOK
      <4> QED BY <3>2, <4>1, <4>2 DEF InHands
    <3>4. CASE k = n
      <4>1. \A m \in Lanes : lane[m].note # n
        BY <2>4, <3>2, <3>4 DEF InHands
      <4>2. \A m \in Lanes : lane'[m].note = n => m = l
        BY <2>2, <4>1
      <4>3. token'[n] = l /\ lease'[n] = "held"
        BY <2>4 DEF TypeOK
      <4> QED BY <3>4, <4>2, <4>3 DEF InHands
    <3> QED BY <3>3, <3>4
  <2> QED BY <1>15, <2>3, <2>4, ClaimDoes
<1>16. ASSUME NEW l \in Lanes, LiveCheck(l) PROVE Leased'
  <2>1. \A m \in Lanes : lane'[m].note \in {lane[m].note, NoNote}
    BY <1>16, LiveCheckDoes DEF Only, Rests, StepsTo
  <2>2. UNCHANGED <<status, token, lease>> /\ excused \subseteq excused'
    BY <1>16, LiveCheckDoes DEF rowVars, history
  <2> QED BY <2>1, <2>2, LeasedStays
<1>17. ASSUME NEW l \in Lanes, Deliver(l) PROVE Leased'
  <2>1. \A m \in Lanes : lane'[m].note \in {lane[m].note, NoNote}
    BY <1>17, DeliverDoes DEF Only, Rests, StepsTo
  <2>2. UNCHANGED <<status, token, lease>>
    BY <1>17, DeliverDoes DEF rowVars
  <2>3. excused \subseteq excused'
    BY <1>17, DeliverDoes
  <2> QED BY <2>1, <2>2, <2>3, LeasedStays
<1>18. ASSUME NEW l \in Lanes, MarkSent(l) PROVE Leased'
  <2> DEFINE r == lane[l].note
  <2>1. lane'[l].note = NoNote /\ \A m \in Lanes : m # l => lane'[m] = lane[m]
    BY <1>18, MarkSentDoes DEF Only, Rests
  <2>2. /\ excused' = excused
        /\ \A k \in Notes : k # r => /\ status'[k] = status[k]
                                     /\ token'[k] = token[k] /\ lease'[k] = lease[k]
    BY <1>18, MarkSentDoes DEF history, TypeOK
  <2>3. \A k \in Notes, m \in Lanes :
          k \notin excused /\ lane[m].note = k /\ lane'[m].note = k => k # r
    BY <2>1, NotificationQueueAssumption DEF Leased, InHands
  <2> QED BY <2>1, <2>2, <2>3, LeasedStays
<1>19. ASSUME NEW l \in Lanes, RecordFailure(l) PROVE Leased'
  <2> DEFINE r == lane[l].note
  <2>1. lane'[l].note = NoNote /\ \A m \in Lanes : m # l => lane'[m] = lane[m]
    BY <1>19, RecordFailureDoes DEF Only, Rests
  <2>2. /\ excused' = excused
        /\ \A k \in Notes : k # r => /\ status'[k] = status[k]
                                     /\ token'[k] = token[k] /\ lease'[k] = lease[k]
    BY <1>19, RecordFailureDoes DEF history, TypeOK
  <2>3. \A k \in Notes, m \in Lanes :
          k \notin excused /\ lane[m].note = k /\ lane'[m].note = k => k # r
    BY <2>1, NotificationQueueAssumption DEF Leased, InHands
  <2> QED BY <2>1, <2>2, <2>3, LeasedStays
<1>20. ASSUME NEW l \in Lanes, DatabaseError(l) PROVE Leased'
  <2>1. \A m \in Lanes : lane'[m].note \in {lane[m].note, NoNote}
    BY <1>20, DatabaseErrorDoes DEF Only, Rests, StepsTo
  <2>2. UNCHANGED <<status, token, lease>> /\ excused \subseteq excused'
    BY <1>20, DatabaseErrorDoes DEF rowVars, history
  <2> QED BY <2>1, <2>2, LeasedStays
<1>21. CASE UNCHANGED vars
  BY <1>21 DEF vars, rowVars, editVars, history,
         TypeOK, AtWork, Leased, InHands
<1> QED BY <1>1, <1>2, <1>3, <1>4, <1>5, <1>6, <1>7, <1>8, <1>9, <1>10, <1>11,
           <1>12, <1>13, <1>14, <1>15, <1>16, <1>17, <1>18, <1>19, <1>20,
           <1>21 DEF Next, LaneStep

\* What was delivered is at the mark still if no row is delivered, claimed or
\* scheduled anew, and no lane leaves the mark with its row as it was.
LEMMA ReachedStays ==
  ASSUME Reached, excused \subseteq excused', delivered' = delivered,
         \A m \in Lanes : lane'[m].note \in {lane[m].note, NoNote},
         \A n \in Notes, m \in Lanes :
           n \notin excused' /\ lane'[m].note = n /\ lane'[m].pc # "mark" =>
             lane[m].pc # "mark",
         \A n \in Notes : n \notin excused' /\ status'[n] = "PENDING" =>
           /\ status[n] = "PENDING"
           /\ \A m \in Lanes : lane[m].note = n /\ lane[m].pc = "mark" =>
                               lane'[m].note = n /\ lane'[m].pc = "mark"
  PROVE  Reached'
<1> SUFFICES ASSUME NEW n \in Notes, n \notin excused' PROVE ReachedOnce(n)'
  BY DEF Reached
<1>1. ReachedOnce(n)
  BY DEF Reached
<1>2. \A m \in Lanes : lane'[m].note = n => lane[m].note = n
  BY NotificationQueueAssumption
<1> QED BY <1>1, <1>2 DEF ReachedOnce

\* A row that was delivered is marked next, or excused.
LEMMA ReachedStep ==
  ASSUME TypeOK, AtWork, Leased, Reached, [Next]_vars
  PROVE  Reached'
<1>1. ASSUME NEW e \in Editors, NEW wants \in BOOLEAN, Edit(e, wants) PROVE
      Reached'
  BY <1>1, NotificationQueueAssumption DEF Edit, rowVars, history, TypeOK,
      AtWork, Reached, ReachedOnce
<1>2. ASSUME NEW e \in Editors, CancelRows(e) PROVE Reached'
  BY <1>2, NotificationQueueAssumption DEF CancelRows, Replaced, history, TypeOK,
      AtWork, Reached, ReachedOnce
<1>3. ASSUME NEW e \in Editors, CreateRows(e) PROVE Reached'
  BY <1>3, NotificationQueueAssumption DEF CreateRows, Insert, Fresh, history,
      TypeOK, AtWork, Reached, ReachedOnce
<1>4. ASSUME NEW e \in Editors, EditCut(e) PROVE Reached'
  BY <1>4, NotificationQueueAssumption DEF EditCut, Fault, rowVars, history,
      TypeOK, AtWork, Reached, ReachedOnce
<1>5. ASSUME NEW n \in Notes, Announce(n) PROVE Reached'
  BY <1>5, NotificationQueueAssumption DEF Announce, Insert, Fresh, editVars,
      history, TypeOK, AtWork, Reached, ReachedOnce
<1>6. ASSUME NEW n \in Notes, ComesDue(n) PROVE Reached'
  BY <1>6, NotificationQueueAssumption DEF ComesDue, editVars, history, TypeOK,
      AtWork, Reached, ReachedOnce
<1>7. ASSUME NEW n \in Notes, LeaseExpires(n) PROVE Reached'
  BY <1>7, NotificationQueueAssumption DEF LeaseExpires, Fault, editVars, TypeOK,
      AtWork, Reached, ReachedOnce
<1>8. ASSUME NEW n \in Notes, BackoffOver(n) PROVE Reached'
  BY <1>8, NotificationQueueAssumption DEF BackoffOver, editVars, history,
      TypeOK, AtWork, Reached, ReachedOnce
<1>9. ASSUME NEW n \in Notes, ReadLooks(n) PROVE Reached'
  BY <1>9, NotificationQueueAssumption DEF ReadLooks, Known, rowVars, history,
      TypeOK, AtWork, Reached, ReachedOnce
<1>10. ASSUME NEW n \in Notes, ReadWrites(n) PROVE Reached'
  BY <1>10, NotificationQueueAssumption DEF ReadWrites, Fault, TypeOK, AtWork,
      Reached, ReachedOnce
<1>11. ASSUME NEW n \in Notes, Delete(n) PROVE Reached'
  BY <1>11, NotificationQueueAssumption DEF Delete, Known, editVars, history,
      TypeOK, AtWork, Reached, ReachedOnce
<1>12. CASE ReadAll
  BY <1>12, NotificationQueueAssumption DEF ReadAll, editVars, history, TypeOK,
      AtWork, Reached, ReachedOnce
<1>13. ASSUME NEW i \in Instances, Scan(i) PROVE Reached'
  <2>1. \A m \in Lanes : lane'[m].note \in {lane[m].note, NoNote}
    BY <1>13, ScanDoes DEF Only, Rests, StepsTo
  <2>2. delivered' = delivered /\ excused \subseteq excused'
    BY <1>13, ScanDoes DEF history
  <2>3. \A n \in Notes, m \in Lanes :
          n \notin excused' /\ lane'[m].note = n /\ lane'[m].pc # "mark" =>
            lane[m].pc # "mark"
    BY <1>13, ScanDoes, LaneTypes, NotificationQueueAssumption
    DEF Only, Rests, StepsTo
  <2>4. \A n \in Notes : status'[n] = "PENDING" => status[n] = "PENDING"
    BY <1>13, ScanDoes DEF rowVars, Holds, TypeOK
  <2>5. \A n \in Notes, m \in Lanes :
          /\ n \notin excused' /\ status'[n] = "PENDING"
          /\ lane[m].note = n /\ lane[m].pc = "mark"
          => lane'[m].note = n /\ lane'[m].pc = "mark"
    BY <1>13, ScanDoes, NotificationQueueAssumption DEF Only
  <2> QED BY <2>1, <2>2, <2>3, <2>4, <2>5, ReachedStays
<1>14. ASSUME NEW i \in Instances, Crash(i) PROVE Reached'
  <2>1. \A m \in Lanes : lane'[m].note \in {lane[m].note, NoNote}
    BY <1>14, CrashDoes DEF Only, Rests, StepsTo
  <2>2. delivered' = delivered /\ excused \subseteq excused'
    BY <1>14, CrashDoes DEF history
  <2>3. \A n \in Notes, m \in Lanes :
          n \notin excused' /\ lane'[m].note = n /\ lane'[m].pc # "mark" =>
            lane[m].pc # "mark"
    BY <1>14, CrashDoes, LaneTypes, NotificationQueueAssumption
    DEF Only, Rests, StepsTo
  <2>4. \A n \in Notes : status'[n] = "PENDING" => status[n] = "PENDING"
    BY <1>14, CrashDoes DEF rowVars, Holds, TypeOK
  <2>5. \A n \in Notes, m \in Lanes :
          /\ n \notin excused' /\ status'[n] = "PENDING"
          /\ lane[m].note = n /\ lane[m].pc = "mark"
          => lane'[m].note = n /\ lane'[m].pc = "mark"
    BY <1>14, CrashDoes, NotificationQueueAssumption DEF Only
  <2> QED BY <2>1, <2>2, <2>3, <2>4, <2>5, ReachedStays
<1>15. ASSUME NEW l \in Lanes, NEW n \in Notes, Claim(l, n) PROVE Reached'
  <2>1. /\ Only(l) /\ lane[l].pc = "claim"
        /\ UNCHANGED <<status, excused, delivered>>
    BY <1>15, ClaimDoes DEF history
  <2>2. /\ \A m \in Lanes : m # l => lane'[m] = lane[m]
        /\ lane[l].note = NoNote /\ NoNote \notin Notes
    BY <2>1, NotificationQueueAssumption DEF Only, AtWork
  <2>3. \/ lane'[l].note = NoNote
        \/ /\ status[n] = "PENDING" /\ lease[n] # "held"
           /\ lane'[l].note = n /\ lane'[l].pc = "check"
    BY <1>15, ClaimDoes DEF Rests
  <2> SUFFICES ASSUME NEW k \in Notes, k \notin excused PROVE ReachedOnce(k)'
    BY <2>1 DEF Reached
  <2>4. ReachedOnce(k) /\ InHands(k)
    BY DEF Reached, Leased
  <2>5. CASE lane'[l].note # k
    BY <2>1, <2>2, <2>4, <2>5 DEF ReachedOnce
  <2>6. CASE lane'[l].note = k
    <3>1. k = n /\ status[k] = "PENDING" /\ lease[k] # "held" /\ lane'[l].pc = "check"
      BY <2>2, <2>3, <2>6
    <3>2. \A m \in Lanes : lane[m].note # k
      BY <2>4, <3>1 DEF InHands
    <3>3. k \notin delivered.once
      BY <2>4, <3>1, <3>2 DEF ReachedOnce
    <3> QED BY <2>1, <3>3 DEF ReachedOnce
  <2> QED BY <2>5, <2>6
<1>16. ASSUME NEW l \in Lanes, LiveCheck(l) PROVE Reached'
  <2>1. \A m \in Lanes : lane'[m].note \in {lane[m].note, NoNote}
    BY <1>16, LiveCheckDoes DEF Only, Rests, StepsTo
  <2>2. delivered' = delivered /\ excused \subseteq excused'
    BY <1>16, LiveCheckDoes DEF history
  <2>3. \A n \in Notes, m \in Lanes :
          n \notin excused' /\ lane'[m].note = n /\ lane'[m].pc # "mark" =>
            lane[m].pc # "mark"
    BY <1>16, LiveCheckDoes, LaneTypes, NotificationQueueAssumption
    DEF Only, Rests, StepsTo
  <2>4. \A n \in Notes : status'[n] = "PENDING" => status[n] = "PENDING"
    BY <1>16, LiveCheckDoes DEF rowVars, Holds, TypeOK
  <2>5. \A n \in Notes, m \in Lanes :
          /\ n \notin excused' /\ status'[n] = "PENDING"
          /\ lane[m].note = n /\ lane[m].pc = "mark"
          => lane'[m].note = n /\ lane'[m].pc = "mark"
    BY <1>16, LiveCheckDoes, NotificationQueueAssumption DEF Only
  <2> QED BY <2>1, <2>2, <2>3, <2>4, <2>5, ReachedStays
<1>17. ASSUME NEW l \in Lanes, Deliver(l) PROVE Reached'
  <2> DEFINE r == lane[l].note
  <2>1. /\ lane[l].pc = "deliver" /\ \A m \in Lanes : m # l => lane'[m] = lane[m]
        /\ lane'[l].note = r /\ lane'[l].pc \in {"mark", "fail"}
    BY <1>17, DeliverDoes DEF Only, StepsTo
  <2>2. r \in Notes /\ excused \subseteq excused' /\ status' = status
    BY <1>17, DeliverDoes, LaneTypes DEF AtWork, rowVars
  <2>3. /\ \A k \in Notes : k # r => (k \in delivered'.once <=> k \in delivered.once)
        /\ r \notin excused' /\ r \notin delivered.once =>
             (lane'[l].pc = "mark" <=> r \in delivered'.once)
    BY <1>17, <2>1, <2>2, DeliverReaches
  <2> SUFFICES ASSUME NEW k \in Notes, k \notin excused' PROVE ReachedOnce(k)'
    BY DEF Reached
  <2>4. ReachedOnce(k) /\ InHands(k)
    BY <2>2 DEF Reached, Leased
  <2>5. CASE k # r
    BY <2>1, <2>2, <2>3, <2>4, <2>5 DEF ReachedOnce
  <2>6. CASE k = r
    <3>1. k \notin delivered.once /\ \A m \in Lanes : lane'[m].note = k => m = l
      BY <2>1, <2>4, <2>6 DEF ReachedOnce, InHands
    <3> QED BY <2>1, <2>3, <2>6, <3>1 DEF ReachedOnce
  <2> QED BY <2>5, <2>6
<1>18. ASSUME NEW l \in Lanes, MarkSent(l) PROVE Reached'
  <2>1. \A m \in Lanes : lane'[m].note \in {lane[m].note, NoNote}
    BY <1>18, MarkSentDoes DEF Only, Rests, StepsTo
  <2>2. delivered' = delivered /\ excused \subseteq excused'
    BY <1>18, MarkSentDoes DEF history
  <2>3. \A n \in Notes, m \in Lanes :
          n \notin excused' /\ lane'[m].note = n /\ lane'[m].pc # "mark" =>
            lane[m].pc # "mark"
    BY <1>18, MarkSentDoes, LaneTypes, NotificationQueueAssumption
    DEF Only, Rests, StepsTo
  <2>4. \A n \in Notes : status'[n] = "PENDING" => status[n] = "PENDING"
    BY <1>18, MarkSentDoes DEF rowVars, Holds, TypeOK
  <2>5. \A n \in Notes, m \in Lanes :
          /\ n \notin excused' /\ status'[n] = "PENDING"
          /\ lane[m].note = n /\ lane[m].pc = "mark"
          => lane'[m].note = n /\ lane'[m].pc = "mark"
    <3> SUFFICES ASSUME NEW n \in Notes, n \notin excused, lane[l].note = n
                 PROVE  status'[n] # "PENDING"
      BY <1>18, <2>2, MarkSentDoes DEF Only
    <3>1. status[n] = "PENDING" => Holds(l, n)
      BY DEF Leased, InHands, Holds
    <3> QED BY <1>18, <3>1, MarkSentDoes DEF TypeOK
  <2> QED BY <2>1, <2>2, <2>3, <2>4, <2>5, ReachedStays
<1>19. ASSUME NEW l \in Lanes, RecordFailure(l) PROVE Reached'
  <2>1. \A m \in Lanes : lane'[m].note \in {lane[m].note, NoNote}
    BY <1>19, RecordFailureDoes DEF Only, Rests, StepsTo
  <2>2. delivered' = delivered /\ excused \subseteq excused'
    BY <1>19, RecordFailureDoes DEF history
  <2>3. \A n \in Notes, m \in Lanes :
          n \notin excused' /\ lane'[m].note = n /\ lane'[m].pc # "mark" =>
            lane[m].pc # "mark"
    BY <1>19, RecordFailureDoes, LaneTypes, NotificationQueueAssumption
    DEF Only, Rests, StepsTo
  <2>4. \A n \in Notes : status'[n] = "PENDING" => status[n] = "PENDING"
    BY <1>19, RecordFailureDoes DEF rowVars, Holds, TypeOK
  <2>5. \A n \in Notes, m \in Lanes :
          /\ n \notin excused' /\ status'[n] = "PENDING"
          /\ lane[m].note = n /\ lane[m].pc = "mark"
          => lane'[m].note = n /\ lane'[m].pc = "mark"
    BY <1>19, RecordFailureDoes, NotificationQueueAssumption DEF Only
  <2> QED BY <2>1, <2>2, <2>3, <2>4, <2>5, ReachedStays
<1>20. ASSUME NEW l \in Lanes, DatabaseError(l) PROVE Reached'
  <2>1. \A m \in Lanes : lane'[m].note \in {lane[m].note, NoNote}
    BY <1>20, DatabaseErrorDoes DEF Only, Rests, StepsTo
  <2>2. delivered' = delivered /\ excused \subseteq excused'
    BY <1>20, DatabaseErrorDoes DEF history
  <2>3. \A n \in Notes, m \in Lanes :
          n \notin excused' /\ lane'[m].note = n /\ lane'[m].pc # "mark" =>
            lane[m].pc # "mark"
    BY <1>20, DatabaseErrorDoes, LaneTypes, NotificationQueueAssumption
    DEF Only, Rests, StepsTo
  <2>4. \A n \in Notes : status'[n] = "PENDING" => status[n] = "PENDING"
    BY <1>20, DatabaseErrorDoes DEF rowVars, Holds, TypeOK
  <2>5. \A n \in Notes, m \in Lanes :
          /\ n \notin excused' /\ status'[n] = "PENDING"
          /\ lane[m].note = n /\ lane[m].pc = "mark"
          => lane'[m].note = n /\ lane'[m].pc = "mark"
    BY <1>20, DatabaseErrorDoes, NotificationQueueAssumption DEF Only
  <2> QED BY <2>1, <2>2, <2>3, <2>4, <2>5, ReachedStays
<1>21. CASE UNCHANGED vars
  BY <1>21 DEF vars, rowVars, editVars, history,
         TypeOK, AtWork, Reached, ReachedOnce
<1> QED BY <1>1, <1>2, <1>3, <1>4, <1>5, <1>6, <1>7, <1>8, <1>9, <1>10, <1>11,
           <1>12, <1>13, <1>14, <1>15, <1>16, <1>17, <1>18, <1>19, <1>20,
           <1>21 DEF Next, LaneStep

\* What is marked, shown or read was delivered.
LEMMA ShownStep ==
  ASSUME TypeOK, AtWork, Shown, [Next]_vars
  PROVE  Shown'
<1>1. ASSUME NEW e \in Editors, NEW wants \in BOOLEAN, Edit(e, wants) PROVE
      Shown'
  BY <1>1, NotificationQueueAssumption DEF Edit, rowVars, history, TypeOK,
      AtWork, Shown
<1>2. ASSUME NEW e \in Editors, CancelRows(e) PROVE Shown'
  BY <1>2, NotificationQueueAssumption DEF CancelRows, Replaced, history, TypeOK,
      AtWork, Shown
<1>3. ASSUME NEW e \in Editors, CreateRows(e) PROVE Shown'
  BY <1>3, NotificationQueueAssumption DEF CreateRows, Insert, Fresh, history,
      TypeOK, AtWork, Shown
<1>4. ASSUME NEW e \in Editors, EditCut(e) PROVE Shown'
  BY <1>4, NotificationQueueAssumption DEF EditCut, Fault, rowVars, history,
      TypeOK, AtWork, Shown
<1>5. ASSUME NEW n \in Notes, Announce(n) PROVE Shown'
  BY <1>5, NotificationQueueAssumption DEF Announce, Insert, Fresh, editVars,
      history, TypeOK, AtWork, Shown
<1>6. ASSUME NEW n \in Notes, ComesDue(n) PROVE Shown'
  BY <1>6, NotificationQueueAssumption DEF ComesDue, editVars, history, TypeOK,
      AtWork, Shown
<1>7. ASSUME NEW n \in Notes, LeaseExpires(n) PROVE Shown'
  BY <1>7, NotificationQueueAssumption DEF LeaseExpires, Fault, editVars, TypeOK,
      AtWork, Shown
<1>8. ASSUME NEW n \in Notes, BackoffOver(n) PROVE Shown'
  BY <1>8, NotificationQueueAssumption DEF BackoffOver, editVars, history,
      TypeOK, AtWork, Shown
<1>9. ASSUME NEW n \in Notes, ReadLooks(n) PROVE Shown'
  BY <1>9, NotificationQueueAssumption DEF ReadLooks, Known, rowVars, history,
      TypeOK, AtWork, Shown
<1>10. ASSUME NEW n \in Notes, ReadWrites(n) PROVE Shown'
  BY <1>10, NotificationQueueAssumption DEF ReadWrites, Fault, TypeOK, AtWork,
      Shown
<1>11. ASSUME NEW n \in Notes, Delete(n) PROVE Shown'
  BY <1>11, NotificationQueueAssumption DEF Delete, Known, editVars, history,
      TypeOK, AtWork, Shown
<1>12. CASE ReadAll
  BY <1>12, NotificationQueueAssumption DEF ReadAll, editVars, history, TypeOK,
      AtWork, Shown
<1>13. ASSUME NEW i \in Instances, Scan(i) PROVE Shown'
  <2>1. \A m \in Lanes : lane'[m].pc = "mark" =>
          lane[m].pc = "mark" /\ lane'[m].note = lane[m].note
    BY <1>13, ScanDoes DEF Only, Rests, StepsTo
  <2>2. UNCHANGED <<delivered, marking>>
    BY <1>13, ScanDoes DEF history, editVars
  <2>3. \A n \in Notes : status'[n] \in {"SENT", "READ"} =>
          status[n] \in {"SENT", "READ"} \/ n \in delivered.once
    BY <1>13, ScanDoes DEF rowVars, TypeOK, Shown
  <2> QED BY <2>1, <2>2, <2>3 DEF Shown
<1>14. ASSUME NEW i \in Instances, Crash(i) PROVE Shown'
  <2>1. \A m \in Lanes : lane'[m].pc = "mark" =>
          lane[m].pc = "mark" /\ lane'[m].note = lane[m].note
    BY <1>14, CrashDoes DEF Only, Rests, StepsTo
  <2>2. UNCHANGED <<delivered, marking>>
    BY <1>14, CrashDoes DEF history, editVars
  <2>3. \A n \in Notes : status'[n] \in {"SENT", "READ"} =>
          status[n] \in {"SENT", "READ"} \/ n \in delivered.once
    BY <1>14, CrashDoes DEF rowVars, TypeOK, Shown
  <2> QED BY <2>1, <2>2, <2>3 DEF Shown
<1>15. ASSUME NEW l \in Lanes, NEW k \in Notes, Claim(l, k) PROVE Shown'
  <2>1. \A m \in Lanes : lane'[m].pc = "mark" =>
          lane[m].pc = "mark" /\ lane'[m].note = lane[m].note
    BY <1>15, ClaimDoes DEF Only, Rests, StepsTo
  <2>2. UNCHANGED <<delivered, marking>>
    BY <1>15, ClaimDoes DEF history, editVars
  <2>3. \A n \in Notes : status'[n] \in {"SENT", "READ"} =>
          status[n] \in {"SENT", "READ"} \/ n \in delivered.once
    BY <1>15, ClaimDoes DEF rowVars, TypeOK, Shown
  <2> QED BY <2>1, <2>2, <2>3 DEF Shown
<1>16. ASSUME NEW l \in Lanes, LiveCheck(l) PROVE Shown'
  <2>1. \A m \in Lanes : lane'[m].pc = "mark" =>
          lane[m].pc = "mark" /\ lane'[m].note = lane[m].note
    BY <1>16, LiveCheckDoes DEF Only, Rests, StepsTo
  <2>2. UNCHANGED <<delivered, marking>>
    BY <1>16, LiveCheckDoes DEF history, editVars
  <2>3. \A n \in Notes : status'[n] \in {"SENT", "READ"} =>
          status[n] \in {"SENT", "READ"} \/ n \in delivered.once
    BY <1>16, LiveCheckDoes DEF rowVars, TypeOK, Shown
  <2> QED BY <2>1, <2>2, <2>3 DEF Shown
<1>17. ASSUME NEW l \in Lanes, Deliver(l) PROVE Shown'
  <2>1. \A m \in Lanes : m # l => lane'[m] = lane[m]
    BY <1>17, DeliverDoes DEF Only
  <2>2. lane'[l].note = lane[l].note /\ UNCHANGED <<status, marking>>
    BY <1>17, DeliverDoes DEF StepsTo, rowVars, editVars
  <2>3. /\ delivered.once \subseteq delivered'.once
        /\ lane'[l].pc = "mark" => lane[l].note \in delivered'.once
    BY <1>17, DeliverDoes, SMTT(20) DEF StepsTo, TypeOK
  <2> QED BY <2>1, <2>2, <2>3 DEF Shown
<1>18. ASSUME NEW l \in Lanes, MarkSent(l) PROVE Shown'
  <2>1. \A m \in Lanes : lane'[m].pc = "mark" =>
          lane[m].pc = "mark" /\ lane'[m].note = lane[m].note
    BY <1>18, MarkSentDoes DEF Only, Rests, StepsTo
  <2>2. UNCHANGED <<delivered, marking>>
    BY <1>18, MarkSentDoes DEF history, editVars
  <2>3. \A n \in Notes : status'[n] \in {"SENT", "READ"} =>
          status[n] \in {"SENT", "READ"} \/ n \in delivered.once
    BY <1>18, MarkSentDoes DEF rowVars, TypeOK, Shown
  <2> QED BY <2>1, <2>2, <2>3 DEF Shown
<1>19. ASSUME NEW l \in Lanes, RecordFailure(l) PROVE Shown'
  <2>1. \A m \in Lanes : lane'[m].pc = "mark" =>
          lane[m].pc = "mark" /\ lane'[m].note = lane[m].note
    BY <1>19, RecordFailureDoes DEF Only, Rests, StepsTo
  <2>2. UNCHANGED <<delivered, marking>>
    BY <1>19, RecordFailureDoes DEF history, editVars
  <2>3. \A n \in Notes : status'[n] \in {"SENT", "READ"} =>
          status[n] \in {"SENT", "READ"} \/ n \in delivered.once
    BY <1>19, RecordFailureDoes DEF rowVars, TypeOK, Shown
  <2> QED BY <2>1, <2>2, <2>3 DEF Shown
<1>20. ASSUME NEW l \in Lanes, DatabaseError(l) PROVE Shown'
  <2>1. \A m \in Lanes : lane'[m].pc = "mark" =>
          lane[m].pc = "mark" /\ lane'[m].note = lane[m].note
    BY <1>20, DatabaseErrorDoes DEF Only, Rests, StepsTo
  <2>2. UNCHANGED <<delivered, marking>>
    BY <1>20, DatabaseErrorDoes DEF history, editVars
  <2>3. \A n \in Notes : status'[n] \in {"SENT", "READ"} =>
          status[n] \in {"SENT", "READ"} \/ n \in delivered.once
    BY <1>20, DatabaseErrorDoes DEF rowVars, TypeOK, Shown
  <2> QED BY <2>1, <2>2, <2>3 DEF Shown
<1>21. CASE UNCHANGED vars
  BY <1>21 DEF vars, rowVars, editVars, history,
         TypeOK, AtWork, Shown
<1> QED BY <1>1, <1>2, <1>3, <1>4, <1>5, <1>6, <1>7, <1>8, <1>9, <1>10, <1>11,
           <1>12, <1>13, <1>14, <1>15, <1>16, <1>17, <1>18, <1>19, <1>20,
           <1>21 DEF Next, LaneStep

\* A markRead writes an outcome over itself.
LEMMA MarksStep ==
  ASSUME TypeOK, Shown, MarksOutcome, [Next]_vars
  PROVE  MarksOutcome'
<1>1. ASSUME NEW e \in Editors, NEW wants \in BOOLEAN, Edit(e, wants) PROVE
      MarksOutcome'
  BY <1>1 DEF Edit, rowVars, history, TypeOK, Final, Shown, MarksOutcome
<1>2. ASSUME NEW e \in Editors, CancelRows(e) PROVE MarksOutcome'
  BY <1>2 DEF CancelRows, Replaced, history, TypeOK, Final, Shown, MarksOutcome
<1>3. ASSUME NEW e \in Editors, CreateRows(e) PROVE MarksOutcome'
  BY <1>3 DEF CreateRows, Insert, Fresh, history, TypeOK, Final, Shown,
      MarksOutcome
<1>4. ASSUME NEW e \in Editors, EditCut(e) PROVE MarksOutcome'
  BY <1>4 DEF EditCut, Fault, rowVars, history, TypeOK, Final, Shown,
      MarksOutcome
<1>5. ASSUME NEW n \in Notes, Announce(n) PROVE MarksOutcome'
  BY <1>5 DEF Announce, Insert, Fresh, editVars, history, TypeOK, Final, Shown,
      MarksOutcome
<1>6. ASSUME NEW n \in Notes, ComesDue(n) PROVE MarksOutcome'
  BY <1>6 DEF ComesDue, editVars, history, TypeOK, Final, Shown, MarksOutcome
<1>7. ASSUME NEW n \in Notes, LeaseExpires(n) PROVE MarksOutcome'
  BY <1>7 DEF LeaseExpires, Fault, editVars, TypeOK, Final, Shown, MarksOutcome
<1>8. ASSUME NEW n \in Notes, BackoffOver(n) PROVE MarksOutcome'
  BY <1>8 DEF BackoffOver, editVars, history, TypeOK, Final, Shown, MarksOutcome
<1>9. ASSUME NEW n \in Notes, ReadLooks(n) PROVE MarksOutcome'
  BY <1>9 DEF ReadLooks, Known, rowVars, history, TypeOK, Final, Shown,
      MarksOutcome
<1>10. ASSUME NEW n \in Notes, ReadWrites(n) PROVE MarksOutcome'
  BY <1>10 DEF ReadWrites, Fault, TypeOK, Final, Shown, MarksOutcome
<1>11. ASSUME NEW n \in Notes, Delete(n) PROVE MarksOutcome'
  BY <1>11 DEF Delete, Known, editVars, history, TypeOK, Final, Shown,
      MarksOutcome
<1>12. CASE ReadAll
  BY <1>12 DEF ReadAll, editVars, history, TypeOK, Final, Shown, MarksOutcome
<1>13. ASSUME NEW i \in Instances, Scan(i) PROVE MarksOutcome'
  <2>1. marking' = marking
    BY <1>13, ScanDoes DEF editVars
  <2>2. \A n \in Notes : status'[n] = status[n] \/ status[n] = "PENDING"
    BY <1>13, ScanDoes DEF rowVars, TypeOK, Holds
  <2> QED BY <2>1, <2>2 DEF MarksOutcome, Final
<1>14. ASSUME NEW i \in Instances, Crash(i) PROVE MarksOutcome'
  <2>1. marking' = marking
    BY <1>14, CrashDoes DEF editVars
  <2>2. \A n \in Notes : status'[n] = status[n] \/ status[n] = "PENDING"
    BY <1>14, CrashDoes DEF rowVars, TypeOK, Holds
  <2> QED BY <2>1, <2>2 DEF MarksOutcome, Final
<1>15. ASSUME NEW l \in Lanes, NEW k \in Notes, Claim(l, k) PROVE
      MarksOutcome'
  <2>1. marking' = marking
    BY <1>15, ClaimDoes DEF editVars
  <2>2. \A n \in Notes : status'[n] = status[n] \/ status[n] = "PENDING"
    BY <1>15, ClaimDoes DEF rowVars, TypeOK, Holds
  <2> QED BY <2>1, <2>2 DEF MarksOutcome, Final
<1>16. ASSUME NEW l \in Lanes, LiveCheck(l) PROVE MarksOutcome'
  <2>1. marking' = marking
    BY <1>16, LiveCheckDoes DEF editVars
  <2>2. \A n \in Notes : status'[n] = status[n] \/ status[n] = "PENDING"
    BY <1>16, LiveCheckDoes DEF rowVars, TypeOK, Holds
  <2> QED BY <2>1, <2>2 DEF MarksOutcome, Final
<1>17. ASSUME NEW l \in Lanes, Deliver(l) PROVE MarksOutcome'
  <2>1. marking' = marking
    BY <1>17, DeliverDoes DEF editVars
  <2>2. \A n \in Notes : status'[n] = status[n] \/ status[n] = "PENDING"
    BY <1>17, DeliverDoes DEF rowVars, TypeOK, Holds
  <2> QED BY <2>1, <2>2 DEF MarksOutcome, Final
<1>18. ASSUME NEW l \in Lanes, MarkSent(l) PROVE MarksOutcome'
  <2>1. marking' = marking
    BY <1>18, MarkSentDoes DEF editVars
  <2>2. \A n \in Notes : status'[n] = status[n] \/ status[n] = "PENDING"
    BY <1>18, MarkSentDoes DEF rowVars, TypeOK, Holds
  <2> QED BY <2>1, <2>2 DEF MarksOutcome, Final
<1>19. ASSUME NEW l \in Lanes, RecordFailure(l) PROVE MarksOutcome'
  <2>1. marking' = marking
    BY <1>19, RecordFailureDoes DEF editVars
  <2>2. \A n \in Notes : status'[n] = status[n] \/ status[n] = "PENDING"
    BY <1>19, RecordFailureDoes DEF rowVars, TypeOK, Holds
  <2> QED BY <2>1, <2>2 DEF MarksOutcome, Final
<1>20. ASSUME NEW l \in Lanes, DatabaseError(l) PROVE MarksOutcome'
  <2>1. marking' = marking
    BY <1>20, DatabaseErrorDoes DEF editVars
  <2>2. \A n \in Notes : status'[n] = status[n] \/ status[n] = "PENDING"
    BY <1>20, DatabaseErrorDoes DEF rowVars, TypeOK, Holds
  <2> QED BY <2>1, <2>2 DEF MarksOutcome, Final
<1>21. CASE UNCHANGED vars
  BY <1>21 DEF vars, rowVars, editVars, history,
         TypeOK, Final, Shown, MarksOutcome
<1> QED BY <1>1, <1>2, <1>3, <1>4, <1>5, <1>6, <1>7, <1>8, <1>9, <1>10, <1>11,
           <1>12, <1>13, <1>14, <1>15, <1>16, <1>17, <1>18, <1>19, <1>20,
           <1>21 DEF Next, LaneStep

\* A row is delivered twice only for a reason.
LEMMA TwiceStep ==
  ASSUME TypeOK, AtWork, Reached, DeliveredTwiceOnlyIfExcused, [Next]_vars
  PROVE  DeliveredTwiceOnlyIfExcused'
<1>1. ASSUME NEW e \in Editors, NEW wants \in BOOLEAN, Edit(e, wants) PROVE
      DeliveredTwiceOnlyIfExcused'
  BY <1>1, NotificationQueueAssumption DEF Edit, rowVars, history, TypeOK,
      AtWork, Reached, DeliveredTwiceOnlyIfExcused
<1>2. ASSUME NEW e \in Editors, CancelRows(e) PROVE
      DeliveredTwiceOnlyIfExcused'
  BY <1>2, NotificationQueueAssumption DEF CancelRows, Replaced, history, TypeOK,
      AtWork, Reached, DeliveredTwiceOnlyIfExcused
<1>3. ASSUME NEW e \in Editors, CreateRows(e) PROVE
      DeliveredTwiceOnlyIfExcused'
  BY <1>3, NotificationQueueAssumption DEF CreateRows, Insert, Fresh, history,
      TypeOK, AtWork, Reached, DeliveredTwiceOnlyIfExcused
<1>4. ASSUME NEW e \in Editors, EditCut(e) PROVE DeliveredTwiceOnlyIfExcused'
  BY <1>4, NotificationQueueAssumption DEF EditCut, Fault, rowVars, history,
      TypeOK, AtWork, Reached, DeliveredTwiceOnlyIfExcused
<1>5. ASSUME NEW n \in Notes, Announce(n) PROVE DeliveredTwiceOnlyIfExcused'
  BY <1>5, NotificationQueueAssumption DEF Announce, Insert, Fresh, editVars,
      history, TypeOK, AtWork, Reached, DeliveredTwiceOnlyIfExcused
<1>6. ASSUME NEW n \in Notes, ComesDue(n) PROVE DeliveredTwiceOnlyIfExcused'
  BY <1>6, NotificationQueueAssumption DEF ComesDue, editVars, history, TypeOK,
      AtWork, Reached, DeliveredTwiceOnlyIfExcused
<1>7. ASSUME NEW n \in Notes, LeaseExpires(n) PROVE
      DeliveredTwiceOnlyIfExcused'
  BY <1>7, NotificationQueueAssumption DEF LeaseExpires, Fault, editVars, TypeOK,
      AtWork, Reached, DeliveredTwiceOnlyIfExcused
<1>8. ASSUME NEW n \in Notes, BackoffOver(n) PROVE
      DeliveredTwiceOnlyIfExcused'
  BY <1>8, NotificationQueueAssumption DEF BackoffOver, editVars, history,
      TypeOK, AtWork, Reached, DeliveredTwiceOnlyIfExcused
<1>9. ASSUME NEW n \in Notes, ReadLooks(n) PROVE DeliveredTwiceOnlyIfExcused'
  BY <1>9, NotificationQueueAssumption DEF ReadLooks, Known, rowVars, history,
      TypeOK, AtWork, Reached, DeliveredTwiceOnlyIfExcused
<1>10. ASSUME NEW n \in Notes, ReadWrites(n) PROVE
      DeliveredTwiceOnlyIfExcused'
  BY <1>10, NotificationQueueAssumption DEF ReadWrites, Fault, TypeOK, AtWork,
      Reached, DeliveredTwiceOnlyIfExcused
<1>11. ASSUME NEW n \in Notes, Delete(n) PROVE DeliveredTwiceOnlyIfExcused'
  BY <1>11, NotificationQueueAssumption DEF Delete, Known, editVars, history,
      TypeOK, AtWork, Reached, DeliveredTwiceOnlyIfExcused
<1>12. CASE ReadAll
  BY <1>12, NotificationQueueAssumption DEF ReadAll, editVars, history, TypeOK,
      AtWork, Reached, DeliveredTwiceOnlyIfExcused
<1>13. ASSUME NEW i \in Instances, Scan(i) PROVE DeliveredTwiceOnlyIfExcused'
  <2>1. delivered' = delivered /\ excused \subseteq excused'
    BY <1>13, ScanDoes DEF history
  <2> QED BY <2>1 DEF DeliveredTwiceOnlyIfExcused
<1>14. ASSUME NEW i \in Instances, Crash(i) PROVE DeliveredTwiceOnlyIfExcused'
  <2>1. delivered' = delivered /\ excused \subseteq excused'
    BY <1>14, CrashDoes DEF history
  <2> QED BY <2>1 DEF DeliveredTwiceOnlyIfExcused
<1>15. ASSUME NEW l \in Lanes, NEW n \in Notes, Claim(l, n) PROVE
      DeliveredTwiceOnlyIfExcused'
  <2>1. delivered' = delivered /\ excused \subseteq excused'
    BY <1>15, ClaimDoes DEF history
  <2> QED BY <2>1 DEF DeliveredTwiceOnlyIfExcused
<1>16. ASSUME NEW l \in Lanes, LiveCheck(l) PROVE DeliveredTwiceOnlyIfExcused'
  <2>1. delivered' = delivered /\ excused \subseteq excused'
    BY <1>16, LiveCheckDoes DEF history
  <2> QED BY <2>1 DEF DeliveredTwiceOnlyIfExcused
<1>17. ASSUME NEW l \in Lanes, Deliver(l) PROVE DeliveredTwiceOnlyIfExcused'
  <2> DEFINE r == lane[l].note
  <2>1. lane[l].pc = "deliver" /\ excused \subseteq excused'
    BY <1>17, DeliverDoes
  <2>2. \/ delivered'.again = delivered.again
        \/ r \in delivered.once /\ delivered'.again = delivered.again \cup {r}
    BY <1>17, DeliverReaches
  <2>3. r \in Notes
    BY <2>1, LaneTypes DEF AtWork
  <2>4. r \in delivered.once => r \in excused
    BY <2>1, <2>3 DEF Reached, ReachedOnce
  <2> QED BY <2>1, <2>2, <2>4 DEF DeliveredTwiceOnlyIfExcused
<1>18. ASSUME NEW l \in Lanes, MarkSent(l) PROVE DeliveredTwiceOnlyIfExcused'
  <2>1. delivered' = delivered /\ excused \subseteq excused'
    BY <1>18, MarkSentDoes DEF history
  <2> QED BY <2>1 DEF DeliveredTwiceOnlyIfExcused
<1>19. ASSUME NEW l \in Lanes, RecordFailure(l) PROVE
      DeliveredTwiceOnlyIfExcused'
  <2>1. delivered' = delivered /\ excused \subseteq excused'
    BY <1>19, RecordFailureDoes DEF history
  <2> QED BY <2>1 DEF DeliveredTwiceOnlyIfExcused
<1>20. ASSUME NEW l \in Lanes, DatabaseError(l) PROVE
      DeliveredTwiceOnlyIfExcused'
  <2>1. delivered' = delivered /\ excused \subseteq excused'
    BY <1>20, DatabaseErrorDoes DEF history
  <2> QED BY <2>1 DEF DeliveredTwiceOnlyIfExcused
<1>21. CASE UNCHANGED vars
  BY <1>21 DEF vars, rowVars, editVars, history,
         TypeOK, AtWork, Reached, DeliveredTwiceOnlyIfExcused
<1> QED BY <1>1, <1>2, <1>3, <1>4, <1>5, <1>6, <1>7, <1>8, <1>9, <1>10, <1>11,
           <1>12, <1>13, <1>14, <1>15, <1>16, <1>17, <1>18, <1>19, <1>20,
           <1>21 DEF Next, LaneStep

\* The counts stay within their bounds if no row is created or counted.
LEMMA CountedStays ==
  ASSUME TypeOK, Counted,
         \A m \in Lanes : lane'[m].seen \in {lane[m].seen, NoneSeen},
         UNCHANGED <<status, retries>>, faults' \in Nat, faults <= faults',
         delivered.once \subseteq delivered'.once
  PROVE  Counted'
<1>1. /\ faults \in Nat /\ MaxRetries \in Nat \ {0}
      /\ \A n \in Notes : retries[n] \in Nat
      /\ \A m \in Lanes, n \in Notes : lane[m].seen[n] \in Nat
  BY LaneTypes, NotificationQueueAssumption DEF TypeOK
<1>2. \A m \in Lanes, n \in Notes :
        lane'[m].seen[n] = lane[m].seen[n] \/ lane'[m].seen[n] = 0
  BY DEF NoneSeen
<1>3. \A m \in Lanes, n \in Notes : lane'[m].seen[n] < MaxRetries + faults'
  BY <1>1, <1>2 DEF Counted
<1>4. \A n \in Notes :
        /\ retries[n] <= MaxRetries + faults'
        /\ status[n] = "PENDING" => retries[n] < MaxRetries + faults'
        /\ status[n] = "none" /\ n \notin delivered'.once => retries[n] = 0
  BY <1>1 DEF Counted
<1> QED BY <1>3, <1>4 DEF Counted

\* Attempts are counted once, but for the faults.
LEMMA CountedStep ==
  ASSUME TypeOK, AtWork, Shown, Counted, [Next]_vars
  PROVE  Counted'
<1>1. ASSUME NEW e \in Editors, NEW wants \in BOOLEAN, Edit(e, wants) PROVE
      Counted'
  BY <1>1, NotificationQueueAssumption DEF Edit, rowVars, history, TypeOK,
      AtWork, Shown, Counted
<1>2. ASSUME NEW e \in Editors, CancelRows(e) PROVE Counted'
  BY <1>2, NotificationQueueAssumption DEF CancelRows, Replaced, history, TypeOK,
      AtWork, Shown, Counted
<1>3. ASSUME NEW e \in Editors, CreateRows(e) PROVE Counted'
  <2>1. PICK S \in SUBSET Notes : Insert(S, editor[e].version)
    BY <1>3 DEF CreateRows
  <2>2. UNCHANGED <<lane, retries, delivered, faults>>
    BY <1>3, <2>1 DEF CreateRows, Insert, history
  <2>3. \A n \in Notes : \/ status'[n] = status[n]
                         \/ status[n] = "none" /\ n \notin delivered.once
                            /\ status'[n] = "PENDING"
    BY <2>1 DEF Insert, Fresh
  <2>4. faults \in Nat /\ MaxRetries \in Nat \ {0}
    BY NotificationQueueAssumption DEF TypeOK
  <2>5. \A n \in Notes : status'[n] = "PENDING" => retries[n] < MaxRetries + faults
    BY <2>3, <2>4 DEF Counted
  <2> QED BY <2>2, <2>3, <2>5 DEF Counted
<1>4. ASSUME NEW e \in Editors, EditCut(e) PROVE Counted'
  BY <1>4, NotificationQueueAssumption DEF EditCut, Fault, rowVars, history,
      TypeOK, AtWork, Shown, Counted
<1>5. ASSUME NEW n \in Notes, Announce(n) PROVE Counted'
  BY <1>5, NotificationQueueAssumption DEF Announce, Insert, Fresh, editVars,
      history, TypeOK, AtWork, Shown, Counted
<1>6. ASSUME NEW n \in Notes, ComesDue(n) PROVE Counted'
  BY <1>6, NotificationQueueAssumption DEF ComesDue, editVars, history, TypeOK,
      AtWork, Shown, Counted
<1>7. ASSUME NEW n \in Notes, LeaseExpires(n) PROVE Counted'
  BY <1>7, NotificationQueueAssumption DEF LeaseExpires, Fault, editVars, TypeOK,
      AtWork, Shown, Counted
<1>8. ASSUME NEW n \in Notes, BackoffOver(n) PROVE Counted'
  BY <1>8, NotificationQueueAssumption DEF BackoffOver, editVars, history,
      TypeOK, AtWork, Shown, Counted
<1>9. ASSUME NEW n \in Notes, ReadLooks(n) PROVE Counted'
  BY <1>9, NotificationQueueAssumption DEF ReadLooks, Known, rowVars, history,
      TypeOK, AtWork, Shown, Counted
<1>10. ASSUME NEW n \in Notes, ReadWrites(n) PROVE Counted'
  BY <1>10, NotificationQueueAssumption DEF ReadWrites, Fault, TypeOK, AtWork,
      Shown, Counted
<1>11. ASSUME NEW n \in Notes, Delete(n) PROVE Counted'
  BY <1>11, NotificationQueueAssumption DEF Delete, Known, editVars, history,
      TypeOK, AtWork, Shown, Counted
<1>12. CASE ReadAll
  BY <1>12, NotificationQueueAssumption DEF ReadAll, editVars, history, TypeOK,
      AtWork, Shown, Counted
<1>13. ASSUME NEW i \in Instances, Scan(i) PROVE Counted'
  <2>1. UNCHANGED <<status, retries, delivered, faults>>
    BY <1>13, ScanDoes DEF rowVars, history
  <2>2. /\ faults \in Nat /\ MaxRetries \in Nat \ {0}
        /\ \A n \in Notes : retries[n] \in Nat
    BY NotificationQueueAssumption DEF TypeOK
  <2>3. \A m \in Lanes, n \in Notes : lane'[m].seen[n] < MaxRetries + faults
    BY <1>13, <2>2, ScanDoes DEF Counted
  <2> QED BY <2>1, <2>3 DEF Counted
<1>14. ASSUME NEW i \in Instances, Crash(i) PROVE Counted'
  <2>1. \A m \in Lanes : lane'[m].seen \in {lane[m].seen, NoneSeen}
    BY <1>14, CrashDoes DEF Only, Rests, StepsTo
  <2>2. UNCHANGED <<status, retries, delivered>>
    BY <1>14, CrashDoes DEF rowVars, history
  <2>3. faults' \in Nat /\ faults <= faults'
    BY <1>14, CrashDoes, NotificationQueueAssumption DEF history, Fault, TypeOK
  <2> QED BY <2>1, <2>2, <2>3, CountedStays
<1>15. ASSUME NEW l \in Lanes, NEW n \in Notes, Claim(l, n) PROVE Counted'
  <2>1. \A m \in Lanes : lane'[m].seen \in {lane[m].seen, NoneSeen}
    BY <1>15, ClaimDoes DEF Only, Rests
  <2>2. UNCHANGED <<status, retries, delivered, faults>> /\ faults \in Nat
    BY <1>15, ClaimDoes DEF history, TypeOK
  <2> QED BY <2>1, <2>2, CountedStays
<1>16. ASSUME NEW l \in Lanes, LiveCheck(l) PROVE Counted'
  <2>1. \A m \in Lanes : lane'[m].seen \in {lane[m].seen, NoneSeen}
    BY <1>16, LiveCheckDoes DEF Only, Rests, StepsTo
  <2>2. UNCHANGED <<status, retries, delivered>>
    BY <1>16, LiveCheckDoes DEF rowVars, history
  <2>3. faults' \in Nat /\ faults <= faults'
    BY <1>16, LiveCheckDoes, NotificationQueueAssumption DEF history, Fault, TypeOK
  <2> QED BY <2>1, <2>2, <2>3, CountedStays
<1>17. ASSUME NEW l \in Lanes, Deliver(l) PROVE Counted'
  <2>1. \A m \in Lanes : lane'[m].seen = lane[m].seen
    BY <1>17, DeliverDoes DEF Only, StepsTo
  <2>2. UNCHANGED <<status, retries, faults>> /\ faults \in Nat
    BY <1>17, DeliverDoes DEF rowVars, TypeOK
  <2>3. delivered.once \subseteq delivered'.once
    BY <1>17, DeliverReaches
  <2> QED BY <2>1, <2>2, <2>3, CountedStays
<1>18. ASSUME NEW l \in Lanes, MarkSent(l) PROVE Counted'
  <2>1. \A m \in Lanes : lane'[m].seen \in {lane[m].seen, NoneSeen}
    BY <1>18, MarkSentDoes DEF Only, Rests
  <2>2. UNCHANGED <<retries, delivered, faults>> /\ faults \in Nat
    BY <1>18, MarkSentDoes DEF history, TypeOK
  <2>3. \A n \in Notes : status'[n] = status[n] \/ status'[n] = "SENT"
    BY <1>18, MarkSentDoes DEF TypeOK
  <2>4. \A m \in Lanes, n \in Notes :
          lane'[m].seen[n] = lane[m].seen[n] \/ lane'[m].seen[n] = 0
    BY <2>1 DEF NoneSeen
  <2>5. \A m \in Lanes, n \in Notes : lane'[m].seen[n] < MaxRetries + faults
    BY <2>2, <2>4, NotificationQueueAssumption DEF Counted
  <2> QED BY <2>2, <2>3, <2>5 DEF Counted
<1>19. ASSUME NEW l \in Lanes, RecordFailure(l) PROVE Counted'
  <2> DEFINE r == lane[l].note
  <2>1. /\ faults \in Nat /\ MaxRetries \in Nat \ {0}
        /\ \A n \in Notes : retries[n] \in Nat
    BY NotificationQueueAssumption DEF TypeOK
  <2>2. \A m \in Lanes, n \in Notes :
          lane'[m].seen[n] = lane[m].seen[n] \/ lane'[m].seen[n] = 0
    BY <1>19, RecordFailureDoes DEF Only, Rests, NoneSeen
  <2>3. \A m \in Lanes, n \in Notes : lane'[m].seen[n] < MaxRetries + faults
    BY <2>1, <2>2 DEF Counted
  <2>4. UNCHANGED <<delivered, faults>> /\ lane[l].pc = "fail"
    BY <1>19, RecordFailureDoes DEF history
  <2>5. CASE UNCHANGED <<status, retries>>
    BY <2>3, <2>4, <2>5 DEF Counted
  <2>6. ASSUME NEW last \in BOOLEAN, last <=> lane[l].seen[r] + 1 >= MaxRetries,
               retries' = [retries EXCEPT ![r] = lane[l].seen[r] + 1],
               status' = [status EXCEPT ![r] = IF last THEN "FAILED" ELSE "PENDING"]
        PROVE  Counted'
    <3>1. r \in Notes /\ lane[l].seen[r] \in Nat /\ lane[l].seen[r] < MaxRetries + faults
      BY <2>4, LaneTypes, NotificationQueueAssumption DEF AtWork, Counted
    <3>2. /\ retries'[r] = lane[l].seen[r] + 1
          /\ status'[r] = IF last THEN "FAILED" ELSE "PENDING"
          /\ \A n \in Notes : n # r => retries'[n] = retries[n] /\ status'[n] = status[n]
      BY <2>6, <3>1 DEF TypeOK
    <3> HIDE DEF r
    <3>3. /\ retries'[r] <= MaxRetries + faults
          /\ status'[r] = "PENDING" => retries'[r] < MaxRetries + faults
          /\ status'[r] # "none"
      BY <2>1, <2>6, <3>1, <3>2
    <3> QED BY <2>3, <2>4, <3>2, <3>3 DEF Counted
  <2> QED BY <1>19, <2>5, <2>6, RecordFailureDoes
<1>20. ASSUME NEW l \in Lanes, DatabaseError(l) PROVE Counted'
  <2>1. \A m \in Lanes : lane'[m].seen \in {lane[m].seen, NoneSeen}
    BY <1>20, DatabaseErrorDoes DEF Only, Rests, StepsTo
  <2>2. UNCHANGED <<status, retries, delivered>>
    BY <1>20, DatabaseErrorDoes DEF rowVars, history
  <2>3. faults' \in Nat /\ faults <= faults'
    BY <1>20, DatabaseErrorDoes, NotificationQueueAssumption DEF history, Fault, TypeOK
  <2> QED BY <2>1, <2>2, <2>3, CountedStays
<1>21. CASE UNCHANGED vars
  BY <1>21 DEF vars, rowVars, editVars, history,
         TypeOK, AtWork, Shown, Counted
<1> QED BY <1>1, <1>2, <1>3, <1>4, <1>5, <1>6, <1>7, <1>8, <1>9, <1>10, <1>11,
           <1>12, <1>13, <1>14, <1>15, <1>16, <1>17, <1>18, <1>19, <1>20,
           <1>21 DEF Next, LaneStep

\* A change that overlaps with no other leaves its own rows only.
LEMMA ChangeStep ==
  ASSUME TypeOK, OneChange, ScheduleFollowsEntity, [Next]_vars
  PROVE  (OneChange /\ ScheduleFollowsEntity)'
<1>1. ASSUME NEW e \in Editors, NEW wants \in BOOLEAN, Edit(e, wants) PROVE
      (OneChange /\ ScheduleFollowsEntity)'
  <2>1. editor' = [editor EXCEPT ![e] = [pc |-> "cancel", version |-> entity.version + 1,
                                         wants |-> wants]]
    BY <1>1 DEF Edit
  <2>2. /\ entity' = [version |-> entity.version + 1, wants |-> wants]
        /\ ~torn' => ~torn /\ \A f \in Editors : editor[f].pc = "idle"
    BY <1>1 DEF Edit, TypeOK
  <2>3. /\ editor'[e].pc = "cancel" /\ editor'[e].version = entity'.version
        /\ editor'[e].wants = entity'.wants
        /\ \A f \in Editors : f # e => editor'[f] = editor[f]
    BY <2>1, <2>2 DEF TypeOK
  <2> QED BY <2>2, <2>3 DEF OneChange, ScheduleFollowsEntity
<1>2. ASSUME NEW e \in Editors, CancelRows(e) PROVE (OneChange /\
      ScheduleFollowsEntity)'
  BY <1>2 DEF CancelRows, Replaced, history, TypeOK, OneChange,
      ScheduleFollowsEntity, Replaced
<1>3. ASSUME NEW e \in Editors, CreateRows(e) PROVE (OneChange /\
      ScheduleFollowsEntity)'
  BY <1>3 DEF CreateRows, Insert, Fresh, history, TypeOK, OneChange,
      ScheduleFollowsEntity, Replaced
<1>4. ASSUME NEW e \in Editors, EditCut(e) PROVE (OneChange /\
      ScheduleFollowsEntity)'
  BY <1>4 DEF EditCut, Fault, rowVars, history, TypeOK, OneChange,
      ScheduleFollowsEntity, Replaced
<1>5. ASSUME NEW n \in Notes, Announce(n) PROVE (OneChange /\
      ScheduleFollowsEntity)'
  BY <1>5 DEF Announce, Insert, Fresh, editVars, history, TypeOK, OneChange,
      ScheduleFollowsEntity, Replaced
<1>6. ASSUME NEW n \in Notes, ComesDue(n) PROVE (OneChange /\
      ScheduleFollowsEntity)'
  BY <1>6 DEF ComesDue, editVars, history, TypeOK, OneChange,
      ScheduleFollowsEntity, Replaced
<1>7. ASSUME NEW n \in Notes, LeaseExpires(n) PROVE (OneChange /\
      ScheduleFollowsEntity)'
  BY <1>7 DEF LeaseExpires, Fault, editVars, TypeOK, OneChange,
      ScheduleFollowsEntity, Replaced
<1>8. ASSUME NEW n \in Notes, BackoffOver(n) PROVE (OneChange /\
      ScheduleFollowsEntity)'
  BY <1>8 DEF BackoffOver, editVars, history, TypeOK, OneChange,
      ScheduleFollowsEntity, Replaced
<1>9. ASSUME NEW n \in Notes, ReadLooks(n) PROVE (OneChange /\
      ScheduleFollowsEntity)'
  BY <1>9 DEF ReadLooks, Known, rowVars, history, TypeOK, OneChange,
      ScheduleFollowsEntity, Replaced
<1>10. ASSUME NEW n \in Notes, ReadWrites(n) PROVE (OneChange /\
      ScheduleFollowsEntity)'
  BY <1>10 DEF ReadWrites, Fault, TypeOK, OneChange, ScheduleFollowsEntity,
      Replaced
<1>11. ASSUME NEW n \in Notes, Delete(n) PROVE (OneChange /\
      ScheduleFollowsEntity)'
  BY <1>11 DEF Delete, Known, editVars, history, TypeOK, OneChange,
      ScheduleFollowsEntity, Replaced
<1>12. CASE ReadAll
  BY <1>12 DEF ReadAll, editVars, history, TypeOK, OneChange,
      ScheduleFollowsEntity, Replaced
<1>13. ASSUME NEW i \in Instances, Scan(i) PROVE (OneChange /\
      ScheduleFollowsEntity)'
  BY <1>13, ScanDoes, LaneTypes DEF Only, Rests, StepsTo, NoneSeen, rowVars,
      editVars, history, TypeOK, OneChange, ScheduleFollowsEntity, Replaced
<1>14. ASSUME NEW i \in Instances, Crash(i) PROVE (OneChange /\
      ScheduleFollowsEntity)'
  BY <1>14, CrashDoes, LaneTypes DEF Fault, Only, Rests, StepsTo, NoneSeen,
      rowVars, editVars, history, TypeOK, OneChange, ScheduleFollowsEntity,
      Replaced
<1>15. ASSUME NEW l \in Lanes, NEW n \in Notes, Claim(l, n) PROVE (OneChange
      /\ ScheduleFollowsEntity)'
  BY <1>15, ClaimDoes, LaneTypes DEF Only, Rests, StepsTo, NoneSeen, rowVars,
      editVars, history, TypeOK, OneChange, ScheduleFollowsEntity, Replaced
<1>16. ASSUME NEW l \in Lanes, LiveCheck(l) PROVE (OneChange /\
      ScheduleFollowsEntity)'
  BY <1>16, LiveCheckDoes, LaneTypes DEF Only, Rests, StepsTo, NoneSeen, rowVars,
      editVars, history, TypeOK, OneChange, ScheduleFollowsEntity, Replaced
<1>17. ASSUME NEW l \in Lanes, Deliver(l) PROVE (OneChange /\
      ScheduleFollowsEntity)'
  BY <1>17, DeliverDoes, LaneTypes DEF Only, Rests, StepsTo, NoneSeen, rowVars,
      editVars, history, TypeOK, OneChange, ScheduleFollowsEntity, Replaced
<1>18. ASSUME NEW l \in Lanes, MarkSent(l) PROVE (OneChange /\
      ScheduleFollowsEntity)'
  BY <1>18, MarkSentDoes, LaneTypes DEF Holds, Only, Rests, StepsTo, NoneSeen,
      rowVars, editVars, history, TypeOK, OneChange, ScheduleFollowsEntity,
      Replaced
<1>19. ASSUME NEW l \in Lanes, RecordFailure(l) PROVE (OneChange /\
      ScheduleFollowsEntity)'
  BY <1>19, RecordFailureDoes, LaneTypes DEF Holds, Exhausted, Only, Rests,
      StepsTo, NoneSeen, rowVars, editVars, history, TypeOK, OneChange,
      ScheduleFollowsEntity, Replaced
<1>20. ASSUME NEW l \in Lanes, DatabaseError(l) PROVE (OneChange /\
      ScheduleFollowsEntity)'
  BY <1>20, DatabaseErrorDoes, LaneTypes DEF Fault, Only, Rests, StepsTo,
      NoneSeen, rowVars, editVars, history, TypeOK, OneChange,
      ScheduleFollowsEntity, Replaced
<1>21. CASE UNCHANGED vars
  BY <1>21 DEF vars, rowVars, editVars, history,
         TypeOK, OneChange, ScheduleFollowsEntity, Replaced
<1> QED BY <1>1, <1>2, <1>3, <1>4, <1>5, <1>6, <1>7, <1>8, <1>9, <1>10, <1>11,
           <1>12, <1>13, <1>14, <1>15, <1>16, <1>17, <1>18, <1>19, <1>20,
           <1>21 DEF Next, LaneStep

\* Rows that are created are scheduled rows.
LEMMA InsertTypes ==
  ASSUME TypeOK, NEW S \in SUBSET Notes, NEW v \in 0..MaxEdits, Insert(S, v)
  PROVE  /\ status' \in [Notes -> {"none", "PENDING"} \cup Final]
         /\ version' \in [Notes -> 0..MaxEdits]
         /\ external' \in [Notes -> BOOLEAN]
         /\ UNCHANGED <<due, backoff, retries, lease, token>>
<1>1. status' \in [Notes -> {"none", "PENDING"} \cup Final]
  BY DEF Insert, TypeOK
<1>2. version' \in [Notes -> 0..MaxEdits]
  BY DEF Insert, TypeOK
<1>3. external' \in [Notes -> BOOLEAN]
  <2>1. PICK X \in SUBSET S :
          external' = [n \in Notes |-> IF n \in S THEN n \in X ELSE external[n]]
    BY DEF Insert
  <2>2. ASSUME NEW n \in Notes
        PROVE  (IF n \in S THEN n \in X ELSE external[n]) \in BOOLEAN
    <3>1. external[n] \in BOOLEAN
      BY DEF TypeOK
    <3>2. (n \in X) \in BOOLEAN
      OBVIOUS
    <3>3. CASE n \in S
      <4>1. (IF n \in S THEN n \in X ELSE external[n]) = (n \in X)
        BY <3>3, Zenon
      <4> QED BY <4>1, <3>2, Zenon
    <3>4. CASE n \notin S
      <4>1. (IF n \in S THEN n \in X ELSE external[n]) = external[n]
        BY <3>4, Zenon
      <4> QED BY <4>1, <3>1, Zenon
    <3> QED BY <3>3, <3>4
  <2> QED BY <2>1, <2>2
<1> QED BY <1>1, <1>2, <1>3 DEF Insert

\* Every step keeps the variables in their types.
LEMMA TypeStep ==
  ASSUME TypeOK, AtWork, Counted, [Next]_vars
  PROVE  TypeOK'
<1>1. ASSUME NEW e \in Editors, NEW wants \in BOOLEAN, Edit(e, wants) PROVE
      TypeOK'
  BY <1>1, NotificationQueueAssumption DEF Edit, rowVars, history, TypeOK, Final,
      Counted
<1>2. ASSUME NEW e \in Editors, CancelRows(e) PROVE TypeOK'
  BY <1>2, NotificationQueueAssumption DEF CancelRows, Replaced, history, TypeOK,
      Final, Counted
<1>3. ASSUME NEW e \in Editors, CreateRows(e) PROVE TypeOK'
  <2>1. PICK S \in SUBSET Notes : Insert(S, editor[e].version)
    BY <1>3 DEF CreateRows
  <2>2. editor[e].version \in 0..MaxEdits
    BY DEF TypeOK
  <2>3. /\ status' \in [Notes -> {"none", "PENDING"} \cup Final]
        /\ version' \in [Notes -> 0..MaxEdits]
        /\ external' \in [Notes -> BOOLEAN]
        /\ UNCHANGED <<due, backoff, retries, lease, token>>
    BY <2>1, <2>2, InsertTypes
  <2>4. editor' \in [Editors -> [pc : {"idle", "cancel", "create"},
                                 version : 0..MaxEdits, wants : BOOLEAN]]
    BY <1>3 DEF CreateRows, TypeOK
  <2> QED BY <1>3, <2>3, <2>4 DEF CreateRows, history, TypeOK
<1>4. ASSUME NEW e \in Editors, EditCut(e) PROVE TypeOK'
  <2>1. faults' \in 0..MaxFaults
    BY <1>4, NotificationQueueAssumption DEF EditCut, Fault, TypeOK
  <2> QED BY <1>4, <2>1 DEF EditCut, rowVars, history, TypeOK, Final
<1>5. ASSUME NEW n \in Notes, Announce(n) PROVE TypeOK'
  <2>1. {n} \in SUBSET Notes /\ 0 \in 0..MaxEdits /\ Insert({n}, 0)
    BY <1>5, NotificationQueueAssumption DEF Announce
  <2> QED BY <1>5, <2>1, InsertTypes DEF Announce, editVars, history, TypeOK
<1>6. ASSUME NEW n \in Notes, ComesDue(n) PROVE TypeOK'
  BY <1>6, NotificationQueueAssumption DEF ComesDue, editVars, history, TypeOK,
      Final, Counted
<1>7. ASSUME NEW n \in Notes, LeaseExpires(n) PROVE TypeOK'
  BY <1>7, NotificationQueueAssumption DEF LeaseExpires, Fault, editVars, TypeOK,
      Final, Counted
<1>8. ASSUME NEW n \in Notes, BackoffOver(n) PROVE TypeOK'
  BY <1>8, NotificationQueueAssumption DEF BackoffOver, editVars, history,
      TypeOK, Final, Counted
<1>9. ASSUME NEW n \in Notes, ReadLooks(n) PROVE TypeOK'
  BY <1>9, NotificationQueueAssumption DEF ReadLooks, Known, rowVars, history,
      TypeOK, Final, Counted
<1>10. ASSUME NEW n \in Notes, ReadWrites(n) PROVE TypeOK'
  <2>1. faults' \in 0..MaxFaults
    BY <1>10, NotificationQueueAssumption DEF ReadWrites, Fault, TypeOK
  <2>2. /\ status' \in [Notes -> {"none", "PENDING"} \cup Final]
    BY <1>10 DEF ReadWrites, TypeOK, Final
  <2>3. /\ torn' \in BOOLEAN /\ excused' \subseteq Notes
        /\ marking' \in [Notes -> {"none", "PENDING"} \cup Final]
    BY <1>10, ZenonT(40) DEF ReadWrites, TypeOK
  <2> QED BY <1>10, <2>1, <2>2, <2>3 DEF ReadWrites, TypeOK, Final
<1>11. ASSUME NEW n \in Notes, Delete(n) PROVE TypeOK'
  BY <1>11, NotificationQueueAssumption DEF Delete, Known, editVars, history,
      TypeOK, Final, Counted
<1>12. CASE ReadAll
  BY <1>12, NotificationQueueAssumption DEF ReadAll, editVars, history, TypeOK,
      Final, Counted
<1>13. ASSUME NEW i \in Instances, Scan(i) PROVE TypeOK'
  BY <1>13, ScanDoes, LaneTypes, NotificationQueueAssumption DEF Only, Rests,
      StepsTo, NoneSeen, rowVars, editVars, history, TypeOK, Final, LaneState,
      Counted
<1>14. ASSUME NEW i \in Instances, Crash(i) PROVE TypeOK'
  BY <1>14, CrashDoes, LaneTypes, NotificationQueueAssumption DEF Fault, Only,
      Rests, StepsTo, NoneSeen, rowVars, editVars, history, TypeOK, Final,
      LaneState, Counted
<1>15. ASSUME NEW l \in Lanes, NEW n \in Notes, Claim(l, n) PROVE TypeOK'
  <2>1. /\ lane' \in [Lanes -> LaneState]
        /\ UNCHANGED <<status, external, due, backoff, retries, version, editVars,
                       history, faults>>
    BY <1>15, ClaimDoes DEF Only
  <2>2. lease' \in [Notes -> {"free", "held", "expired"}]
    <3>1. lease' = lease \/ lease' = [lease EXCEPT ![n] = "held"]
      BY <1>15, ClaimDoes
    <3> QED BY <3>1 DEF TypeOK
  <2>3. token' \in [Notes -> Lanes \cup {NoLane}]
    <3>1. token' = token \/ token' = [token EXCEPT ![n] = l]
      BY <1>15, ClaimDoes
    <3> QED BY <3>1 DEF TypeOK
  <2> QED BY <2>1, <2>2, <2>3 DEF TypeOK, LaneState, editVars, history
<1>16. ASSUME NEW l \in Lanes, LiveCheck(l) PROVE TypeOK'
  BY <1>16, LiveCheckDoes, LaneTypes, NotificationQueueAssumption DEF Only, Rests,
      StepsTo, NoneSeen, rowVars, editVars, history, TypeOK, Final, LaneState,
      Counted
<1>17. ASSUME NEW l \in Lanes, Deliver(l) PROVE TypeOK'
  <2>1. lane' \in [Lanes -> LaneState] /\ UNCHANGED <<rowVars, editVars, faults>>
    BY <1>17, DeliverDoes DEF Only
  <2>2. lane[l].note \in Notes
    BY <1>17, DeliverDoes, LaneTypes DEF AtWork
  <2>3. excused' \subseteq Notes
    BY <1>17, <2>2, DeliverDoes DEF TypeOK
  <2>4. delivered' \in [once : SUBSET Notes, again : SUBSET Notes]
    <3>1. \/ delivered' = delivered
          \/ delivered' = [delivered EXCEPT !.again =
                                        delivered.again \cup {lane[l].note}]
          \/ delivered' = [delivered EXCEPT !.once =
                                        delivered.once \cup {lane[l].note}]
      BY <1>17, DeliverDoes
    <3> QED BY <2>2, <3>1 DEF TypeOK
  <2> QED BY <2>1, <2>3, <2>4 DEF TypeOK, LaneState, rowVars, editVars
<1>18. ASSUME NEW l \in Lanes, MarkSent(l) PROVE TypeOK'
  <2>1. /\ lane' \in [Lanes -> LaneState]
        /\ UNCHANGED <<external, due, backoff, retries, version, editVars,
                       history, faults>>
    BY <1>18, MarkSentDoes DEF Only
  <2>2. /\ status' \in [Notes -> {"none", "PENDING"} \cup Final]
        /\ lease' \in [Notes -> {"free", "held", "expired"}]
        /\ token' \in [Notes -> Lanes \cup {NoLane}]
    BY <1>18, MarkSentDoes, ZenonT(40) DEF TypeOK, Final
  <2> QED BY <2>1, <2>2 DEF TypeOK, LaneState, editVars, history
<1>19. ASSUME NEW l \in Lanes, RecordFailure(l) PROVE TypeOK'
  <2>1. /\ lane' \in [Lanes -> LaneState] /\ lane[l].pc = "fail"
        /\ UNCHANGED <<external, due, version, editVars, history, faults>>
    BY <1>19, RecordFailureDoes DEF Only
  <2>2. /\ lease' \in [Notes -> {"free", "held", "expired"}]
        /\ token' \in [Notes -> Lanes \cup {NoLane}]
    BY <1>19, RecordFailureDoes DEF TypeOK
  <2>5. backoff' \in [Notes -> BOOLEAN]
    BY <1>19, RecordFailureDoes DEF TypeOK
  <2>6. status' \in [Notes -> {"none", "PENDING"} \cup Final]
    BY <1>19, RecordFailureDoes, SMTT(20) DEF TypeOK, Final
  <2>3. /\ lane[l].note \in Notes
        /\ lane[l].seen[lane[l].note] + 1 \in 0..MaxRetries + MaxFaults
    <3>1. lane[l].note \in Notes
      BY <2>1, LaneTypes DEF AtWork
    <3>2. /\ lane[l].seen[lane[l].note] \in Nat
          /\ lane[l].seen[lane[l].note] < MaxRetries + faults
      BY <3>1, LaneTypes, NotificationQueueAssumption DEF Counted
    <3> QED BY <3>1, <3>2, NotificationQueueAssumption DEF TypeOK
  <2>4. retries' \in [Notes -> 0..MaxRetries + MaxFaults]
    BY <1>19, <2>3, RecordFailureDoes DEF TypeOK
  <2> QED BY <2>1, <2>2, <2>4, <2>5, <2>6 DEF TypeOK, LaneState, editVars, history
<1>20. ASSUME NEW l \in Lanes, DatabaseError(l) PROVE TypeOK'
  BY <1>20, DatabaseErrorDoes, LaneTypes, NotificationQueueAssumption DEF Fault,
      Only, Rests, StepsTo, NoneSeen, rowVars, editVars, history, TypeOK,
      Final, LaneState, Counted
<1>21. CASE UNCHANGED vars
  BY <1>21 DEF vars, rowVars, editVars, history,
         TypeOK, Final, Counted
<1> QED BY <1>1, <1>2, <1>3, <1>4, <1>5, <1>6, <1>7, <1>8, <1>9, <1>10, <1>11,
           <1>12, <1>13, <1>14, <1>15, <1>16, <1>17, <1>18, <1>19, <1>20,
           <1>21 DEF Next, LaneStep

\* What became of a row stays, but for what its owner does.
OutcomeStays ==
  \A n \in Notes :
    status[n] \in Final =>
      \/ status'[n] = status[n]
      \/ marking[n] = "PENDING" /\ marking'[n] = "none" /\ status'[n] = "PENDING"
      \/ status[n] = "SENT" /\ status'[n] = "READ"
      \/ status'[n] = "none" /\ Known(n)

\* No step changes an outcome otherwise.
LEMMA OutcomeStep ==
  ASSUME TypeOK, MarksOutcome, [Next]_vars
  PROVE  OutcomeStays
<1>1. ASSUME NEW e \in Editors, NEW wants \in BOOLEAN, Edit(e, wants) PROVE
      OutcomeStays
  BY <1>1 DEF Edit, rowVars, history, TypeOK, Final, MarksOutcome, OutcomeStays
<1>2. ASSUME NEW e \in Editors, CancelRows(e) PROVE OutcomeStays
  BY <1>2 DEF CancelRows, Replaced, history, TypeOK, Final, MarksOutcome,
      OutcomeStays
<1>3. ASSUME NEW e \in Editors, CreateRows(e) PROVE OutcomeStays
  BY <1>3 DEF CreateRows, Insert, Fresh, history, TypeOK, Final, MarksOutcome,
      OutcomeStays
<1>4. ASSUME NEW e \in Editors, EditCut(e) PROVE OutcomeStays
  BY <1>4 DEF EditCut, Fault, rowVars, history, TypeOK, Final, MarksOutcome,
      OutcomeStays
<1>5. ASSUME NEW n \in Notes, Announce(n) PROVE OutcomeStays
  BY <1>5 DEF Announce, Insert, Fresh, editVars, history, TypeOK, Final,
      MarksOutcome, OutcomeStays
<1>6. ASSUME NEW n \in Notes, ComesDue(n) PROVE OutcomeStays
  BY <1>6 DEF ComesDue, editVars, history, TypeOK, Final, MarksOutcome,
      OutcomeStays
<1>7. ASSUME NEW n \in Notes, LeaseExpires(n) PROVE OutcomeStays
  BY <1>7 DEF LeaseExpires, Fault, editVars, TypeOK, Final, MarksOutcome,
      OutcomeStays
<1>8. ASSUME NEW n \in Notes, BackoffOver(n) PROVE OutcomeStays
  BY <1>8 DEF BackoffOver, editVars, history, TypeOK, Final, MarksOutcome,
      OutcomeStays
<1>9. ASSUME NEW n \in Notes, ReadLooks(n) PROVE OutcomeStays
  BY <1>9 DEF ReadLooks, Known, rowVars, history, TypeOK, Final, MarksOutcome,
      OutcomeStays
<1>10. ASSUME NEW n \in Notes, ReadWrites(n) PROVE OutcomeStays
  BY <1>10 DEF ReadWrites, Fault, TypeOK, Final, MarksOutcome, OutcomeStays
<1>11. ASSUME NEW n \in Notes, Delete(n) PROVE OutcomeStays
  BY <1>11 DEF Delete, Known, editVars, history, TypeOK, Final, MarksOutcome,
      OutcomeStays
<1>12. CASE ReadAll
  BY <1>12 DEF ReadAll, editVars, history, TypeOK, Final, MarksOutcome,
      OutcomeStays
<1>13. ASSUME NEW i \in Instances, Scan(i) PROVE OutcomeStays
  <2>1. \A n \in Notes : status'[n] = status[n] \/ status[n] = "PENDING"
    BY <1>13, ScanDoes DEF rowVars, TypeOK, Holds
  <2> QED BY <2>1 DEF Final, OutcomeStays
<1>14. ASSUME NEW i \in Instances, Crash(i) PROVE OutcomeStays
  <2>1. \A n \in Notes : status'[n] = status[n] \/ status[n] = "PENDING"
    BY <1>14, CrashDoes DEF rowVars, TypeOK, Holds
  <2> QED BY <2>1 DEF Final, OutcomeStays
<1>15. ASSUME NEW l \in Lanes, NEW k \in Notes, Claim(l, k) PROVE OutcomeStays
  <2>1. \A n \in Notes : status'[n] = status[n] \/ status[n] = "PENDING"
    BY <1>15, ClaimDoes DEF rowVars, TypeOK, Holds
  <2> QED BY <2>1 DEF Final, OutcomeStays
<1>16. ASSUME NEW l \in Lanes, LiveCheck(l) PROVE OutcomeStays
  <2>1. \A n \in Notes : status'[n] = status[n] \/ status[n] = "PENDING"
    BY <1>16, LiveCheckDoes DEF rowVars, TypeOK, Holds
  <2> QED BY <2>1 DEF Final, OutcomeStays
<1>17. ASSUME NEW l \in Lanes, Deliver(l) PROVE OutcomeStays
  <2>1. \A n \in Notes : status'[n] = status[n] \/ status[n] = "PENDING"
    BY <1>17, DeliverDoes DEF rowVars, TypeOK, Holds
  <2> QED BY <2>1 DEF Final, OutcomeStays
<1>18. ASSUME NEW l \in Lanes, MarkSent(l) PROVE OutcomeStays
  <2>1. \A n \in Notes : status'[n] = status[n] \/ status[n] = "PENDING"
    BY <1>18, MarkSentDoes DEF rowVars, TypeOK, Holds
  <2> QED BY <2>1 DEF Final, OutcomeStays
<1>19. ASSUME NEW l \in Lanes, RecordFailure(l) PROVE OutcomeStays
  <2>1. \A n \in Notes : status'[n] = status[n] \/ status[n] = "PENDING"
    BY <1>19, RecordFailureDoes DEF rowVars, TypeOK, Holds
  <2> QED BY <2>1 DEF Final, OutcomeStays
<1>20. ASSUME NEW l \in Lanes, DatabaseError(l) PROVE OutcomeStays
  <2>1. \A n \in Notes : status'[n] = status[n] \/ status[n] = "PENDING"
    BY <1>20, DatabaseErrorDoes DEF rowVars, TypeOK, Holds
  <2> QED BY <2>1 DEF Final, OutcomeStays
<1>21. CASE UNCHANGED vars
  BY <1>21 DEF OutcomeStays, vars, rowVars, editVars, history
<1> QED BY <1>1, <1>2, <1>3, <1>4, <1>5, <1>6, <1>7, <1>8, <1>9, <1>10, <1>11,
           <1>12, <1>13, <1>14, <1>15, <1>16, <1>17, <1>18, <1>19, <1>20,
           <1>21 DEF Next, LaneStep

-----------------------------------------------------------------------------
\* In the beginning there are no rows.
LEMMA RowsInit == Init => IInv
<1> SUFFICES ASSUME Init PROVE IInv
  OBVIOUS
<1>1. TypeOK
  <2>1. NoneSeen \in [Notes -> 0..MaxRetries + MaxFaults]
    BY NotificationQueueAssumption DEF NoneSeen
  <2>2. lane \in [Lanes -> LaneState]
    BY <2>1 DEF Init, Resting, LaneState
  <2>3. /\ retries \in [Notes -> 0..MaxRetries + MaxFaults]
        /\ faults \in 0..MaxFaults /\ version \in [Notes -> 0..MaxEdits]
    BY NotificationQueueAssumption DEF Init
  <2>4. /\ entity \in [version : 0..MaxEdits, wants : BOOLEAN]
        /\ editor \in [Editors -> [pc : {"idle", "cancel", "create"},
                                   version : 0..MaxEdits, wants : BOOLEAN]]
    BY NotificationQueueAssumption DEF Init
  <2> QED BY <2>2, <2>3, <2>4 DEF Init, TypeOK, LaneState
<1>2. AtWork /\ Leased /\ Reached /\ Shown /\ MarksOutcome
  BY NotificationQueueAssumption
  DEF Init, AtWork, Leased, InHands, Reached, ReachedOnce, Shown, MarksOutcome,
      Resting, Final
<1>3. Counted
  BY NotificationQueueAssumption DEF Init, Counted, Resting, NoneSeen
<1>4. OneChange /\ ScheduleFollowsEntity /\ DeliveredTwiceOnlyIfExcused
  BY DEF Init, OneChange, ScheduleFollowsEntity, DeliveredTwiceOnlyIfExcused
<1> QED BY <1>1, <1>2, <1>3, <1>4 DEF IInv

\* Every step keeps the invariant.
LEMMA RowsStep == IInv /\ [Next]_vars => IInv'
BY TypeStep, AtWorkStep, LeasedStep, ReachedStep, ShownStep, MarksStep,
   CountedStep, ChangeStep, TwiceStep
DEF IInv

\* Lanes, leases, what was delivered, the counts and the changes are as the
\* invariant says, in every reachable state.
THEOREM QueueInvariant == Spec => []IInv
BY RowsInit, RowsStep, PTL DEF Spec

\* However many instances work on however many rows, a row reaches its owner
\* twice only for a reason no lease can rule out, and an entity at rest has no
\* row of an earlier version (notification-worker.service.ts,
\* notification-scheduler.service.ts).
THEOREM QueueKeepsRows == Spec => []RowsKept
<1>1. IInv => RowsKept
  BY DEF IInv, RowsKept
<1> QED BY <1>1, QueueInvariant, PTL

\* No step changes what became of a row, but for the owner's own.
THEOREM QueueOutcomeIsFinal == Spec => OutcomeIsFinal
<1>1. IInv /\ [Next]_vars => [OutcomeStays]_vars
  BY OutcomeStep DEF IInv
<1> QED BY <1>1, QueueInvariant, PTL DEF Spec, OutcomeIsFinal, OutcomeStays

-----------------------------------------------------------------------------
(* The rounds.  An instance that is sending a briefing and has not yet     *)
(* queued it is counted against the one briefing there may be, as long as  *)
(* a log row or an instance at work tells of it; and what tells the owner  *)
(* of a suggestion is the one instance whose insert made it.               *)

Types == Rounds!Types
Triggers == Rounds!Triggers
Days == Rounds!Days
AtBriefing == {"build", "log", "failed"}
InstanceType ==
  [pc : {"idle", "evaluate", "upsert", "notify", "brief"} \cup AtBriefing,
   running : BOOLEAN, key : Days, todo : SUBSET Triggers,
   at : {"none"} \cup Triggers \cup Types, due : SUBSET Types,
   out : BOOLEAN, clash : BOOLEAN]

\* An instance names what it is at, and has queued what it is about to log.
Placed(n) ==
  /\ n.pc # "idle" <=> n.running
  /\ n.pc \in AtBriefing => n.at \in Types
  /\ n.pc = "notify" => n.at \in Triggers
  /\ n.pc = "log" => n.out
  /\ n.out => n.pc \in {"log", "failed"}

RoundsTyped ==
  /\ day \in Days /\ minute \in 0..MaxMinute
  /\ inst \in [Instances -> InstanceType]
  /\ suggestion \in [Triggers \X Days -> {"none", "ACTIVE", "SNOOZED", "DISMISSED"}]
  /\ log \in [Types \X Days -> {"none", "SENT", "FAILED"}]
  /\ told \in [Triggers \X Days -> Nat]
  /\ queued \in [Types \X Days -> Nat] /\ unlogged \in [Types \X Days -> Nat]
  /\ \A i \in Instances : Placed(inst[i])

Sends(n, b) == n.pc \in AtBriefing /\ <<n.at, n.key>> = b
Unsent(b) == {i \in Instances : Sends(inst[i], b) /\ ~inst[i].out}
Waiting(b) == Cardinality(Unsent(b))
OnRecord(b) == log[b] # "none" \/ \E i \in Instances : Sends(inst[i], b)

BriefedSound ==
  \A b \in Types \X Days :
    queued[b] + Waiting(b) <= unlogged[b] + IF OnRecord(b) THEN 1 ELSE 0

Tells(n, k) == n.pc = "notify" /\ <<n.at, n.key>> = k
SuggestedSound ==
  \A k \in Triggers \X Days :
    /\ told[k] <= 1
    /\ \A i \in Instances :
         Tells(inst[i], k) => /\ told[k] = 0 /\ suggestion[k] # "none"
                              /\ \A j \in Instances : Tells(inst[j], k) => j = i
    /\ told[k] # 0 => suggestion[k] # "none"

RoundsInv == /\ RoundsTyped /\ BriefedSound /\ SuggestedSound
             /\ Rounds!ConflictNoticed

\* How far an instance's step changes who has yet to queue a briefing.
LEMMA UnsentMoves ==
  ASSUME RoundsTyped, NEW i \in Instances, NEW n, NEW b,
         inst' = [inst EXCEPT ![i] = n]
  PROVE  /\ Waiting(b) \in Nat /\ Waiting(b)' \in Nat
         /\ Waiting(b)' =
              Waiting(b)
              + (IF Sends(n, b) /\ ~n.out THEN 1 ELSE 0)
              - (IF Sends(inst[i], b) /\ ~inst[i].out THEN 1 ELSE 0)
<1> DEFINE U == Unsent(b)
           V == Unsent(b)'
<1>1. V = IF Sends(n, b) /\ ~n.out THEN U \cup {i} ELSE U \ {i}
  BY DEF Unsent, Sends, RoundsTyped
<1>2. i \in U <=> Sends(inst[i], b) /\ ~inst[i].out
  BY DEF Unsent
<1>3. IsFiniteSet(U) /\ IsFiniteSet(Instances)
  <2>1. IsFiniteSet(Instances)
    BY RoundsAssumption DEF Rounds!DailyRoundsAssumption, Rounds!IsFiniteSet, IsFiniteSet
  <2>2. U \subseteq Instances
    BY DEF Unsent
  <2> QED BY <2>1, <2>2, FS_Subset
<1>4. /\ Cardinality(U) \in Nat
      /\ Cardinality(U \cup {i}) = IF i \in U THEN Cardinality(U) ELSE Cardinality(U) + 1
      /\ Cardinality(U \ {i}) = IF i \in U THEN Cardinality(U) - 1 ELSE Cardinality(U)
  BY <1>3, FS_CardinalityType, FS_AddElement, FS_RemoveElement
<1>5. Cardinality(V) = Cardinality(U) + (IF Sends(n, b) /\ ~n.out THEN 1 ELSE 0)
                                      - (IF i \in U THEN 1 ELSE 0)
  <2>1. CASE Sends(n, b) /\ ~n.out
    <3> HIDE DEF U, V
    <3> QED BY <1>1, <1>4, <2>1
  <2>2. CASE ~(Sends(n, b) /\ ~n.out)
    <3> HIDE DEF U, V
    <3> QED BY <1>1, <1>4, <2>2
  <2> QED BY <2>1, <2>2
<1>6. Cardinality(V) \in Nat
  <2>1. IsFiniteSet(V)
    <3>1. V \subseteq Instances
      BY DEF Unsent
    <3> QED BY <3>1, <1>3, FS_Subset
  <2> QED BY <2>1, FS_CardinalityType
<1> QED BY <1>2, <1>4, <1>5, <1>6 DEF Waiting

\* Who is on the record but for instance i.
LEMMA RecordMoves ==
  ASSUME RoundsTyped, NEW i \in Instances, NEW n, NEW b,
         inst' = [inst EXCEPT ![i] = n]
  PROVE  /\ OnRecord(b)' <=> \/ log'[b] # "none" \/ Sends(n, b)
                             \/ \E j \in Instances \ {i} : Sends(inst[j], b)
         /\ OnRecord(b) <=> \/ log[b] # "none" \/ Sends(inst[i], b)
                            \/ \E j \in Instances \ {i} : Sends(inst[j], b)
BY DEF OnRecord, Sends, RoundsTyped

\* A step of an instance that is not at a briefing, and does not come to one.
LEMMA BriefedRests ==
  ASSUME RoundsTyped, BriefedSound, NEW i \in Instances, NEW n,
         inst' = [inst EXCEPT ![i] = n], UNCHANGED <<log, queued, unlogged>>,
         inst[i].pc \notin AtBriefing, n.pc \notin AtBriefing
  PROVE  BriefedSound'
<1> SUFFICES ASSUME NEW b \in Types \X Days
             PROVE  queued[b] + Waiting(b)' <=
                      unlogged[b] + IF OnRecord(b)' THEN 1 ELSE 0
  BY DEF BriefedSound, Types, Days, Rounds!Types, Rounds!Days
<1>1. ~Sends(n, b) /\ ~Sends(inst[i], b)
  BY DEF Sends
<1>2. OnRecord(b)' <=> OnRecord(b)
  BY <1>1, RecordMoves
<1>3. /\ Waiting(b) \in Nat /\ Waiting(b)' \in Nat
      /\ Waiting(b)' =
              Waiting(b)
              + (IF Sends(n, b) /\ ~n.out THEN 1 ELSE 0)
              - (IF Sends(inst[i], b) /\ ~inst[i].out THEN 1 ELSE 0)
  BY UnsentMoves, Zenon
<1>4. Waiting(b)' = Waiting(b)
  BY <1>1, <1>3
<1> QED BY <1>2, <1>4 DEF BriefedSound

\* A step of an instance that neither tells of a suggestion nor will.
LEMMA SuggestedRests ==
  ASSUME RoundsTyped, SuggestedSound, NEW i \in Instances, NEW n,
         inst' = [inst EXCEPT ![i] = n], UNCHANGED told, n.pc # "notify",
         \A k \in Triggers \X Days : suggestion[k] # "none" => suggestion'[k] # "none"
  PROVE  SuggestedSound'
BY DEF SuggestedSound, Tells, RoundsTyped, Triggers, Days, Rounds!Triggers, Rounds!Days

\* What a step of an instance does, as far as the invariant tells.
LEMMA ConflictRests ==
  ASSUME RoundsTyped, Rounds!ConflictNoticed, NEW i \in Instances, NEW n,
         inst' = [inst EXCEPT ![i] = n],
         \A k \in Triggers \X Days : suggestion[k] # "none" => suggestion'[k] # "none",
         n.clash => \/ suggestion'[<<"CALENDAR_CONFLICT", n.key>>] # "none"
                    \/ n.pc \in {"upsert", "notify"} /\ "CALENDAR_CONFLICT" \in n.todo
  PROVE  Rounds!ConflictNoticed'
<1>1. \A j \in Instances : <<"CALENDAR_CONFLICT", inst[j].key>> \in Triggers \X Days
  BY DEF RoundsTyped, InstanceType, Triggers, Rounds!Triggers
<1> QED BY <1>1 DEF Rounds!ConflictNoticed, Rounds!None, RoundsTyped

\* What an instance does leaves all but itself as it was, or adds to it.
LEMMA InstanceTyped ==
  ASSUME RoundsTyped, NEW i \in Instances, NEW n \in InstanceType, Placed(n),
         inst' = [inst EXCEPT ![i] = n], UNCHANGED <<day, minute>>,
         suggestion' = suggestion \/ \E k \in Triggers \X Days :
           suggestion' = [suggestion EXCEPT ![k] = "ACTIVE"],
         told' = told \/ \E k \in Triggers \X Days :
           told' = [told EXCEPT ![k] = @ + 1],
         log' = log \/ \E b \in Types \X Days, s \in {"SENT", "FAILED"} :
           log' = [log EXCEPT ![b] = IF @ = "none" THEN s ELSE @],
         queued' = queued \/ \E b \in Types \X Days :
           queued' = [queued EXCEPT ![b] = @ + 1],
         unlogged' = unlogged \/ \E b \in Types \X Days, d \in {0, 1} :
           unlogged' = [unlogged EXCEPT ![b] = @ + d]
  PROVE  RoundsTyped'
<1>1. inst' \in [Instances -> InstanceType] /\ \A j \in Instances : Placed(inst'[j])
  BY DEF RoundsTyped
<1>2. suggestion' \in [Triggers \X Days -> {"none", "ACTIVE", "SNOOZED", "DISMISSED"}]
  BY DEF RoundsTyped
<1>3. log' \in [Types \X Days -> {"none", "SENT", "FAILED"}]
  BY DEF RoundsTyped
<1>4. told' \in [Triggers \X Days -> Nat]
  BY DEF RoundsTyped
<1>5. queued' \in [Types \X Days -> Nat]
  BY DEF RoundsTyped
<1>6. unlogged' \in [Types \X Days -> Nat]
  BY DEF RoundsTyped
<1> QED BY <1>1, <1>2, <1>3, <1>4, <1>5, <1>6
   DEF RoundsTyped, Types, Days, Triggers, Rounds!Types, Rounds!Days, Rounds!Triggers

LEMMA IdleTyped == Rounds!Idle \in InstanceType /\ Placed(Rounds!Idle)
BY RoundsAssumption
DEF Rounds!DailyRoundsAssumption, InstanceType, Placed, Rounds!Idle, AtBriefing,
    Days, Rounds!Days, Rounds!None, Types, Rounds!Types, Triggers, Rounds!Triggers

\* The timer rings, the reasons are looked for, the briefings that are due are
\* found, the tick is over.
LEMMA TickKeeps ==
  ASSUME RoundsInv, NEW i \in Instances,
         \/ Rounds!Tick(i) \/ Rounds!Dispatch(i)
         \/ Rounds!End(i) \/ Rounds!UserFails(i)
  PROVE  RoundsInv'
<1> DEFINE n == inst'[i]
<1> USE DEF RoundsInv
<1>1. /\ inst' = [inst EXCEPT ![i] = n] /\ inst[i] \in InstanceType
      /\ Placed(inst[i]) /\ inst \in [Instances -> InstanceType]
  BY DEF RoundsTyped, Rounds!Tick, Rounds!Dispatch, Rounds!End, Rounds!UserFails,
         Rounds!Move
<1>2. n \in InstanceType /\ Placed(n)
  <2>1. CASE Rounds!Tick(i)
    <3>1. n = [Rounds!Idle EXCEPT !.pc = "evaluate", !.running = TRUE, !.key = day]
      BY <2>1, <1>1 DEF Rounds!Tick, Rounds!Move
    <3>2. Rounds!Idle \in InstanceType /\ day \in Days /\ ~Rounds!Idle.out
      BY IdleTyped DEF RoundsTyped, Rounds!Idle
    <3>3. n \in InstanceType
      BY <3>1, <3>2 DEF InstanceType
    <3>4. n.pc = "evaluate" /\ n.running /\ ~n.out
      BY <3>1, <3>2 DEF InstanceType
    <3> QED BY <3>3, <3>4 DEF Placed, AtBriefing
  <2>2. CASE Rounds!Dispatch(i)
    <3>1. n = [inst[i] EXCEPT !.pc = "brief", !.due =
                {t \in Types : Rounds!IsDue(minute, pref.due[t])}]
      BY <2>2, <1>1 DEF Rounds!Dispatch, Rounds!Move, Types
    <3>2. inst[i].pc = "upsert" /\ inst[i].running /\ ~inst[i].out
      BY <2>2, <1>1 DEF Rounds!Dispatch, Placed
    <3>3. n \in InstanceType
      BY <3>1, <1>1 DEF InstanceType
    <3>4. n.pc = "brief" /\ n.running /\ ~n.out
      BY <3>1, <3>2, <1>1 DEF InstanceType
    <3> QED BY <3>3, <3>4 DEF Placed, AtBriefing
  <2>3. CASE Rounds!End(i) \/ Rounds!UserFails(i)
    <3>1. n = Rounds!Idle
      BY <2>3, <1>1 DEF Rounds!End, Rounds!UserFails, Rounds!Move, Rounds!Ended
    <3> QED BY <3>1, IdleTyped
  <2> QED BY <2>1, <2>2, <2>3
<1>3. /\ n.pc \notin AtBriefing \cup {"notify"}
      /\ inst[i].pc \notin AtBriefing
      /\ n.clash => suggestion[<<"CALENDAR_CONFLICT", n.key>>] # "none"
  <2>1. CASE Rounds!Tick(i)
    BY <2>1, <1>1 DEF Rounds!Tick, Rounds!Move, AtBriefing, Rounds!Idle
  <2>2. CASE Rounds!Dispatch(i)
    <3>1. /\ n.pc = "brief" /\ n.clash = inst[i].clash /\ n.key = inst[i].key
          /\ inst[i].pc = "upsert" /\ inst[i].todo = {}
      BY <2>2, <1>1 DEF Rounds!Dispatch, Rounds!Move, InstanceType
    <3> QED BY <3>1 DEF AtBriefing, Rounds!ConflictNoticed, Rounds!None
  <2>3. CASE Rounds!End(i) \/ Rounds!UserFails(i)
    BY <2>3, <1>1 DEF Rounds!End, Rounds!UserFails, Rounds!Move, Rounds!Ended, AtBriefing,
       Rounds!Idle
  <2> QED BY <2>1, <2>2, <2>3
<1>4. UNCHANGED <<day, minute, suggestion, told, log, queued, unlogged>>
  BY DEF Rounds!Tick, Rounds!Dispatch, Rounds!End, Rounds!UserFails, Rounds!clock,
         Rounds!suggestions, Rounds!briefings
<1> HIDE DEF n
<1>5. RoundsTyped'
  BY <1>1, <1>2, <1>4, InstanceTyped
<1>6. BriefedSound'
  BY <1>1, <1>3, <1>4, BriefedRests
<1>7. SuggestedSound'
  BY <1>1, <1>3, <1>4, SuggestedRests
<1>8. Rounds!ConflictNoticed'
  BY <1>1, <1>3, <1>4, ConflictRests
<1> QED BY <1>5, <1>6, <1>7, <1>8

\* Meetings that take the same time have neighbours that do.
LEMMA NeighboursMeet ==
  ASSUME NEW s \in Calendars, Rounds!Overlap(s)
  PROVE  Rounds!FindConflict(s) # {}
<1>1. /\ s \in Seq(Rounds!Meeting) /\ Len(s) \in Nat /\ DOMAIN s = 1..Len(s)
      /\ \A i, j \in DOMAIN s : i < j => s[i].start <= s[j].start
      /\ \A i \in DOMAIN s : s[i].start \in Int /\ s[i].end \in Int
  <2>1. /\ s \in Seq(Rounds!Meeting)
        /\ \A i, j \in DOMAIN s : i < j => s[i].start <= s[j].start
    BY RoundsAssumption DEF Rounds!DailyRoundsAssumption
  <2>2. \A i \in DOMAIN s : s[i] \in Rounds!Meeting
    BY <2>1
  <2>3. Len(s) \in Nat /\ DOMAIN s = 1..Len(s)
    BY <2>1
  <2> QED BY <2>1, <2>2, <2>3 DEF Rounds!Meeting
<1>2. PICK i, j \in DOMAIN s : i < j /\ s[j].start < s[i].end
  BY DEF Rounds!Overlap
<1>3. i + 1 \in DOMAIN s /\ i + 1 \in 2..Len(s) /\ i = (i + 1) - 1
  BY <1>1, <1>2
<1>4. s[i + 1].start <= s[j].start
  BY <1>1, <1>2, <1>3
<1>5. s[i + 1].start < s[(i + 1) - 1].end
  BY <1>1, <1>2, <1>3, <1>4
<1>6. i + 1 \in {k \in 2..Len(s) : s[k].start < s[k - 1].end}
  BY <1>3, <1>5
<1> QED BY <1>6 DEF Rounds!FindConflict

LEMMA EvaluateKeeps ==
  ASSUME RoundsInv, NEW i \in Instances, NEW overdue \in BOOLEAN,
         NEW s \in Calendars, Rounds!Evaluate(i, overdue, s)
  PROVE  RoundsInv'
<1> DEFINE n == inst'[i]
<1> USE DEF RoundsInv
<1>1. /\ inst' = [inst EXCEPT ![i] = n] /\ inst[i] \in InstanceType
      /\ Placed(inst[i]) /\ inst \in [Instances -> InstanceType]
  BY DEF RoundsTyped, Rounds!Evaluate, Rounds!Move
<1>2. PICK clash \in BOOLEAN, todo \in SUBSET Triggers :
        /\ n = [inst[i] EXCEPT !.pc = "upsert", !.clash = clash, !.todo = todo]
        /\ clash => "CALENDAR_CONFLICT" \in todo
  <2> DEFINE fires == {t \in Triggers :
               CASE t = "TASK_OVERDUE" -> overdue
                 [] t = "BUSY_DAY" -> Len(s) >= BusyDay
                 [] t = "CALENDAR_CONFLICT" -> Rounds!FindConflict(s) # {}}
             silent == \/ ~pref.proactive
                       \/ Rounds!IsQuietHours(minute, pref.quiet[1], pref.quiet[2])
             clash == ~silent /\ Rounds!Overlap(s)
             todo == IF silent THEN {} ELSE fires
  <2>1. n = [inst[i] EXCEPT !.pc = "upsert", !.clash = clash, !.todo = todo]
    BY <1>1 DEF Rounds!Evaluate, Rounds!Move, Triggers
  <2>2. clash => "CALENDAR_CONFLICT" \in todo
    <3>1. SUFFICES ASSUME clash PROVE "CALENDAR_CONFLICT" \in fires
      OBVIOUS
    <3>2. Rounds!FindConflict(s) # {}
      BY <3>1, NeighboursMeet
    <3> QED BY <3>2 DEF Triggers, Rounds!Triggers
  <2>3. todo \in SUBSET Triggers /\ clash \in BOOLEAN
    OBVIOUS
  <2> HIDE DEF clash, todo
  <2> QED BY <2>1, <2>2, <2>3
<1>3. n \in InstanceType /\ Placed(n)
  <2>1. inst[i].pc = "evaluate" /\ inst[i].running /\ ~inst[i].out
    BY <1>1 DEF Rounds!Evaluate, Placed
  <2>2. n \in InstanceType
    BY <1>1, <1>2 DEF InstanceType
  <2>3. n.pc = "upsert" /\ n.running /\ ~n.out
    BY <1>1, <1>2, <2>1 DEF InstanceType
  <2> QED BY <2>2, <2>3 DEF Placed, AtBriefing
<1>4. /\ n.pc \notin AtBriefing \cup {"notify"}
      /\ inst[i].pc \notin AtBriefing
      /\ n.clash => n.pc \in {"upsert", "notify"} /\ "CALENDAR_CONFLICT" \in n.todo
  BY <1>1, <1>2 DEF InstanceType, AtBriefing, Rounds!Evaluate
<1>5. UNCHANGED <<day, minute, suggestion, told, log, queued, unlogged>>
  BY DEF Rounds!Evaluate, Rounds!clock, Rounds!suggestions, Rounds!briefings
<1> HIDE DEF n
<1>6. RoundsTyped'
  BY <1>1, <1>3, <1>5, InstanceTyped
<1>7. BriefedSound'
  BY <1>1, <1>4, <1>5, BriefedRests
<1>8. SuggestedSound'
  BY <1>1, <1>4, <1>5, SuggestedRests
<1>9. Rounds!ConflictNoticed'
  BY <1>1, <1>4, <1>5, ConflictRests
<1> QED BY <1>6, <1>7, <1>8, <1>9

LEMMA UpsertKeeps ==
  ASSUME RoundsInv, NEW i \in Instances, Rounds!Upsert(i)
  PROVE  RoundsInv'
<1> DEFINE n == inst'[i]
           t == Rounds!First(inst[i].todo)
           k == <<t, inst[i].key>>
<1> USE DEF RoundsInv
<1>1. /\ inst' = [inst EXCEPT ![i] = n] /\ inst[i] \in InstanceType
      /\ Placed(inst[i]) /\ inst \in [Instances -> InstanceType]
      /\ inst[i].pc = "upsert" /\ inst[i].todo \subseteq Triggers
      /\ inst[i].key \in Days
  BY DEF RoundsTyped, Rounds!Upsert, Rounds!Move, InstanceType
<1>2. UNCHANGED <<day, minute, told, log, queued, unlogged>>
  BY DEF Rounds!Upsert, Rounds!clock, Rounds!briefings
<1>3. t \in Triggers /\ t \in inst[i].todo
  BY <1>1 DEF Rounds!First, Rounds!Upsert, Triggers, Rounds!Triggers
<1>4. k \in Triggers \X Days
  BY <1>1, <1>3
<1> DEFINE rest == [inst[i] EXCEPT !.todo = @ \ {t}]
<1>5. /\ \/ /\ suggestion[k] = "none"
            /\ suggestion' = [suggestion EXCEPT ![k] = "ACTIVE"]
            /\ \/ n = [rest EXCEPT !.pc = "notify", !.at = t]
               \/ n = rest
         \/ suggestion[k] # "none" /\ n = rest /\ suggestion' = suggestion
  BY <1>1 DEF Rounds!Upsert, Rounds!Move, Rounds!Created, Rounds!None
<1>6. \/ n = [rest EXCEPT !.pc = "notify", !.at = t] \/ n = rest
  BY <1>5
<1>7. /\ n.pc \in {"upsert", "notify"} /\ n.todo = inst[i].todo \ {t}
      /\ n.key = inst[i].key /\ n.clash = inst[i].clash /\ n.out = inst[i].out
      /\ n.running = inst[i].running
      /\ n.pc = "notify" => n.at = t
      /\ n.pc = "notify" => suggestion[k] = "none"
  BY <1>1, <1>5, <1>6 DEF InstanceType
<1>8. n \in InstanceType
  BY <1>1, <1>3, <1>6 DEF InstanceType
<1>9. Placed(n)
  BY <1>1, <1>3, <1>7 DEF Placed, AtBriefing
<1>10. \A m \in Triggers \X Days : suggestion[m] # "none" => suggestion'[m] # "none"
  BY <1>5 DEF RoundsTyped
<1>11. suggestion'[k] # "none"
  BY <1>5, <1>4 DEF RoundsTyped
<1>12. suggestion' = suggestion \/ \E m \in Triggers \X Days :
           suggestion' = [suggestion EXCEPT ![m] = "ACTIVE"]
  BY <1>4, <1>5
<1> HIDE DEF n, rest, t
<1>13. RoundsTyped'
  BY <1>1, <1>2, <1>8, <1>9, <1>12, InstanceTyped
<1>14. BriefedSound'
  <2>1. n.pc \notin AtBriefing /\ inst[i].pc \notin AtBriefing
    BY <1>1, <1>7 DEF AtBriefing
  <2> QED BY <1>1, <1>2, <2>1, BriefedRests
<1>15. SuggestedSound'
  <2>1. CASE n.pc # "notify"
    BY <2>1, <1>1, <1>2, <1>10, SuggestedRests
  <2>2. CASE n.pc = "notify"
    <3>1. \A m \in Triggers \X Days : Tells(n, m) => m = k
      BY <2>2, <1>7 DEF Tells
    <3>2. told[k] = 0 /\ \A j \in Instances : ~Tells(inst[j], k)
      BY <2>2, <1>4, <1>7 DEF SuggestedSound
    <3> HIDE DEF k
    <3> SUFFICES ASSUME NEW m \in Triggers \X Days
                 PROVE  /\ told[m] <= 1
                        /\ \A l \in Instances :
                             Tells(inst'[l], m) =>
                               /\ told[m] = 0 /\ suggestion'[m] # "none"
                               /\ \A j \in Instances : Tells(inst'[j], m) => j = l
                        /\ told[m] # 0 => suggestion'[m] # "none"
      BY <1>2 DEF SuggestedSound, Triggers, Days, Rounds!Triggers, Rounds!Days
    <3>3. \A j \in Instances : j # i => inst'[j] = inst[j]
      BY <1>1
    <3>4. inst'[i] = n
      BY <1>1
    <3> QED BY <3>1, <3>2, <3>3, <3>4, <1>10, <1>11 DEF SuggestedSound
  <2> QED BY <2>1, <2>2
<1>16. Rounds!ConflictNoticed'
  <2>1. n.clash => \/ suggestion'[<<"CALENDAR_CONFLICT", n.key>>] # "none"
                   \/ n.pc \in {"upsert", "notify"} /\ "CALENDAR_CONFLICT" \in n.todo
    <3>1. SUFFICES ASSUME inst[i].clash, "CALENDAR_CONFLICT" \notin n.todo
                   PROVE  suggestion'[<<"CALENDAR_CONFLICT", n.key>>] # "none"
      BY <1>7
    <3>2. CASE t = "CALENDAR_CONFLICT"
      BY <3>2, <1>7, <1>11
    <3>3. CASE t # "CALENDAR_CONFLICT"
      <4>1. suggestion[<<"CALENDAR_CONFLICT", inst[i].key>>] # "none"
        BY <3>1, <3>3, <1>7 DEF Rounds!ConflictNoticed, Rounds!None
      <4>2. <<"CALENDAR_CONFLICT", inst[i].key>> \in Triggers \X Days
        BY <1>1 DEF Triggers, Rounds!Triggers
      <4> QED BY <4>1, <4>2, <1>7, <1>10
    <3> QED BY <3>2, <3>3
  <2> QED BY <2>1, <1>1, <1>10, ConflictRests
<1> QED BY <1>13, <1>14, <1>15, <1>16

LEMMA NotifyKeeps ==
  ASSUME RoundsInv, NEW i \in Instances, Rounds!Notify(i)
  PROVE  RoundsInv'
<1> DEFINE n == [inst[i] EXCEPT !.pc = "upsert", !.at = "none"]
           k == <<inst[i].at, inst[i].key>>
<1> USE DEF RoundsInv
<1>1. /\ inst' = [inst EXCEPT ![i] = n] /\ inst[i] \in InstanceType
      /\ Placed(inst[i]) /\ inst \in [Instances -> InstanceType]
      /\ inst[i].pc = "notify" /\ told' = [told EXCEPT ![k] = @ + 1]
  BY DEF RoundsTyped, Rounds!Notify, Rounds!Move, Rounds!None
<1>2. UNCHANGED <<day, minute, suggestion, log, queued, unlogged>>
  BY DEF Rounds!Notify, Rounds!clock, Rounds!briefings
<1>3. n \in InstanceType /\ k \in Triggers \X Days
  BY <1>1 DEF InstanceType, Placed
<1>4. /\ n.pc = "upsert" /\ n.running = inst[i].running /\ n.out = inst[i].out
      /\ n.key = inst[i].key /\ n.clash = inst[i].clash /\ n.todo = inst[i].todo
  BY <1>1 DEF InstanceType
<1>5. Placed(n)
  BY <1>1, <1>4 DEF Placed, AtBriefing
<1>6. Tells(inst[i], k)
  BY <1>1 DEF Tells
<1> HIDE DEF n, k
<1>7. RoundsTyped'
  BY <1>1, <1>2, <1>3, <1>5, InstanceTyped
<1>8. BriefedSound'
  <2>1. n.pc \notin AtBriefing /\ inst[i].pc \notin AtBriefing
    BY <1>1, <1>4 DEF AtBriefing
  <2> QED BY <1>1, <1>2, <2>1, BriefedRests
<1>9. SuggestedSound'
  <2>1. \A j \in Instances : j # i => inst'[j] = inst[j]
    BY <1>1
  <2>2. \A m : ~Tells(inst'[i], m)
    BY <1>1, <1>4 DEF Tells
  <2>3. told[k] = 0 /\ suggestion[k] # "none" /\ \A j \in Instances : Tells(inst[j], k) => j = i
    BY <1>3, <1>6 DEF SuggestedSound
  <2>4. told'[k] = 1 /\ \A m \in Triggers \X Days : m # k => told'[m] = told[m]
    BY <2>3, <1>1, <1>3 DEF RoundsTyped
  <2> SUFFICES ASSUME NEW m \in Triggers \X Days
               PROVE  /\ told'[m] <= 1
                      /\ \A l \in Instances :
                           Tells(inst'[l], m) =>
                             /\ told'[m] = 0 /\ suggestion[m] # "none"
                             /\ \A j \in Instances : Tells(inst'[j], m) => j = l
                      /\ told'[m] # 0 => suggestion[m] # "none"
    BY <1>2 DEF SuggestedSound, Triggers, Days, Rounds!Triggers, Rounds!Days
  <2> QED BY <2>1, <2>2, <2>3, <2>4 DEF SuggestedSound
<1>10. Rounds!ConflictNoticed'
  <2>1. n.clash => \/ suggestion[<<"CALENDAR_CONFLICT", n.key>>] # "none"
                   \/ n.pc \in {"upsert", "notify"} /\ "CALENDAR_CONFLICT" \in n.todo
    BY <1>4 DEF Rounds!ConflictNoticed, Rounds!None
  <2> QED BY <2>1, <1>1, <1>2, ConflictRests
<1> QED BY <1>7, <1>8, <1>9, <1>10

\* A step of instance i, now n, is about briefing c only, and what it adds to
\* the one side of BriefedSound it adds to the other.
About(i, n, c) ==
  \A b \in Types \X Days :
    /\ Sends(inst[i], b) \/ Sends(n, b) => b = c
    /\ b # c => /\ log'[b] = log[b] /\ queued'[b] = queued[b]
                /\ unlogged'[b] = unlogged[b]
Balanced(i, n, c) ==
  queued'[c] + (IF Sends(n, c) /\ ~n.out THEN 1 ELSE 0)
             + unlogged[c] + (IF OnRecord(c) THEN 1 ELSE 0)
  <= unlogged'[c] + (IF OnRecord(c)' THEN 1 ELSE 0)
     + queued[c] + (IF Sends(inst[i], c) /\ ~inst[i].out THEN 1 ELSE 0)

LEMMA BriefingMoves ==
  ASSUME RoundsTyped, BriefedSound, NEW i \in Instances, NEW n,
         inst' = [inst EXCEPT ![i] = n], NEW c \in Types \X Days,
         About(i, n, c), Balanced(i, n, c), RoundsTyped'
  PROVE  BriefedSound'
<1> SUFFICES ASSUME NEW b \in Types \X Days
             PROVE  queued'[b] + Waiting(b)' <=
                      unlogged'[b] + IF OnRecord(b)' THEN 1 ELSE 0
  BY DEF BriefedSound, Types, Days, Rounds!Types, Rounds!Days
<1>1. /\ Waiting(b) \in Nat /\ Waiting(b)' \in Nat
      /\ Waiting(b)' =
              Waiting(b)
              + (IF Sends(n, b) /\ ~n.out THEN 1 ELSE 0)
              - (IF Sends(inst[i], b) /\ ~inst[i].out THEN 1 ELSE 0)
  BY ONLY UnsentMoves, RoundsTyped, i \in Instances, inst' = [inst EXCEPT ![i] = n], Zenon
<1>2. /\ queued[b] \in Nat /\ unlogged[b] \in Nat
      /\ queued'[b] \in Nat /\ unlogged'[b] \in Nat
  BY DEF RoundsTyped, Types, Days, Rounds!Types, Rounds!Days
<1>3. queued[b] + Waiting(b) <= unlogged[b] + IF OnRecord(b) THEN 1 ELSE 0
  BY DEF BriefedSound
<1>4. CASE b = c
  BY <1>1, <1>2, <1>3, <1>4 DEF Balanced
<1>5. CASE b # c
  <2>1. OnRecord(b) => OnRecord(b)'
    BY <1>5, RecordMoves DEF About
  <2>2. Waiting(b)' = Waiting(b)
    BY <1>1, <1>5 DEF About
  <2> QED BY <1>1, <1>2, <1>3, <1>5, <2>1, <2>2 DEF About
<1> QED BY <1>4, <1>5

\* What a step at a briefing does to the rest.
LEMMA BriefingRests ==
  ASSUME RoundsInv, NEW i \in Instances, NEW n \in InstanceType, Placed(n),
         inst' = [inst EXCEPT ![i] = n], inst[i].pc \in AtBriefing \cup {"brief"},
         n.pc \in AtBriefing \cup {"brief", "idle"},
         n.clash => inst[i].clash /\ n.key = inst[i].key,
         UNCHANGED <<suggestion, told>>
  PROVE  SuggestedSound' /\ Rounds!ConflictNoticed'
<1> USE DEF RoundsInv
<1>1. n.pc # "notify"
  BY DEF AtBriefing
<1>2. SuggestedSound'
  BY <1>1, SuggestedRests
<1>3. n.clash => suggestion[<<"CALENDAR_CONFLICT", n.key>>] # "none"
  BY DEF AtBriefing, Rounds!ConflictNoticed, Rounds!None
<1>4. Rounds!ConflictNoticed'
  BY <1>3, ConflictRests
<1> QED BY <1>2, <1>4

LEMMA CheckKeeps ==
  ASSUME RoundsInv, NEW i \in Instances, NEW t \in Types, Rounds!Check(i, t)
  PROVE  RoundsInv'
<1> DEFINE n == inst'[i]
           rest == [inst[i] EXCEPT !.due = @ \ {t}]
<1> USE DEF RoundsInv
<1>1. /\ inst' = [inst EXCEPT ![i] = n] /\ inst[i] \in InstanceType
      /\ Placed(inst[i]) /\ inst \in [Instances -> InstanceType]
      /\ inst[i].pc = "brief"
  BY DEF RoundsTyped, Rounds!Check, Rounds!Move
<1>2. UNCHANGED <<day, minute, suggestion, told, log, queued>>
  BY DEF Rounds!Check, Rounds!clock, Rounds!suggestions
<1>3. PICK c \in Types \X Days : c = <<t, inst[i].key>>
  BY <1>1 DEF InstanceType
<1>4. \/ n = rest /\ unlogged' = unlogged
      \/ /\ log[c] = "none" /\ n = [rest EXCEPT !.pc = "build", !.at = t]
         /\ unlogged' = [unlogged EXCEPT ![c] = @ + IF Rounds!Raced(i, c) THEN 1 ELSE 0]
  BY <1>1, <1>3 DEF Rounds!Check, Rounds!Move, Rounds!Done, Rounds!None
<1>5. \/ n = rest \/ n = [rest EXCEPT !.pc = "build", !.at = t]
  BY <1>4
<1>6. n \in InstanceType
  <2>1. CASE n = rest
    BY <2>1, <1>1 DEF InstanceType
  <2>2. CASE n = [rest EXCEPT !.pc = "build", !.at = t]
    BY <2>2, <1>1 DEF InstanceType, AtBriefing
  <2> QED BY <1>5, <2>1, <2>2
<1>7. /\ n.pc \in {"brief", "build"} /\ n.running = inst[i].running
      /\ n.out = inst[i].out /\ n.clash = inst[i].clash /\ n.key = inst[i].key
      /\ n.pc = "build" => n.at = t
      /\ n = rest => n.pc = "brief"
      /\ n = [rest EXCEPT !.pc = "build", !.at = t] => n.pc = "build"
  BY <1>1, <1>5 DEF InstanceType
<1>8. Placed(n)
  BY <1>1, <1>7 DEF Placed, AtBriefing
<1>9. unlogged' = unlogged \/ \E b \in Types \X Days, d \in {0, 1} :
           unlogged' = [unlogged EXCEPT ![b] = @ + d]
  BY <1>3, <1>4
<1>10. Rounds!Raced(i, c) <=> \E j \in Instances \ {i} : Sends(inst[j], c)
  BY DEF Rounds!Raced, Sends, AtBriefing
<1> HIDE DEF n, rest
<1>11. RoundsTyped'
  BY <1>1, <1>2, <1>6, <1>8, <1>9, InstanceTyped
<1>12. BriefedSound'
  <2>1. CASE n = rest /\ unlogged' = unlogged
    <3>1. n.pc \notin AtBriefing /\ inst[i].pc \notin AtBriefing
      BY <2>1, <1>1, <1>7 DEF AtBriefing
    <3> QED BY <2>1, <3>1, <1>1, <1>2, BriefedRests
  <2>2. CASE /\ log[c] = "none" /\ n.pc = "build"
             /\ unlogged' = [unlogged EXCEPT ![c] = @ + IF Rounds!Raced(i, c) THEN 1 ELSE 0]
    <3>1. /\ \A b : ~Sends(inst[i], b)
          /\ \A b : Sends(n, b) <=> b = c
          /\ ~n.out
      BY <2>2, <1>1, <1>3, <1>7 DEF Sends, AtBriefing, Placed
    <3>2. /\ OnRecord(c)'
          /\ OnRecord(c) <=> Rounds!Raced(i, c)
      <4>1. /\ OnRecord(c)' <=> \/ log'[c] # "none" \/ Sends(n, c)
                             \/ \E j \in Instances \ {i} : Sends(inst[j], c)
            /\ OnRecord(c) <=> \/ log[c] # "none" \/ Sends(inst[i], c)
                             \/ \E j \in Instances \ {i} : Sends(inst[j], c)
        BY <1>1, RecordMoves, Zenon
      <4> QED BY <4>1, <3>1, <2>2, <1>10
    <3>3. /\ queued[c] \in Nat /\ unlogged[c] \in Nat
          /\ unlogged'[c] = unlogged[c] + IF Rounds!Raced(i, c) THEN 1 ELSE 0
          /\ \A b \in Types \X Days : b # c => unlogged'[b] = unlogged[b]
      BY <2>2, <1>3 DEF RoundsTyped
    <3>4. About(i, n, c)
      BY <3>1, <3>3, <1>2 DEF About
    <3>5. Balanced(i, n, c)
      BY <3>1, <3>2, <3>3, <1>2 DEF Balanced
    <3> QED BY <3>4, <3>5, <1>1, <1>11, BriefingMoves
  <2> QED BY <2>1, <2>2, <1>4, <1>7
<1>13. SuggestedSound' /\ Rounds!ConflictNoticed'
  BY <1>1, <1>2, <1>6, <1>7, <1>8, BriefingRests DEF AtBriefing
<1> QED BY <1>11, <1>12, <1>13

\* Queue, Log and the failures: an instance at briefing c goes on from it.
LEMMA BriefingKeeps ==
  ASSUME RoundsInv, NEW i \in Instances,
         \/ Rounds!Queue(i) \/ Rounds!Log(i) \/ Rounds!BriefingFails(i)
         \/ Rounds!LogFailed(i) \/ Rounds!LogLost(i)
  PROVE  RoundsInv'
<1> DEFINE n == inst'[i]
<1> USE DEF RoundsInv
<1>1. /\ inst' = [inst EXCEPT ![i] = n] /\ inst[i] \in InstanceType
      /\ Placed(inst[i]) /\ inst \in [Instances -> InstanceType]
      /\ inst[i].pc \in AtBriefing
  BY DEF RoundsTyped, Rounds!Queue, Rounds!Log, Rounds!BriefingFails,
         Rounds!LogFailed, Rounds!LogLost, Rounds!Move, AtBriefing
<1>2. UNCHANGED <<day, minute, suggestion, told>>
  BY DEF Rounds!Queue, Rounds!Log, Rounds!BriefingFails, Rounds!LogFailed,
         Rounds!LogLost, Rounds!clock, Rounds!suggestions
<1>3. PICK c \in Types \X Days :
        c = <<inst[i].at, inst[i].key>> /\ queued[c] \in Nat /\ unlogged[c] \in Nat
  <2>1. <<inst[i].at, inst[i].key>> \in Types \X Days
    BY <1>1 DEF InstanceType, Placed
  <2> QED BY <2>1 DEF RoundsTyped
<1> DEFINE on == [inst[i] EXCEPT !.pc = "brief", !.at = "none", !.out = FALSE]
<1>4. /\ on \in InstanceType /\ on.pc = "brief" /\ on.running = inst[i].running
      /\ ~on.out /\ on.clash = inst[i].clash /\ on.key = inst[i].key
      /\ Placed(on) /\ \A b : ~Sends(on, b)
  <2>1. /\ on \in InstanceType /\ on.pc = "brief" /\ on.running = inst[i].running
        /\ ~on.out /\ on.clash = inst[i].clash /\ on.key = inst[i].key
    BY <1>1 DEF InstanceType
  <2> QED BY <2>1, <1>1 DEF Placed, AtBriefing, Sends
<1>5. \A b : Sends(inst[i], b) <=> b = c
  BY <1>1, <1>3 DEF Sends
<1>6. /\ inst[i].out => inst[i].pc \in {"log", "failed"}
      /\ inst[i].pc = "log" => inst[i].out
  BY <1>1 DEF Placed
<1>7. CASE Rounds!Queue(i)
  <2>1. /\ inst[i].pc = "build" /\ n = [inst[i] EXCEPT !.pc = "log", !.out = TRUE]
        /\ queued' = [queued EXCEPT ![c] = @ + 1] /\ UNCHANGED <<log, unlogged>>
    BY <1>7, <1>1, <1>3 DEF Rounds!Queue, Rounds!Move, Rounds!Current
  <2>2. n \in InstanceType
    BY <2>1, <1>1 DEF InstanceType, AtBriefing
  <2>3. /\ n.pc = "log" /\ n.out /\ n.running = inst[i].running /\ n.at = inst[i].at
        /\ n.clash = inst[i].clash /\ n.key = inst[i].key
    BY <2>1, <1>1 DEF InstanceType
  <2>4. Placed(n) /\ \A b : Sends(n, b) <=> b = c
    BY <2>3, <1>1, <1>3 DEF Placed, AtBriefing, Sends
  <2> HIDE DEF n, on
  <2>5. RoundsTyped'
    BY <2>1, <2>2, <2>4, <1>1, <1>2, <1>3, InstanceTyped
  <2>6. BriefedSound'
    <3>1. OnRecord(c) /\ OnRecord(c)'
      BY <2>4, <1>1, <1>5, RecordMoves
    <3>2. /\ queued'[c] = queued[c] + 1
          /\ \A b \in Types \X Days : b # c => queued'[b] = queued[b]
      BY <2>1, <1>3 DEF RoundsTyped
    <3>3. ~inst[i].out
      BY <2>1, <1>6
    <3>4. About(i, n, c)
      BY <2>1, <2>4, <3>2, <1>5 DEF About
    <3>5. Balanced(i, n, c)
      BY <2>1, <2>3, <2>4, <3>1, <3>2, <3>3, <1>3, <1>5 DEF Balanced
    <3> QED BY <3>4, <3>5, <1>1, <2>5, BriefingMoves
  <2>7. SuggestedSound' /\ Rounds!ConflictNoticed'
    BY <2>2, <2>3, <2>4, <1>1, <1>2, BriefingRests DEF AtBriefing
  <2> QED BY <2>5, <2>6, <2>7
<1>8. CASE Rounds!BriefingFails(i)
  <2>1. /\ n = [inst[i] EXCEPT !.pc = "failed"]
        /\ UNCHANGED <<log, queued, unlogged>>
    BY <1>8, <1>1 DEF Rounds!BriefingFails, Rounds!Move, Rounds!briefings
  <2>2. n \in InstanceType
    BY <2>1, <1>1 DEF InstanceType, AtBriefing
  <2>3. /\ n.pc = "failed" /\ n.out = inst[i].out /\ n.running = inst[i].running
        /\ n.at = inst[i].at /\ n.clash = inst[i].clash /\ n.key = inst[i].key
    BY <2>1, <1>1 DEF InstanceType
  <2>4. Placed(n) /\ \A b : Sends(n, b) <=> b = c
    BY <2>3, <1>1, <1>3 DEF Placed, AtBriefing, Sends
  <2> HIDE DEF n, on
  <2>5. RoundsTyped'
    BY <2>1, <2>2, <2>4, <1>1, <1>2, InstanceTyped
  <2>6. BriefedSound'
    <3>1. OnRecord(c) /\ OnRecord(c)'
      BY <2>4, <1>1, <1>5, RecordMoves
    <3>2. About(i, n, c)
      BY <2>1, <2>4, <1>5 DEF About
    <3>3. Balanced(i, n, c)
      BY <2>1, <2>3, <2>4, <3>1, <1>3, <1>5 DEF Balanced
    <3> QED BY <3>2, <3>3, <1>1, <2>5, BriefingMoves
  <2>7. SuggestedSound' /\ Rounds!ConflictNoticed'
    BY <2>2, <2>3, <2>4, <1>1, <1>2, BriefingRests DEF AtBriefing
  <2> QED BY <2>5, <2>6, <2>7
<1>9. CASE Rounds!Log(i) \/ Rounds!LogFailed(i)
  <2>1. PICK s \in {"SENT", "FAILED"} :
          /\ n = on /\ log' = [log EXCEPT ![c] = IF @ = "none" THEN s ELSE @]
          /\ UNCHANGED <<queued, unlogged>>
    BY <1>9, <1>1, <1>3 DEF Rounds!Log, Rounds!LogFailed, Rounds!Move, Rounds!Current,
       Rounds!Onward, Rounds!None
  <2> HIDE DEF n, on
  <2>2. RoundsTyped'
    BY <2>1, <1>1, <1>2, <1>3, <1>4, InstanceTyped
  <2>3. BriefedSound'
    <3>1. /\ log'[c] # "none"
          /\ \A b \in Types \X Days : b # c => log'[b] = log[b]
      BY <2>1, <1>3 DEF RoundsTyped
    <3>2. OnRecord(c) /\ OnRecord(c)'
      BY <3>1, <1>1, <1>5, RecordMoves
    <3>3. About(i, n, c)
      BY <2>1, <3>1, <1>4, <1>5 DEF About
    <3>4. Balanced(i, n, c)
      BY <2>1, <3>1, <3>2, <1>3, <1>4, <1>5 DEF Balanced
    <3> QED BY <3>3, <3>4, <1>1, <2>2, BriefingMoves
  <2>4. SuggestedSound' /\ Rounds!ConflictNoticed'
    BY <2>1, <1>1, <1>2, <1>4, BriefingRests DEF AtBriefing
  <2> QED BY <2>2, <2>3, <2>4
<1>10. CASE Rounds!LogLost(i)
  <2>1. /\ n = on /\ UNCHANGED <<log, queued>> /\ inst[i].pc = "failed"
        /\ unlogged' = IF inst[i].out THEN [unlogged EXCEPT ![c] = @ + 1] ELSE unlogged
    BY <1>10, <1>1, <1>3 DEF Rounds!LogLost, Rounds!Move, Rounds!Current, Rounds!Onward,
       Rounds!Unlogged, Rounds!None
  <2> HIDE DEF n, on
  <2>2. RoundsTyped'
    <3>1. unlogged' = unlogged \/ unlogged' = [unlogged EXCEPT ![c] = @ + 1]
      BY <2>1
    <3> QED BY <2>1, <3>1, <1>1, <1>2, <1>3, <1>4, InstanceTyped
  <2>3. BriefedSound'
    <3>1. /\ unlogged'[c] = unlogged[c] + IF inst[i].out THEN 1 ELSE 0
          /\ \A b \in Types \X Days : b # c => unlogged'[b] = unlogged[b]
      BY <2>1, <1>3 DEF RoundsTyped
    <3>2. OnRecord(c)
      BY <1>1, <1>5, RecordMoves
    <3>3. About(i, n, c)
      BY <2>1, <3>1, <1>4, <1>5 DEF About
    <3>4. Balanced(i, n, c)
      BY <2>1, <3>1, <3>2, <1>3, <1>4, <1>5 DEF Balanced
    <3> QED BY <3>3, <3>4, <1>1, <2>2, BriefingMoves
  <2>4. SuggestedSound' /\ Rounds!ConflictNoticed'
    BY <2>1, <1>1, <1>2, <1>4, BriefingRests DEF AtBriefing
  <2> QED BY <2>2, <2>3, <2>4
<1> QED BY <1>7, <1>8, <1>9, <1>10

\* A process dies, and what it was sending has no log.
LEMMA RestartKeeps ==
  ASSUME RoundsInv, NEW i \in Instances, Rounds!Restart(i)
  PROVE  RoundsInv'
<1> DEFINE n == Rounds!Idle
<1> USE DEF RoundsInv
<1>1. /\ inst' = [inst EXCEPT ![i] = n] /\ inst[i] \in InstanceType
      /\ Placed(inst[i]) /\ inst \in [Instances -> InstanceType]
      /\ UNCHANGED <<day, minute, suggestion, told, log, queued>>
  BY DEF RoundsTyped, Rounds!Restart, Rounds!Move, Rounds!clock, Rounds!suggestions
<1>0. PICK c : c = <<inst[i].at, inst[i].key>>
  OBVIOUS
<1>2. unlogged' = IF inst[i].out THEN [unlogged EXCEPT ![c] = @ + 1] ELSE unlogged
  BY <1>0, <1>1 DEF Rounds!Restart, Rounds!Unlogged, Rounds!Current, Placed
<1>3. /\ n \in InstanceType /\ Placed(n) /\ ~n.clash
      /\ n.pc \notin AtBriefing \cup {"notify"}
  BY IdleTyped DEF Rounds!Idle, AtBriefing
<1>4. inst[i].pc \in AtBriefing => c \in Types \X Days
  BY <1>0, <1>1 DEF InstanceType, Placed
<1>5. inst[i].out => inst[i].pc \in AtBriefing
  BY <1>1 DEF Placed, AtBriefing
<1> HIDE DEF n
<1>6. RoundsTyped'
  <2>1. CASE inst[i].out
    <3>1. c \in Types \X Days /\ unlogged' = [unlogged EXCEPT ![c] = @ + 1]
      BY <2>1, <1>2, <1>4, <1>5
    <3> QED BY <3>1, <1>1, <1>3, InstanceTyped
  <2>2. CASE ~inst[i].out
    BY <2>2, <1>1, <1>2, <1>3, InstanceTyped
  <2> QED BY <2>1, <2>2
<1>7. BriefedSound'
  <2>1. CASE inst[i].pc \notin AtBriefing
    <3>1. unlogged' = unlogged
      BY <2>1, <1>2, <1>5
    <3> QED BY <2>1, <3>1, <1>1, <1>3, BriefedRests
  <2>2. CASE inst[i].pc \in AtBriefing
    <3>1. /\ \A b : Sends(inst[i], b) <=> b = c
          /\ \A b : ~Sends(n, b)
      BY <2>2, <1>0, <1>3 DEF Sends
    <3>2. c \in Types \X Days /\ queued[c] \in Nat /\ unlogged[c] \in Nat
      BY <2>2, <1>4 DEF RoundsTyped
    <3>3. /\ unlogged'[c] = unlogged[c] + IF inst[i].out THEN 1 ELSE 0
          /\ \A b \in Types \X Days : b # c => unlogged'[b] = unlogged[b]
      BY <1>2, <3>2 DEF RoundsTyped
    <3>4. OnRecord(c)
      BY <1>1, <3>1, RecordMoves
    <3>5. About(i, n, c)
      BY <3>1, <3>3, <1>1 DEF About
    <3>6. Balanced(i, n, c)
      BY <3>1, <3>2, <3>3, <3>4, <1>1 DEF Balanced
    <3> QED BY <3>2, <3>5, <3>6, <1>1, <1>6, BriefingMoves
  <2> QED BY <2>1, <2>2
<1>8. SuggestedSound'
  BY <1>1, <1>3, SuggestedRests
<1>9. Rounds!ConflictNoticed'
  BY <1>1, <1>3, ConflictRests
<1> QED BY <1>6, <1>7, <1>8, <1>9

\* The user answers or is reminded again, and time passes.
LEMMA UserKeeps ==
  ASSUME RoundsInv,
         \/ \E k \in Triggers \X Days :
              Rounds!Wake(k) \/ \E s \in {"DISMISSED", "SNOOZED"} : Rounds!Answer(k, s)
         \/ Rounds!Passes
  PROVE  RoundsInv'
<1> USE DEF RoundsInv
<1>1. /\ UNCHANGED <<inst, told, log, queued, unlogged>>
      /\ day' \in Days /\ minute' \in 0..MaxMinute
      /\ suggestion' = suggestion \/ \E k \in Triggers \X Days, s \in {"ACTIVE", "SNOOZED", "DISMISSED"} :
           suggestion[k] # "none" /\ suggestion' = [suggestion EXCEPT ![k] = s]
  <2>1. ASSUME NEW k \in Triggers \X Days,
               Rounds!Wake(k) \/ \E s \in {"DISMISSED", "SNOOZED"} : Rounds!Answer(k, s)
        PROVE  <1>1!1 /\ <1>1!2 /\ <1>1!3
    BY <2>1 DEF Rounds!Wake, Rounds!Answer, Rounds!clock, Rounds!briefings, Rounds!None,
       RoundsTyped
  <2>2. CASE Rounds!Passes
    <3>1. /\ UNCHANGED <<inst, suggestion, told, log, queued, unlogged>>
          /\ minute < MaxMinute \/ day < MaxDay
          /\ minute' = (minute + 1) % (MaxMinute + 1)
          /\ day' = IF minute = MaxMinute THEN day + 1 ELSE day
      BY <2>2 DEF Rounds!Passes, Rounds!suggestions, Rounds!briefings
    <3>2. MaxMinute \in Nat /\ MaxDay \in Nat /\ minute \in 0..MaxMinute /\ day \in 1..MaxDay
      BY RoundsAssumption DEF RoundsTyped, Days, Rounds!Days, Rounds!DailyRoundsAssumption
    <3>3. minute' \in 0..MaxMinute /\ day' \in 1..MaxDay
      BY <3>1, <3>2
    <3> QED BY <3>1, <3>3 DEF Days, Rounds!Days
  <2> QED BY <2>1, <2>2
<1>2. suggestion' \in [Triggers \X Days -> {"none", "ACTIVE", "SNOOZED", "DISMISSED"}]
  BY <1>1 DEF RoundsTyped
<1>3. \A k \in Triggers \X Days : suggestion'[k] # "none" <=> suggestion[k] # "none"
  BY <1>1 DEF RoundsTyped
<1>4. RoundsTyped'
  BY <1>1, <1>2 DEF RoundsTyped, Types, Days, Triggers, Rounds!Types, Rounds!Days,
     Rounds!Triggers
<1>5. BriefedSound'
  BY <1>1 DEF BriefedSound, Waiting, Unsent, OnRecord, Types, Days, Rounds!Types, Rounds!Days
<1>6. SuggestedSound'
  BY <1>1, <1>3 DEF SuggestedSound, Triggers, Days, Rounds!Triggers, Rounds!Days
<1>7. Rounds!ConflictNoticed'
  <2>1. \A i \in Instances : <<"CALENDAR_CONFLICT", inst[i].key>> \in Triggers \X Days
    BY DEF RoundsTyped, InstanceType, Triggers, Rounds!Triggers
  <2> QED BY <2>1, <1>1, <1>3 DEF Rounds!ConflictNoticed, Rounds!None
<1> QED BY <1>4, <1>5, <1>6, <1>7

LEMMA RoundsStep == ASSUME RoundsInv, [Rounds!Next]_(Rounds!vars) PROVE RoundsInv'
<1>1. CASE UNCHANGED Rounds!vars
  <2>1. UNCHANGED <<day, minute, inst, suggestion, told, log, queued, unlogged>>
    BY <1>1 DEF Rounds!vars
  <2>2. RoundsTyped'
    BY <2>1 DEF RoundsInv, RoundsTyped, Types, Days, Triggers, Rounds!Types, Rounds!Days,
       Rounds!Triggers
  <2>3. BriefedSound' /\ SuggestedSound' /\ Rounds!ConflictNoticed'
    BY <2>1 DEF RoundsInv, BriefedSound, Waiting, Unsent, OnRecord, SuggestedSound,
       Rounds!ConflictNoticed, Types, Days, Triggers, Rounds!Types, Rounds!Days,
       Rounds!Triggers
  <2> QED BY <2>2, <2>3 DEF RoundsInv
<1>2. CASE Rounds!Next
  BY <1>2, TickKeeps, EvaluateKeeps, UpsertKeeps, NotifyKeeps, CheckKeeps, BriefingKeeps,
     RestartKeeps, UserKeeps
  DEF Rounds!Next, Types, Triggers, Days
<1> QED BY <1>1, <1>2

LEMMA RoundsInit == Rounds!Init => RoundsInv
<1> SUFFICES ASSUME Rounds!Init PROVE RoundsInv
  OBVIOUS
<1>1. inst = [i \in Instances |-> Rounds!Idle] /\ inst \in [Instances -> InstanceType]
  BY IdleTyped DEF Rounds!Init
<1>2. \A i \in Instances : inst[i].pc = "idle" /\ ~inst[i].clash
  BY <1>1 DEF Rounds!Idle
<1>3. day \in Days /\ minute \in 0..MaxMinute
  BY RoundsAssumption DEF Rounds!Init, Days, Rounds!Days, Rounds!DailyRoundsAssumption
<1>4. RoundsTyped
  <2>1. \A i \in Instances : Placed(inst[i])
    BY <1>1, IdleTyped
  <2> QED BY <1>1, <1>3, <2>1 DEF Rounds!Init, Rounds!None, RoundsTyped, Types, Triggers, Days
<1>5. BriefedSound
  <2>1. \A b : Unsent(b) = {}
    BY <1>2 DEF Unsent, Sends, AtBriefing
  <2>2. \A b : Waiting(b) = 0
    BY <2>1, FS_EmptySet DEF Waiting
  <2>3. \A b \in Types \X Days : queued[b] = 0 /\ unlogged[b] = 0
    BY DEF Rounds!Init, Types, Days
  <2> QED BY <2>2, <2>3 DEF BriefedSound
<1>6. SuggestedSound
  BY <1>2 DEF SuggestedSound, Tells, Rounds!Init, Triggers, Days
<1>7. Rounds!ConflictNoticed
  BY <1>2 DEF Rounds!ConflictNoticed
<1> QED BY <1>4, <1>5, <1>6, <1>7 DEF RoundsInv

LEMMA RoundsPromised == RoundsInv => RoundsKept
<1> SUFFICES ASSUME RoundsInv
             PROVE  Rounds!TypeOK /\ Rounds!BriefedOnce /\ Rounds!ConflictNoticed
  BY DEF RoundsKept
<1>1. Rounds!TypeOK
  <2>1. \A i \in Instances :
          /\ (inst[i].pc # "idle") = inst[i].running
          /\ inst[i].pc \in {"build", "log", "failed"} => inst[i].at \in Types
    <3> TAKE i \in Instances
    <3>1. inst[i].running \in BOOLEAN /\ Placed(inst[i])
      BY DEF RoundsInv, RoundsTyped, InstanceType
    <3> QED BY <3>1 DEF Placed, AtBriefing
  <2>2. \A k \in Triggers \X Days : told[k] > 0 => suggestion[k] # "none"
    BY DEF RoundsInv, RoundsTyped, SuggestedSound
  <2> QED BY <2>1, <2>2
       DEF RoundsInv, RoundsTyped, Rounds!TypeOK, Rounds!None, Types, Triggers, Days
<1>2. Rounds!BriefedOnce
  <2> SUFFICES ASSUME NEW b \in Types \X Days PROVE queued[b] <= 1 + unlogged[b]
    BY DEF Rounds!BriefedOnce, Types, Days
  <2>1. IsFiniteSet(Unsent(b))
    <3>1. IsFiniteSet(Instances)
      BY RoundsAssumption DEF Rounds!DailyRoundsAssumption, Rounds!IsFiniteSet, IsFiniteSet
    <3>2. Unsent(b) \subseteq Instances
      BY DEF Unsent
    <3> QED BY <3>1, <3>2, FS_Subset
  <2>2. Waiting(b) \in Nat
    BY <2>1, FS_CardinalityType DEF Waiting
  <2>3. queued[b] \in Nat /\ unlogged[b] \in Nat
    BY DEF RoundsInv, RoundsTyped
  <2>4. queued[b] + Waiting(b) <= unlogged[b] + IF OnRecord(b) THEN 1 ELSE 0
    BY DEF RoundsInv, BriefedSound
  <2> QED BY <2>2, <2>3, <2>4
<1> QED BY <1>1, <1>2 DEF RoundsInv

LEMMA RoundsInvariant == MCSpec => []RoundsInv
<1>1. MCInit => RoundsInv
  BY RoundsInit DEF MCInit
<1>2. RoundsInv /\ [MCNext]_parts => RoundsInv'
  <2>1. [MCNext]_parts => [Rounds!Next]_(Rounds!vars)
    BY DEF MCNext, OfQueue, OfRounds, parts, rounds, Rounds!vars
  <2> QED BY <2>1, RoundsStep
<1> QED BY <1>1, <1>2, PTL DEF MCSpec

\* For any number of instances, days and errors, a briefing goes out once a day
\* and again only when no log could tell of the first, and meetings that take
\* the same time are noticed by comparing neighbours
\* (agent-scheduler.service.ts, proactive-trigger.service.ts).
THEOREM RoundsAreKept == MCSpec => []RoundsKept
BY RoundsInvariant, RoundsPromised, PTL

StaysDismissed ==
  \A k \in Rounds!Triggers \X Rounds!Days :
    suggestion[k] = "DISMISSED" => suggestion'[k] # "ACTIVE"
ToldOnce == \A k \in Rounds!Triggers \X Rounds!Days : told[k] <= 1

LEMMA DismissedStep == RoundsInv /\ [Rounds!Next]_(Rounds!vars) =>
                         [StaysDismissed]_(Rounds!vars)
<1> SUFFICES ASSUME RoundsInv, Rounds!Next, NEW k \in Triggers \X Days,
                    suggestion[k] = "DISMISSED"
             PROVE  suggestion'[k] # "ACTIVE"
  BY DEF StaysDismissed, Triggers, Days
<1>1. suggestion \in [Triggers \X Days -> {"none", "ACTIVE", "SNOOZED", "DISMISSED"}]
  BY DEF RoundsInv, RoundsTyped
<1>2. CASE UNCHANGED suggestion
  BY <1>2
<1>3. ASSUME NEW i \in Instances, Rounds!Upsert(i) PROVE suggestion'[k] # "ACTIVE"
  BY <1>1, <1>3 DEF Rounds!Upsert, Rounds!Created, Rounds!None
<1>4. ASSUME NEW m \in Triggers \X Days, NEW s \in {"DISMISSED", "SNOOZED"},
             Rounds!Answer(m, s) \/ Rounds!Wake(m)
      PROVE  suggestion'[k] # "ACTIVE"
  BY <1>1, <1>4 DEF Rounds!Answer, Rounds!Wake
<1> QED BY <1>2, <1>3, <1>4
  DEF Rounds!Next, Rounds!Passes, Rounds!Tick, Rounds!Notify, Rounds!Dispatch,
      Rounds!Queue, Rounds!Log, Rounds!BriefingFails, Rounds!LogFailed, Rounds!LogLost,
      Rounds!End, Rounds!UserFails, Rounds!Restart, Rounds!Check, Rounds!Evaluate,
      Rounds!suggestions, Triggers, Days

\* Whatever number of ticks and instances find the reason for a suggestion, it
\* is told of once a day, and one the user dismissed does not come back
\* (proactive-suggestions.service.ts).
THEOREM SuggestionsComeOnce == MCSpec => Rounds!SuggestedOnce
<1>1. RoundsInv => ToldOnce
  BY DEF RoundsInv, SuggestedSound, ToldOnce, Triggers, Days
<1>2. RoundsInv /\ [MCNext]_parts => [StaysDismissed]_(Rounds!vars)
  <2>1. [MCNext]_parts => [Rounds!Next]_(Rounds!vars)
    BY DEF MCNext, OfQueue, OfRounds, parts, rounds, Rounds!vars
  <2> QED BY <2>1, DismissedStep
<1> QED BY <1>1, <1>2, RoundsInvariant, PTL
     DEF MCSpec, Rounds!SuggestedOnce, StaysDismissed, ToldOnce
=============================================================================
