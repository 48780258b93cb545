------------------------- MODULE SubscriptionProofs -------------------------
(***************************************************************************)
(* Proofs about Subscription for any requests, editors, callers and        *)
(* instances: type correctness, that decisions about requests are final,   *)
(* that a transaction leaves nothing open that it saw, and (of the plan    *)
(* over its months, Turns in MCSubscriptions) that a running plan is cut   *)
(* short only by who had read an older one.                                *)
(***************************************************************************)
EXTENDS MCSubscriptions, TLAPS

\* An editor's record is well-formed, the period it may write has begun by
\* period number s, and an approval knows its request.
Sound(n, s) ==
  /\ n \in EditorState
  /\ n.period < s
  /\ n.pc = "approve" => n.request \in Requests

\* A caller that is about to look into a cache knows its instance.
Placed(n) == n.pc = "enter" => n.at \in Instances

TypeInv ==
  /\ TypeOK
  /\ \A e \in Editors : Sound(editor[e], started)
  /\ \A c \in Callers : Placed(caller[c])

\* What editor e's program counter says of its request: a plan's row does not
\* exist yet, an approval has claimed its own.
Target(e) ==
  /\ editor[e].pc \in {"plan", "plan_locks"} =>
       editor[e].request \in Requests /\ requests[editor[e].request] = "none"
  /\ editor[e].pc \in {"others", "approve_locks"} =>
       editor[e].request \in editor[e].locked

\* Only a running updateMany, or one between two, holds rows, and a row that is
\* held is PENDING for everybody else.
Holding(e) ==
  /\ editor[e].pc \notin {"plan_locks", "others", "approve_locks"} =>
       editor[e].locked = {}
  /\ \A r \in editor[e].locked : requests[r] = "PENDING"

\* A row an updateMany saw exists, and it is still to be visited, or held, or
\* decided.
Accounted(e) ==
  editor[e].pc \in {"plan_locks", "approve_locks"} =>
    /\ editor[e].todo \subseteq editor[e].seen
    /\ \A r \in editor[e].seen :
         /\ requests[r] # "none"
         /\ \/ r \in editor[e].todo \cup editor[e].locked
            \/ requests[r] \in Decided

\* Two transactions hold different rows and create different rows.
Apart(e, f) ==
  /\ editor[e].locked \cap editor[f].locked = {}
  /\ editor[e].pc \in {"plan", "plan_locks"} =>
       \/ editor[f].pc \notin {"plan", "plan_locks"}
       \/ editor[f].request # editor[e].request

LockInv ==
  /\ \A e \in Editors : Target(e) /\ Holding(e) /\ Accounted(e)
  /\ \A e, f \in Editors : e # f => Apart(e, f)

IInv == TypeInv /\ LockInv

-----------------------------------------------------------------------------
(* Type correctness.                                                       *)

\* The empty records are well-formed.
LEMMA Blanks == NoEdit \in EditorState /\ NoCall \in CallerState
BY SubscriptionAssumption
DEF NoEdit, NoCall, EditorState, CallerState, Infos, Periods, Spent

\* The initial state is of the declared types.
LEMMA InitTypes == Init => TypeInv
<1> SUFFICES ASSUME Init PROVE TypeInv
  OBVIOUS
<1>1. TypeOK
  BY Blanks, SubscriptionAssumption DEF Init, TypeOK, Periods, Spent, Decided
<1>2. /\ \A e \in Editors : Sound(editor[e], started)
      /\ \A c \in Callers : Placed(caller[c])
  BY Blanks DEF Init, Sound, NoEdit, Placed, NoCall
<1> QED BY <1>1, <1>2 DEF TypeInv

\* Where an editor gets a sound record and no period is taken back, all
\* editors stay sound.
LEMMA Becomes ==
  ASSUME TypeInv, NEW e \in Editors, NEW n, EditorBecomes(e, n),
         Sound(n, started'), started' \in {started, started + 1}
  PROVE  editor' \in [Editors -> EditorState]
         /\ \A f \in Editors : Sound(editor'[f], started')
<1>1. started \in Int /\ editor \in [Editors -> EditorState]
  BY SubscriptionAssumption DEF TypeInv, TypeOK
<1>2. n \in EditorState
  BY DEF Sound
<1>3. editor' \in [Editors -> EditorState]
  BY <1>1, <1>2 DEF EditorBecomes
<1>4. ASSUME NEW f \in Editors PROVE Sound(editor'[f], started')
  <2>1. CASE f = e
    BY <2>1, <1>1 DEF EditorBecomes
  <2>2. CASE f # e
    <3>1. editor'[f] = editor[f] /\ Sound(editor[f], started)
      BY <2>2, <1>1 DEF EditorBecomes, TypeInv
    <3>2. editor[f].period \in Int
      BY <1>1 DEF EditorState, Periods
    <3> QED BY <3>1, <3>2, <1>1 DEF Sound
  <2> QED BY <2>1, <2>2
<1> QED BY <1>3, <1>4

\* The steps of editors keep the types.
LEMMA EditorTypes ==
  ASSUME TypeInv, NEW e \in Editors,
         \/ PlanRequested(e) \/ EditGoesOn(e)
         \/ \E i \in Instances :
              ApproveReads(e, i) \/ AssignPlan(e, i) \/ AddCredits(e, i)
  PROVE  TypeInv'
<1>1. Sound(editor[e], started) /\ Sound(NoEdit, started)
  BY Blanks, SubscriptionAssumption DEF TypeInv, TypeOK, Sound, NoEdit
<1>2. TypeOK /\ started \in Int
  BY SubscriptionAssumption DEF TypeInv, TypeOK
<1>15. ASSUME NEW n, Sound(n, started) PROVE Sound(n, started + 1)
  BY <1>2, <1>15 DEF Sound, EditorState, Periods
<1> DEFINE Rest == editor' \in [Editors -> EditorState]
                   /\ \A f \in Editors : Sound(editor'[f], started')
<1>3. CASE PlanRequested(e)
  <2>1. PICK r \in Requests :
          EditorBecomes(e, [NoEdit EXCEPT !.pc = "plan", !.request = r])
    BY <1>3 DEF PlanRequested
  <2>2. Sound([NoEdit EXCEPT !.pc = "plan", !.request = r], started)
    BY <1>1 DEF Sound, EditorState
  <2>3. Rest
    BY <1>2, <1>3, <2>1, <2>2, Becomes DEF PlanRequested
  <2> QED BY <1>2, <1>3, <2>3 DEF PlanRequested, TypeInv, TypeOK
<1>4. CASE PlanSees(e)
  <2>1. Sound([editor[e] EXCEPT !.pc = "plan_locks", !.todo = Replaces,
                                !.seen = Open], started)
    BY <1>1 DEF Sound, EditorState, Replaces, Open
  <2>2. Rest
    BY <1>2, <1>4, <2>1, Becomes DEF PlanSees
  <2> QED BY <1>2, <1>4, <2>2 DEF PlanSees, TypeInv, TypeOK
<1>5. CASE Locks(e)
  <2> DEFINE n(r) == [editor[e] EXCEPT
                !.todo = @ \ {r},
                !.locked = IF StillPending(r) THEN @ \cup {r} ELSE @]
  <2>1. PICK r \in editor[e].todo : EditorBecomes(e, n(r))
    BY <1>5 DEF Locks
  <2>2. r \in Requests /\ editor[e].pc # "approve"
    BY <1>1, <1>5 DEF Sound, EditorState, Locks
  <2>3. Sound(n(r), started)
    BY <1>1, <2>2 DEF Sound, EditorState
  <2>4. Rest
    BY <1>2, <1>5, <2>1, <2>3, Becomes DEF Locks
  <2> QED BY <1>2, <1>5, <2>4 DEF Locks, TypeInv, TypeOK
<1>6. CASE PlanCommits(e)
  <2>1. Rest
    BY <1>1, <1>2, <1>6, Becomes DEF PlanCommits
  <2>2. requests' \in [Requests -> {"none", "PENDING"} \cup Decided]
    BY <1>2, <1>6 DEF PlanCommits, Decided, TypeOK
  <2> QED BY <1>2, <1>6, <2>1, <2>2 DEF PlanCommits, TypeInv, TypeOK
<1>7. ASSUME NEW i \in Instances, ApproveReads(e, i) PROVE TypeInv'
  <2> DEFINE n(r) == [NoEdit EXCEPT
        !.pc = "approve", !.request = r, !.period = started, !.at = i]
  <2>1. PICK r \in Requests : EditorBecomes(e, n(r))
    BY <1>7 DEF ApproveReads, Open
  <2>2. /\ started < MaxPeriods /\ started' = started + 1
        /\ UNCHANGED <<requests, sub, used, ended, caller, entitlement, gate>>
    BY <1>7 DEF ApproveReads
  <2>3. started \in Periods
    BY <1>2, <2>2, SubscriptionAssumption DEF Periods, TypeOK
  <2>4. n(r) \in EditorState /\ n(r).period = started /\ n(r).request = r
    BY <1>1, <2>3 DEF Sound, EditorState
  <2>5. Sound(n(r), started')
    BY <1>2, <2>2, <2>4 DEF Sound
  <2>6. Rest
    BY <2>1, <2>2, <2>5, Becomes
  <2>7. /\ sub' \in [status : {"ACTIVE", "EXPIRED"}, period : 0..(started' - 1),
                     bonus : 0..MaxBonus]
        /\ started' \in 1..MaxPeriods /\ ended' \in 0..started'
    BY <1>2, <2>2, SubscriptionAssumption DEF TypeOK
  <2> QED BY <1>2, <2>2, <2>6, <2>7 DEF TypeInv, TypeOK
<1>8. CASE ApproveClaims(e)
  <2>1. editor[e].request \in Requests
    BY <1>1, <1>8 DEF Sound, ApproveClaims
  <2>2. Sound([editor[e] EXCEPT !.pc = "others",
                                !.locked = {editor[e].request}], started)
    BY <1>1, <2>1 DEF Sound, EditorState
  <2>3. Rest
    BY <1>1, <1>2, <1>8, <2>2, Becomes DEF ApproveClaims
  <2> QED BY <1>2, <1>8, <2>3 DEF ApproveClaims, TypeInv, TypeOK
<1>9. CASE ApproveSees(e)
  <2>1. Sound([editor[e] EXCEPT !.pc = "approve_locks",
                 !.todo = Others(editor[e].request), !.seen = Open], started)
    BY <1>1 DEF Sound, EditorState, Others, Open
  <2>2. Rest
    BY <1>2, <1>9, <2>1, Becomes DEF ApproveSees
  <2> QED BY <1>2, <1>9, <2>2 DEF ApproveSees, TypeInv, TypeOK
<1>10. CASE ApproveCommits(e)
  <2>1. Sound([NoEdit EXCEPT !.pc = "invalidate", !.at = editor[e].at], started)
    BY <1>1 DEF Sound, EditorState
  <2>2. Rest
    BY <1>2, <1>10, <2>1, Becomes DEF ApproveCommits
  <2>3. requests' \in [Requests -> {"none", "PENDING"} \cup Decided]
    BY <1>2, <1>10 DEF ApproveCommits, Decided, TypeOK
  <2>4. editor[e].period \in 0..(started - 1)
    BY <1>1, <1>2 DEF Sound, EditorState, Periods
  <2>5. sub' \in [status : {"ACTIVE", "EXPIRED"}, period : 0..(started - 1),
                  bonus : 0..MaxBonus]
    BY <1>10, <2>4, SubscriptionAssumption DEF ApproveCommits, Renewed
  <2> QED BY <1>2, <1>10, <2>2, <2>3, <2>5 DEF ApproveCommits, TypeInv, TypeOK
<1>11. ASSUME NEW i \in Instances, AssignPlan(e, i) PROVE TypeInv'
  <2>1. PICK status \in {"ACTIVE", "EXPIRED"} :
          sub' = [Renewed(started) EXCEPT !.status = status]
    BY <1>11 DEF AssignPlan
  <2>2. /\ started < MaxPeriods /\ started' = started + 1
        /\ EditorBecomes(e, [NoEdit EXCEPT !.pc = "invalidate", !.at = i])
        /\ UNCHANGED <<requests, used, ended, caller, entitlement, gate>>
    BY <1>11 DEF AssignPlan
  <2>3. Sound([NoEdit EXCEPT !.pc = "invalidate", !.at = i], started)
    BY <1>1 DEF Sound, EditorState
  <2>4. Sound([NoEdit EXCEPT !.pc = "invalidate", !.at = i], started')
    BY <1>15, <2>2, <2>3
  <2>5. Rest
    BY <2>2, <2>4, Becomes
  <2>6. /\ sub' \in [status : {"ACTIVE", "EXPIRED"}, period : 0..(started' - 1),
                     bonus : 0..MaxBonus]
        /\ started' \in 1..MaxPeriods /\ ended' \in 0..started'
    BY <1>2, <2>1, <2>2, SubscriptionAssumption DEF TypeOK, Renewed
  <2> QED BY <1>2, <2>2, <2>5, <2>6 DEF TypeInv, TypeOK
<1>12. ASSUME NEW i \in Instances, AddCredits(e, i) PROVE TypeInv'
  <2>1. Sound([NoEdit EXCEPT !.pc = "invalidate", !.at = i], started)
    BY <1>1 DEF Sound, EditorState
  <2>2. Rest
    BY <1>2, <1>12, <2>1, Becomes DEF AddCredits
  <2>3. sub.bonus \in 0..MaxBonus /\ sub.bonus < MaxBonus
    BY <1>2, <1>12 DEF AddCredits, TypeOK
  <2>4. sub' = [sub EXCEPT !.bonus = sub.bonus + 1]
    BY <1>12 DEF AddCredits
  <2>5. sub' \in [status : {"ACTIVE", "EXPIRED"}, period : 0..(started - 1),
                  bonus : 0..MaxBonus]
    <3>1. sub.bonus + 1 \in 0..MaxBonus
      BY <2>3, SubscriptionAssumption
    <3> QED BY <1>2, <2>4, <3>1 DEF TypeOK
  <2> QED BY <1>2, <1>12, <2>2, <2>5 DEF AddCredits, TypeInv, TypeOK
<1>13. CASE Invalidate(e)
  <2>1. Rest
    BY <1>1, <1>2, <1>13, Becomes DEF Invalidate
  <2>2. /\ entitlement' \in [Instances -> Infos \cup {Nothing}]
        /\ gate' \in [Instances -> [Periods -> 0..Spent \cup {Nothing}]]
    BY <1>2, <1>13 DEF Invalidate, TypeOK
  <2> QED BY <1>2, <1>13, <2>1, <2>2 DEF Invalidate, TypeInv, TypeOK
<1>14. CASE EditFails(e)
  <2>1. Rest
    BY <1>1, <1>2, <1>14, Becomes DEF EditFails
  <2> QED BY <1>2, <1>14, <2>1 DEF EditFails, TypeInv, TypeOK
<1> QED
  BY <1>3, <1>4, <1>5, <1>6, <1>7, <1>8, <1>9, <1>10, <1>11, <1>12, <1>13,
     <1>14 DEF EditGoesOn

\* The steps of callers keep the types.
LEMMA CallerTypes ==
  ASSUME TypeInv, NEW c \in Callers,
         \/ CallGoesOn(c) \/ CallFails(c)
         \/ \E i \in Instances : Call(c, i)
  PROVE  TypeInv'
<1>1. caller[c] \in CallerState /\ NoCall \in CallerState
  BY Blanks DEF TypeInv, TypeOK
<1>2. /\ caller[c].at \in Instances \cup {Nothing}
      /\ caller[c].info \in Infos /\ caller[c].info.period \in Periods
      /\ caller[c].count \in 0..Spent
  BY <1>1 DEF CallerState, Infos
<1>3. sub.period \in Periods /\ sub.bonus \in 0..MaxBonus
  BY SubscriptionAssumption DEF TypeInv, TypeOK, Periods
<1> DEFINE Rest == /\ caller' \in [Callers -> CallerState]
                   /\ \A d \in Callers : Placed(caller'[d])
<1>4. ASSUME NEW n \in CallerState, CallerBecomes(c, n), Placed(n) PROVE Rest
  BY <1>4 DEF CallerBecomes, TypeInv, TypeOK
\* The editors' part, for steps that do not touch it.
<1>5. ASSUME UNCHANGED <<requests, started, ended, editor>>,
             sub' \in [status : {"ACTIVE", "EXPIRED"},
                       period : 0..(started - 1), bonus : 0..MaxBonus],
             used' \in [Periods -> 0..Spent],
             Rest,
             entitlement' \in [Instances -> Infos \cup {Nothing}],
             gate' \in [Instances -> [Periods -> 0..Spent \cup {Nothing}]]
      PROVE TypeInv'
  BY <1>5 DEF TypeInv, TypeOK
<1>6. TypeOK
  BY DEF TypeInv
<1>7. ASSUME NEW i \in Instances, Call(c, i) PROVE TypeInv'
  <2>1. PICK look \in BOOLEAN : CallerBecomes(c, [NoCall EXCEPT
          !.pc = IF look THEN "read" ELSE "enter", !.at = i, !.look = look])
    BY <1>7 DEF Call
  <2>2. [NoCall EXCEPT !.pc = IF look THEN "read" ELSE "enter", !.at = i,
                       !.look = look] \in CallerState
    BY <1>1 DEF CallerState
  <2>3. Placed([NoCall EXCEPT !.pc = IF look THEN "read" ELSE "enter", !.at = i,
                              !.look = look])
    BY <1>1 DEF CallerState, Placed
  <2>4. Rest
    BY <1>4, <2>1, <2>2, <2>3
  <2> QED BY <1>5, <1>6, <1>7, <2>4 DEF Call, TypeOK
<1>8. CASE Enter(c)
  <2> DEFINE cached == entitlement[caller[c].at]
             old == [caller[c] EXCEPT !.pc = "check", !.info = cached]
             new == [caller[c] EXCEPT !.pc = "read"]
  <2>1. cached \in Infos \cup {Nothing}
    BY <1>6, <1>8 DEF Enter, TypeInv, Placed, TypeOK
  <2>2. CASE cached = Nothing
    <3>1. new \in CallerState /\ Placed(new)
      BY <1>1 DEF CallerState, Placed
    <3>2. Rest
      BY <1>4, <1>8, <2>2, <3>1 DEF Enter
    <3> QED BY <1>5, <1>6, <1>8, <3>2 DEF Enter, TypeOK
  <2>3. CASE cached # Nothing
    <3>1. old \in CallerState /\ Placed(old)
      BY <1>1, <2>1, <2>3 DEF CallerState, Placed
    <3>2. Rest
      BY <1>4, <1>8, <2>3, <3>1 DEF Enter
    <3> QED BY <1>5, <1>6, <1>8, <3>2 DEF Enter, TypeOK
  <2> QED BY <2>2, <2>3
<1>9. CASE Read(c)
  <2> DEFINE info == [period |-> sub.period, bonus |-> sub.bonus,
                      canUse |-> sub.status = "ACTIVE" /\ ~Lapsed(sub)]
             n == [caller[c] EXCEPT
                !.info = info, !.pc = IF Lapsed(sub) THEN "expire" ELSE "put"]
  <2>1. info \in Infos
    BY <1>3 DEF Infos
  <2>2. n \in CallerState /\ Placed(n)
    BY <1>1, <2>1 DEF CallerState, Placed
  <2> QED BY <1>4, <1>5, <1>6, <1>9, <2>2 DEF Read, TypeOK
<1>10. CASE Expire(c)
  <2> DEFINE info == [period |-> sub.period, bonus |-> sub.bonus,
                      canUse |-> FALSE]
             n == [caller[c] EXCEPT !.pc = "put", !.info = info]
  <2>1. info \in Infos
    BY <1>3 DEF Infos
  <2>2. n \in CallerState /\ Placed(n)
    BY <1>1, <2>1 DEF CallerState, Placed
  <2>3. sub' \in [status : {"ACTIVE", "EXPIRED"}, period : 0..(started - 1),
                  bonus : 0..MaxBonus]
    BY <1>6, <1>10 DEF Expire, TypeOK
  <2> QED BY <1>4, <1>5, <1>6, <1>10, <2>2, <2>3 DEF Expire, TypeOK
<1>11. CASE Put(c)
  <2>1. /\ [caller[c] EXCEPT !.pc = "check"] \in CallerState
        /\ Placed([caller[c] EXCEPT !.pc = "check"]) /\ Placed(NoCall)
    BY <1>1 DEF CallerState, Placed, NoCall
  <2>2. entitlement' \in [Instances -> Infos \cup {Nothing}]
    BY <1>2, <1>6, <1>11 DEF Put, TypeOK
  <2> QED BY <1>1, <1>4, <1>5, <1>6, <1>11, <2>1, <2>2 DEF Put, TypeOK
<1>19. Placed(NoCall)
  BY DEF Placed, NoCall
<1>12. CASE RefuseInactive(c)
  BY <1>1, <1>4, <1>5, <1>6, <1>12, <1>19 DEF RefuseInactive, TypeOK
<1>13. ASSUME NEW count
       PROVE Passed(c, count) \in CallerState /\ Placed(Passed(c, count))
  BY <1>1, <1>19 DEF Passed, CallerState, Placed
<1>14. CASE GateHit(c)
  BY <1>4, <1>5, <1>6, <1>13, <1>14 DEF GateHit, TypeOK
<1>15. CASE GateLoads(c)
  <2>1. used[caller[c].info.period] \in 0..Spent
    BY <1>2, <1>6 DEF TypeOK
  <2> DEFINE n == [caller[c] EXCEPT !.pc = "loaded",
                                    !.count = used[caller[c].info.period]]
  <2>2. n \in CallerState /\ Placed(n)
    BY <1>1, <2>1 DEF CallerState, Placed
  <2> QED BY <1>4, <1>5, <1>6, <1>15, <2>2 DEF GateLoads, TypeOK
<1>16. CASE GateLoaded(c)
  <2>1. gate' \in [Instances -> [Periods -> 0..Spent \cup {Nothing}]]
    BY <1>2, <1>6, <1>16 DEF GateLoaded, TypeOK
  <2> QED BY <1>4, <1>5, <1>6, <1>13, <1>16, <2>1 DEF GateLoaded, TypeOK
<1>17. CASE RecordUsage(c)
  <2>1. /\ [caller[c] EXCEPT !.pc = "turn"] \in CallerState
        /\ Placed([caller[c] EXCEPT !.pc = "turn"])
    BY <1>1 DEF CallerState, Placed
  <2>2. Rest
    BY <1>1, <1>4, <1>17, <1>19, <2>1 DEF RecordUsage
  <2>3. used' \in [Periods -> 0..Spent]
    BY <1>6, <1>17, SubscriptionAssumption DEF RecordUsage, TypeOK, Spent
  <2> QED BY <1>5, <1>6, <1>17, <2>2, <2>3 DEF RecordUsage, TypeOK
<1>18. CASE CallFails(c)
  BY <1>1, <1>4, <1>5, <1>6, <1>18, <1>19 DEF CallFails, TypeOK
<1> QED
  BY <1>7, <1>8, <1>9, <1>10, <1>11, <1>12, <1>14, <1>15, <1>16, <1>17, <1>18
  DEF CallGoesOn

\* Every step keeps the types.
LEMMA NextTypes == TypeInv /\ [Next]_vars => TypeInv'
<1> SUFFICES ASSUME TypeInv, [Next]_vars PROVE TypeInv'
  OBVIOUS
<1> USE DEF TypeInv, TypeOK
<1>1. ASSUME NEW r \in Requests, Reject(r) PROVE TypeInv'
  BY <1>1 DEF Reject, Decided
<1>2. CASE MonthEnds
  BY <1>2 DEF MonthEnds
<1>3. ASSUME NEW i \in Instances, EntitlementAges(i) PROVE TypeInv'
  BY <1>3 DEF EntitlementAges
<1>4. ASSUME NEW i \in Instances, NEW p \in Periods, GateAges(i, p)
      PROVE TypeInv'
  BY <1>4 DEF GateAges
<1>5. CASE UNCHANGED vars
  BY <1>5 DEF vars
<1> QED
  BY EditorTypes, CallerTypes, <1>1, <1>2, <1>3, <1>4, <1>5 DEF Next

\* Every reachable state is of the declared types, and the subscription's
\* period has begun, whatever editors and callers do.
THEOREM TypeCorrect == Spec => []TypeOK
<1>1. Spec => []TypeInv
  BY InitTypes, NextTypes, PTL DEF Spec
<1>2. TypeInv => TypeOK
  BY DEF TypeInv
<1> QED BY <1>1, <1>2, PTL

-----------------------------------------------------------------------------
(* Rows and their locks.                                                   *)

\* No transaction is under way at first.
LEMMA InitLocks == Init => LockInv
BY DEF Init, LockInv, Target, Holding, Accounted, Apart, NoEdit

\* The new record of an editor, and those of the others.
LEMMA EditorAt ==
  ASSUME TypeInv, NEW e \in Editors, NEW n, EditorBecomes(e, n)
  PROVE  editor'[e] = n /\ \A f \in Editors \ {e} : editor'[f] = editor[f]
BY DEF TypeInv, TypeOK, EditorBecomes

\* A commit: editor e is left with nothing, has decided what it held and may
\* have created its row. No other transaction notices.
LEMMA OthersKept ==
  ASSUME TypeInv, LockInv, NEW e \in Editors,
         NEW new \in {"PENDING", "APPROVED"},
         editor[e].pc = IF new = "PENDING" THEN "plan_locks"
                                           ELSE "approve_locks",
         editor'[e].pc \in {"idle", "invalidate"}, editor'[e].locked = {},
         \A f \in Editors \ {e} : editor'[f] = editor[f],
         \A r \in Requests : requests'[r] =
           IF r = editor[e].request THEN new
           ELSE IF r \in editor[e].locked THEN "CANCELED" ELSE requests[r]
  PROVE  LockInv'
<1>1. \A f \in Editors : editor[f] \in EditorState
  BY DEF TypeInv, TypeOK
<1>2. \A f \in Editors : /\ editor[f].seen \subseteq Requests
                         /\ editor[f].locked \subseteq Requests
  BY <1>1 DEF EditorState
<1>3. editor[e].pc = "plan_locks" => requests[editor[e].request] = "none"
  BY DEF LockInv, Target
<1>4. editor[e].pc = "approve_locks" => requests[editor[e].request] = "PENDING"
  BY DEF LockInv, Target, Holding
<1>5. \A r \in Requests : requests[r] \in Decided => requests'[r] = requests[r]
  BY <1>3, <1>4 DEF LockInv, Holding, Decided
<1>6. \A r \in Requests : requests[r] # "none" => requests'[r] # "none"
  OBVIOUS
<1>7. ASSUME NEW f \in Editors \ {e}
      PROVE  Target(f)' /\ Holding(f)' /\ Accounted(f)'
  <2>1. Target(f)'
    BY <1>3, <1>4 DEF LockInv, Target, Holding, Apart
  <2>2. Holding(f)'
    BY <1>2, <1>3, <1>4 DEF LockInv, Target, Holding, Apart
  <2>3. Accounted(f)'
    BY <1>2, <1>5, <1>6 DEF LockInv, Accounted
  <2> QED BY <2>1, <2>2, <2>3
<1>8. Target(e)' /\ Holding(e)' /\ Accounted(e)'
  BY DEF Target, Holding, Accounted
<1>9. ASSUME NEW f \in Editors, NEW g \in Editors, f # g PROVE Apart(f, g)'
  BY <1>9 DEF LockInv, Apart
<1> QED BY <1>7, <1>8, <1>9 DEF LockInv

\* The commit of requestPlan.
LEMMA PlanKept ==
  ASSUME TypeInv, LockInv, NEW e \in Editors, PlanCommits(e)
  PROVE  LockInv'
<1>1. /\ editor[e].pc = "plan_locks" /\ editor'[e] = NoEdit
      /\ \A f \in Editors \ {e} : editor'[f] = editor[f]
  BY EditorAt DEF PlanCommits
<1>2. \A r \in Requests : requests'[r] =
        IF r = editor[e].request THEN "PENDING"
        ELSE IF r \in editor[e].locked THEN "CANCELED" ELSE requests[r]
  BY DEF PlanCommits
<1>3. editor'[e].pc \in {"idle", "invalidate"} /\ editor'[e].locked = {}
  BY <1>1, Blanks DEF NoEdit
<1> QED BY <1>1, <1>2, <1>3, OthersKept

\* An editor's operation keeps the locking discipline: it writes only what it
\* holds and the row it creates.
LEMMA EditorLocks ==
  ASSUME TypeInv, LockInv, NEW e \in Editors,
         \/ PlanRequested(e) \/ EditGoesOn(e)
         \/ \E i \in Instances :
              ApproveReads(e, i) \/ AssignPlan(e, i) \/ AddCredits(e, i)
  PROVE  LockInv'
<1> USE DEF LockInv, Target, Holding, Accounted, Apart
<1>1. /\ requests \in [Requests -> {"none", "PENDING"} \cup Decided]
      /\ editor \in [Editors -> EditorState]
      /\ \A f \in Editors : Sound(editor[f], started)
  BY DEF TypeInv, TypeOK
<1>2. /\ NoEdit.pc = "idle" /\ NoEdit.locked = {} /\ NoEdit.todo = {}
      /\ NoEdit.seen = {} /\ NoEdit.request = Nothing /\ NoEdit \in EditorState
  BY Blanks DEF NoEdit
\* An editor that is left with nothing disturbs nobody.
<1>3. ASSUME NEW n \in EditorState, EditorBecomes(e, n), UNCHANGED requests,
             n.pc \in {"idle", "invalidate"}, n.locked = {}
      PROVE LockInv'
  BY <1>3, EditorAt
<1>4. CASE PlanRequested(e)
  <2>1. PICK r \in Requests :
          /\ requests[r] = "none" /\ \A f \in Editors : editor[f].request # r
          /\ EditorBecomes(e, [NoEdit EXCEPT !.pc = "plan", !.request = r])
    BY <1>4 DEF PlanRequested
  <2> DEFINE n == [NoEdit EXCEPT !.pc = "plan", !.request = r]
  <2>2. n.pc = "plan" /\ n.request = r /\ n.locked = {}
    BY <1>2 DEF EditorState
  <2>3. EditorBecomes(e, n) /\ UNCHANGED requests
    BY <1>4, <2>1 DEF PlanRequested
  <2> HIDE DEF n
  <2> QED BY <2>1, <2>2, <2>3, EditorAt
<1>5. CASE PlanSees(e)
  <2> DEFINE n == [editor[e] EXCEPT
                     !.pc = "plan_locks", !.todo = Replaces, !.seen = Open]
  <2>1. /\ n.pc = "plan_locks" /\ n.request = editor[e].request
        /\ n.locked = editor[e].locked /\ n.todo = Open /\ n.seen = Open
    BY <1>1 DEF EditorState, Replaces
  <2>2. EditorBecomes(e, n) /\ editor[e].pc = "plan" /\ UNCHANGED requests
    BY <1>5 DEF PlanSees
  <2> HIDE DEF n
  <2> QED BY <1>1, <2>1, <2>2, EditorAt DEF Open
<1>6. CASE Locks(e)
  <2> DEFINE n(r) == [editor[e] EXCEPT
                !.todo = @ \ {r},
                !.locked = IF StillPending(r) THEN @ \cup {r} ELSE @]
  <2>1. PICK r \in editor[e].todo : EditorBecomes(e, n(r)) /\ ~LockedFor(e, r)
    BY <1>6 DEF Locks
  <2>2. /\ n(r).pc = editor[e].pc /\ n(r).request = editor[e].request
        /\ n(r).seen = editor[e].seen /\ n(r).todo = editor[e].todo \ {r}
        /\ n(r).locked = IF StillPending(r) THEN editor[e].locked \cup {r}
                                            ELSE editor[e].locked
    BY <1>1 DEF EditorState
  <2>3. /\ editor[e].pc \in {"plan_locks", "approve_locks"}
        /\ UNCHANGED requests
    BY <1>6 DEF Locks
  <2>4. r \in Requests /\ requests[r] # "none"
    BY <1>1, <2>1, <2>3 DEF EditorState
  <2> HIDE DEF n
  <2> QED
    BY <1>1, <2>1, <2>2, <2>3, <2>4, EditorAt
    DEF LockedFor, StillPending, Decided
<1>7. CASE PlanCommits(e)
  BY PlanKept, <1>7
<1>8. ASSUME NEW i \in Instances, ApproveReads(e, i) PROVE LockInv'
  <2> DEFINE n(r) == [NoEdit EXCEPT
        !.pc = "approve", !.request = r, !.period = started, !.at = i]
  <2>1. PICK r \in Open : EditorBecomes(e, n(r)) /\ UNCHANGED requests
    BY <1>8 DEF ApproveReads
  <2>2. n(r).pc = "approve" /\ n(r).request = r /\ n(r).locked = {}
    BY <1>2 DEF EditorState
  <2> HIDE DEF n
  <2> QED BY <2>1, <2>2, EditorAt DEF Open
<1>9. CASE ApproveClaims(e)
  <2> DEFINE q == editor[e].request
             n == [editor[e] EXCEPT !.pc = "others", !.locked = {q}]
  <2>1. /\ editor[e].pc = "approve" /\ ~LockedFor(e, q) /\ UNCHANGED requests
        /\ IF StillPending(q) THEN EditorBecomes(e, n)
                              ELSE EditorBecomes(e, NoEdit)
    BY <1>9 DEF ApproveClaims
  <2>2. n.pc = "others" /\ n.request = q /\ n.locked = {q}
    BY <1>1 DEF EditorState
  <2> HIDE DEF n
  <2>3. CASE StillPending(q)
    BY <2>1, <2>2, <2>3, EditorAt DEF LockedFor, StillPending
  <2>4. CASE ~StillPending(q)
    BY <1>2, <1>3, <2>1, <2>4
  <2> QED BY <2>3, <2>4
<1>10. CASE ApproveSees(e)
  <2> DEFINE n == [editor[e] EXCEPT !.pc = "approve_locks",
                     !.todo = Others(editor[e].request), !.seen = Open]
  <2>1. /\ n.pc = "approve_locks" /\ n.request = editor[e].request
        /\ n.locked = editor[e].locked /\ n.seen = Open
        /\ n.todo = Open \ {editor[e].request}
    BY <1>1 DEF EditorState, Others
  <2>2. EditorBecomes(e, n) /\ editor[e].pc = "others" /\ UNCHANGED requests
    BY <1>10 DEF ApproveSees
  <2> HIDE DEF n
  <2> QED BY <1>1, <2>1, <2>2, EditorAt DEF Open
<1>11. CASE ApproveCommits(e)
  <2> DEFINE n == [NoEdit EXCEPT !.pc = "invalidate", !.at = editor[e].at]
  <2>1. /\ editor[e].pc = "approve_locks" /\ editor'[e] = n
        /\ \A f \in Editors \ {e} : editor'[f] = editor[f]
    BY <1>11, EditorAt DEF ApproveCommits
  <2>2. \A r \in Requests : requests'[r] =
          IF r = editor[e].request THEN "APPROVED"
          ELSE IF r \in editor[e].locked THEN "CANCELED" ELSE requests[r]
    BY <1>11 DEF ApproveCommits
  <2>3. n.pc = "invalidate" /\ n.locked = {}
    BY <1>2 DEF EditorState
  <2> HIDE DEF n
  <2> QED BY <1>1, <2>1, <2>2, <2>3, OthersKept
<1>12. ASSUME NEW i \in Instances, AssignPlan(e, i) \/ AddCredits(e, i)
       PROVE LockInv'
  <2> DEFINE n == [NoEdit EXCEPT !.pc = "invalidate", !.at = i]
  <2>1. n \in EditorState /\ n.pc = "invalidate" /\ n.locked = {}
    BY <1>2 DEF EditorState
  <2>2. EditorBecomes(e, n) /\ UNCHANGED requests
    BY <1>12 DEF AssignPlan, AddCredits
  <2> HIDE DEF n
  <2> QED BY <1>3, <2>1, <2>2
<1>13. CASE Invalidate(e) \/ EditFails(e)
  BY <1>2, <1>3, <1>13 DEF Invalidate, EditFails
<1> QED
  BY <1>4, <1>5, <1>6, <1>7, <1>8, <1>9, <1>10, <1>11, <1>12, <1>13
  DEF EditGoesOn

\* Every step keeps the inductive invariant.
LEMMA NextInv == IInv /\ [Next]_vars => IInv'
<1> SUFFICES ASSUME IInv, [Next]_vars PROVE LockInv'
  BY NextTypes DEF IInv
<1> USE DEF IInv
<1>1. ASSUME NEW r \in Requests, Reject(r) PROVE LockInv'
  <2>1. /\ requests[r] = "PENDING" /\ UNCHANGED editor
        /\ \A e \in Editors : r \notin editor[e].locked
        /\ requests' = [requests EXCEPT ![r] = "REJECTED"]
    BY <1>1 DEF Reject
  <2>2. \A q \in Requests :
          requests'[q] = IF q = r THEN "REJECTED" ELSE requests[q]
    BY <2>1 DEF TypeInv, TypeOK
  <2>3. \A e \in Editors : /\ editor[e].seen \subseteq Requests
                          /\ editor[e].locked \subseteq Requests
    BY DEF TypeInv, TypeOK, EditorState
  <2>4. ASSUME NEW e \in Editors
        PROVE  Target(e)' /\ Holding(e)' /\ Accounted(e)'
    BY <2>1, <2>2, <2>3 DEF LockInv, Target, Holding, Accounted, Decided
  <2> QED BY <2>1, <2>4 DEF LockInv, Apart
<1>2. ASSUME UNCHANGED <<requests, editor>> PROVE LockInv'
  BY <1>2 DEF LockInv, Target, Holding, Accounted, Apart
<1>3. ASSUME NEW c \in Callers,
             \/ CallGoesOn(c) \/ CallFails(c)
             \/ \E i \in Instances : Call(c, i)
      PROVE LockInv'
  BY <1>2, <1>3 DEF CallGoesOn, Enter, Read, Expire, Put, RefuseInactive,
     GateHit, GateLoads, GateLoaded, RecordUsage, CallFails, Call
<1>4. CASE MonthEnds \/ \E i \in Instances :
             EntitlementAges(i) \/ \E p \in Periods : GateAges(i, p)
  BY <1>2, <1>4 DEF MonthEnds, EntitlementAges, GateAges
<1>5. CASE UNCHANGED vars
  BY <1>2, <1>5 DEF vars
<1> QED BY EditorLocks, <1>1, <1>3, <1>4, <1>5 DEF Next

\* Who holds which row, in any reachable state: the discipline behind the two
\* theorems that follow.
THEOREM InductiveInvariant == Spec => []IInv
<1>1. Init => IInv
  BY InitTypes, InitLocks DEF IInv
<1> QED BY <1>1, NextInv, PTL DEF Spec

\* The two operations of a transaction that write, and the conditional update
\* of rejectRequest: only they change the status of a request.
LEMMA Writers ==
  ASSUME [Next]_vars
  PROVE  \/ UNCHANGED requests
         \/ \E e \in Editors : PlanCommits(e) \/ ApproveCommits(e)
         \/ \E r \in Requests : Reject(r)
<1>1. ASSUME NEW e \in Editors,
             \/ PlanRequested(e) \/ EditGoesOn(e)
             \/ \E i \in Instances :
                  ApproveReads(e, i) \/ AssignPlan(e, i) \/ AddCredits(e, i)
      PROVE UNCHANGED requests \/ PlanCommits(e) \/ ApproveCommits(e)
  BY <1>1 DEF EditGoesOn, PlanRequested, PlanSees, Locks, ApproveReads,
     ApproveClaims, ApproveSees, AssignPlan, AddCredits, Invalidate, EditFails
<1>2. ASSUME NEW c \in Callers,
             \/ CallGoesOn(c) \/ CallFails(c)
             \/ \E i \in Instances : Call(c, i)
      PROVE UNCHANGED requests
  BY <1>2 DEF CallGoesOn, Enter, Read, Expire, Put, RefuseInactive,
     GateHit, GateLoads, GateLoaded, RecordUsage, CallFails, Call
<1>3. ASSUME \/ MonthEnds
             \/ \E i \in Instances :
                  EntitlementAges(i) \/ \E p \in Periods : GateAges(i, p)
             \/ UNCHANGED vars
      PROVE UNCHANGED requests
  BY <1>3 DEF MonthEnds, EntitlementAges, GateAges, vars
<1> QED BY <1>1, <1>2, <1>3 DEF Next

\* A decision about a request is final, for any number of owners and
\* administrators at work and however their transactions overlap.
THEOREM DecisionsAreFinal == Spec => DecidedOnce
<1>1. ASSUME IInv, [Next]_vars, NEW r \in Requests, requests[r] \in Decided
      PROVE  requests'[r] = requests[r]
  <2>1. ASSUME NEW e \in Editors, PlanCommits(e)
        PROVE  requests'[r] = requests[r]
    <3>1. r \notin editor[e].locked /\ r # editor[e].request
      BY <1>1, <2>1 DEF PlanCommits, IInv, LockInv, Target, Holding, Decided
    <3> QED BY <2>1, <3>1 DEF PlanCommits
  <2>2. ASSUME NEW e \in Editors, ApproveCommits(e)
        PROVE  requests'[r] = requests[r]
    <3>1. r \notin editor[e].locked /\ r # editor[e].request
      BY <1>1, <2>2 DEF ApproveCommits, IInv, LockInv, Target, Holding, Decided
    <3> QED BY <2>2, <3>1 DEF ApproveCommits
  <2>3. ASSUME NEW q \in Requests, Reject(q) PROVE requests'[r] = requests[r]
    BY <1>1, <2>3 DEF Reject, Decided, IInv, TypeInv, TypeOK
  <2> QED BY <1>1, <2>1, <2>2, <2>3, Writers
<1>2. IInv /\ [Next]_vars =>
        [\A r \in Requests :
           requests[r] \in Decided => requests'[r] = requests[r]]_vars
  BY <1>1
<1> QED BY <1>2, InductiveInvariant, PTL DEF Spec, DecidedOnce

\* A transaction leaves nothing open that its updateMany saw, whatever others
\* did to those rows while it waited for them.
THEOREM NothingSeenStaysOpen == Spec => SeenIsDecided
<1>1. ASSUME IInv, NEW e \in Editors, PlanCommits(e) \/ ApproveCommits(e),
             NEW r \in editor[e].seen
      PROVE  requests'[r] \in Decided
  <2>1. r \in Requests
    BY <1>1 DEF IInv, TypeInv, TypeOK, EditorState
  <2>2. r \in editor[e].locked \/ requests[r] \in Decided
    BY <1>1 DEF IInv, LockInv, Accounted, PlanCommits, ApproveCommits
  <2>3. CASE PlanCommits(e)
    <3>1. r # editor[e].request
      BY <1>1, <2>3 DEF IInv, LockInv, Accounted, Target, PlanCommits
    <3> QED BY <2>1, <2>2, <2>3, <3>1 DEF PlanCommits, Decided
  <2>4. CASE ApproveCommits(e)
    BY <2>1, <2>2, <2>4 DEF ApproveCommits, Decided
  <2> QED BY <1>1, <2>3, <2>4
<1>2. IInv /\ [Next]_vars =>
        [\A e \in Editors : PlanCommits(e) \/ ApproveCommits(e) =>
           \A r \in editor[e].seen : requests'[r] \in Decided]_vars
  BY <1>1
<1> QED BY <1>2, InductiveInvariant, PTL DEF Spec, SeenIsDecided

-----------------------------------------------------------------------------
(* A plan over its months (the instance Turns of MCSubscriptions).         *)

\* The plan is of a period that has begun, and so is what an administrator is
\* about to write; who is about to end a period has read one that is over.
\* Of the two records only the fields that are read here matter.
OlderRead ==
  /\ begun \in Nat \ {0} /\ over \in Int
  /\ {"status", "period"} \subseteq DOMAIN plan
  /\ plan.period \in Int /\ plan.period < begun
  /\ DOMAIN admin = {Admin} /\ {"pc", "period"} \subseteq DOMAIN admin[Admin]
  /\ admin[Admin].period \in Int /\ admin[Admin].period < begun
  /\ DOMAIN turn = {Caller} /\ {"pc", "info"} \subseteq DOMAIN turn[Caller]
  /\ turn[Caller].pc = "expire" =>
       turn[Caller].info.period \in Int /\ turn[Caller].info.period < over

LEMMA OlderReadInit == Turns!Init => OlderRead
BY DEF Turns!Init, OlderRead, Turns!NoEdit, Turns!NoCall

\* What an administrator goes on with writes no later period, and what a turn
\* goes on with is not about to end one.
Within(n) ==
  {"pc", "period"} \subseteq DOMAIN n /\ n.period \in {0, admin[Admin].period}
Harmless(n) == {"pc", "info"} \subseteq DOMAIN n /\ n.pc # "expire"

LEMMA WithinNow ==
  ASSUME OlderRead PROVE Within(admin[Admin]) /\ Within(Turns!NoEdit)
BY DEF OlderRead, Within, Turns!NoEdit

LEMMA AdminIs ==
  ASSUME OlderRead, NEW n, Turns!EditorBecomes(Admin, n)
  PROVE  DOMAIN admin' = {Admin} /\ admin'[Admin] = n
BY DEF OlderRead, Turns!EditorBecomes

LEMMA AdminBecomes ==
  ASSUME OlderRead, NEW n, Turns!EditorBecomes(Admin, n), Within(n),
         UNCHANGED <<plan, begun, over, turn>>
  PROVE  OlderRead'
BY AdminIs DEF OlderRead, Within

LEMMA TurnBecomes ==
  ASSUME OlderRead, NEW n, Turns!CallerBecomes(Caller, n), Harmless(n),
         UNCHANGED <<plan, begun, over, admin>>
  PROVE  OlderRead'
<1>1. DOMAIN turn' = {Caller} /\ turn'[Caller] = n
  BY DEF OlderRead, Turns!CallerBecomes
<1> QED BY <1>1 DEF OlderRead, Harmless

\* Which period he is going to write.
LEMMA AdminWrites ==
  ASSUME OlderRead, NEW n, Turns!EditorBecomes(Admin, n),
         {"pc", "period"} \subseteq DOMAIN n
  PROVE  /\ DOMAIN admin' = {Admin} /\ {"pc", "period"} \subseteq DOMAIN admin'[Admin]
         /\ admin'[Admin].period = n.period
BY AdminIs

\* The administrator's steps.
LEMMA OlderReadEdits ==
  ASSUME OlderRead,
         \/ Turns!PlanRequested(Admin) \/ Turns!EditGoesOn(Admin)
         \/ \E i \in Instances : \/ Turns!ApproveReads(Admin, i)
                                 \/ Turns!AssignPlan(Admin, i)
                                 \/ Turns!AddCredits(Admin, i)
  PROVE  OlderRead'
<1> DEFINE Whole == /\ DOMAIN admin' = {Admin}
                    /\ {"pc", "period"} \subseteq DOMAIN admin'[Admin]
<1>1. CASE Turns!PlanRequested(Admin)
  BY <1>1, AdminBecomes, WithinNow DEF Turns!PlanRequested, Within
<1>2. CASE Turns!PlanSees(Admin) \/ Turns!PlanCommits(Admin)
  BY <1>2, AdminBecomes, WithinNow DEF Turns!PlanSees, Turns!PlanCommits, Within
<1>3. CASE Turns!Locks(Admin)
  BY <1>3, AdminBecomes, WithinNow DEF Turns!Locks, Within
<1>4. CASE Turns!ApproveClaims(Admin)
  BY <1>4, AdminBecomes, WithinNow DEF Turns!ApproveClaims, Within
<1>5. CASE Turns!ApproveSees(Admin)
  BY <1>5, AdminBecomes, WithinNow DEF Turns!ApproveSees, Within
<1>6. CASE Turns!Invalidate(Admin) \/ Turns!EditFails(Admin)
  BY <1>6, AdminBecomes, WithinNow DEF Turns!Invalidate, Turns!EditFails
<1>11. {"pc", "period"} \subseteq DOMAIN Turns!NoEdit /\ Turns!NoEdit.period = 0
  BY DEF Turns!NoEdit
<1>12. \A i : LET n == [Turns!NoEdit EXCEPT !.pc = "invalidate", !.at = i]
               IN {"pc", "period"} \subseteq DOMAIN n /\ n.period = 0
  BY <1>11
<1>7. CASE Turns!ApproveCommits(Admin)
  <2>1. /\ plan' = [status |-> "ACTIVE", period |-> admin[Admin].period, bonus |-> 0]
        /\ UNCHANGED <<begun, over, turn>>
    BY <1>7 DEF Turns!ApproveCommits, Turns!Renewed
  <2>2. Whole /\ admin'[Admin].period = 0
    BY <1>7, <1>12, AdminWrites DEF Turns!ApproveCommits
  <2> QED BY <2>1, <2>2 DEF OlderRead
<1>8. ASSUME NEW i \in Instances, Turns!ApproveReads(Admin, i) PROVE OlderRead'
  <2>1. PICK r : Turns!EditorBecomes(Admin, [Turns!NoEdit EXCEPT
          !.pc = "approve", !.request = r, !.period = begun, !.at = i])
    BY <1>8 DEF Turns!ApproveReads
  <2>2. Whole /\ admin'[Admin].period = begun
    <3> DEFINE n == [Turns!NoEdit EXCEPT
          !.pc = "approve", !.request = r, !.period = begun, !.at = i]
    <3>1. {"pc", "period"} \subseteq DOMAIN n /\ n.period = begun
      BY <1>11
    <3> HIDE DEF n
    <3> QED BY <2>1, <3>1, AdminWrites DEF n
  <2>3. UNCHANGED <<plan, over, turn>> /\ begun' = begun + 1
    BY <1>8 DEF Turns!ApproveReads
  <2> QED BY <2>2, <2>3 DEF OlderRead
<1>9. ASSUME NEW i \in Instances, Turns!AssignPlan(Admin, i) PROVE OlderRead'
  <2>1. Whole /\ admin'[Admin].period = 0
    BY <1>9, <1>12, AdminWrites DEF Turns!AssignPlan
  <2>2. {"status", "period"} \subseteq DOMAIN plan' /\ plan'.period = begun
    BY <1>9 DEF Turns!AssignPlan, Turns!Renewed
  <2>3. UNCHANGED <<over, turn>> /\ begun' = begun + 1
    BY <1>9 DEF Turns!AssignPlan
  <2> QED BY <2>1, <2>2, <2>3 DEF OlderRead
<1>10. ASSUME NEW i \in Instances, Turns!AddCredits(Admin, i) PROVE OlderRead'
  <2>1. Whole /\ admin'[Admin].period = 0
    BY <1>10, <1>12, AdminWrites DEF Turns!AddCredits
  <2>2. {"status", "period"} \subseteq DOMAIN plan' /\ plan'.period = plan.period
    BY <1>10 DEF OlderRead, Turns!AddCredits
  <2>3. UNCHANGED <<begun, over, turn>>
    BY <1>10 DEF Turns!AddCredits
  <2> QED BY <2>1, <2>2, <2>3 DEF OlderRead
<1> QED BY <1>1, <1>2, <1>3, <1>4, <1>5, <1>6, <1>7, <1>8, <1>9, <1>10
        DEF Turns!EditGoesOn

\* The steps of a turn of the agent.
LEMMA OlderReadCalls ==
  ASSUME OlderRead,
         \/ Turns!CallGoesOn(Caller) \/ Turns!CallFails(Caller)
         \/ \E i \in Instances : Turns!Call(Caller, i)
  PROVE  OlderRead'
<1> DEFINE Whole == /\ DOMAIN turn' = {Caller}
                    /\ {"pc", "info"} \subseteq DOMAIN turn'[Caller]
<1>1. Harmless(Turns!NoCall) /\ {"pc", "info"} \subseteq DOMAIN turn[Caller]
  BY DEF OlderRead, Harmless, Turns!NoCall
<1>2. CASE \E i \in Instances : Turns!Call(Caller, i)
  BY <1>1, <1>2, TurnBecomes DEF Turns!Call, Harmless
<1>3. CASE Turns!Enter(Caller)
  BY <1>1, <1>3, TurnBecomes DEF Turns!Enter, Harmless
<1>4. CASE Turns!Put(Caller)
  BY <1>1, <1>4, TurnBecomes DEF Turns!Put, Harmless
<1>5. CASE Turns!RefuseInactive(Caller) \/ Turns!CallFails(Caller)
  BY <1>1, <1>5, TurnBecomes DEF Turns!RefuseInactive, Turns!CallFails
<1>6. CASE Turns!GateHit(Caller) \/ Turns!GateLoaded(Caller)
  <2>1. \A count : Harmless(Turns!Passed(Caller, count))
    BY <1>1 DEF Turns!Passed, Harmless
  <2> QED BY <1>6, <2>1, TurnBecomes DEF Turns!GateHit, Turns!GateLoaded
<1>7. CASE Turns!GateLoads(Caller)
  BY <1>1, <1>7, TurnBecomes DEF Turns!GateLoads, Harmless
<1>8. CASE Turns!RecordUsage(Caller)
  <2>1. Harmless([turn[Caller] EXCEPT !.pc = "turn"])
    BY <1>1 DEF Harmless
  <2>2. \A n \in {[turn[Caller] EXCEPT !.pc = "turn"], Turns!NoCall} : Harmless(n)
    BY <1>1, <2>1
  <2>3. PICK n \in {[turn[Caller] EXCEPT !.pc = "turn"], Turns!NoCall} :
          Turns!CallerBecomes(Caller, n)
    BY <1>8 DEF Turns!RecordUsage
  <2>4. UNCHANGED <<plan, begun, over, admin>>
    BY <1>8 DEF Turns!RecordUsage
  <2> QED BY <2>2, <2>3, <2>4, TurnBecomes
<1> USE DEF Turns!CallerBecomes
<1>9. CASE Turns!Read(Caller)
  <2>1. DOMAIN turn' = {Caller}
    BY <1>9 DEF OlderRead, Turns!Read
  <2>2. {"pc", "info"} \subseteq DOMAIN turn'[Caller]
    BY <1>9, <2>1 DEF OlderRead, Turns!Read
  <2>3. turn'[Caller].pc = "expire" =>
          turn'[Caller].info.period = plan.period /\ plan.period < over
    BY <1>9, <2>1 DEF OlderRead, Turns!Read, Turns!Lapsed
  <2>4. UNCHANGED <<plan, begun, over, admin>>
    BY <1>9 DEF Turns!Read
  <2> QED BY <2>1, <2>2, <2>3, <2>4 DEF OlderRead
<1>10. CASE Turns!Expire(Caller)
  <2>1. Whole /\ turn'[Caller].pc # "expire"
    BY <1>10 DEF OlderRead, Turns!Expire
  <2>2. {"status", "period"} \subseteq DOMAIN plan' /\ plan'.period = plan.period
    BY <1>10 DEF OlderRead, Turns!Expire
  <2>3. UNCHANGED <<begun, over, admin>>
    BY <1>10 DEF Turns!Expire
  <2> QED BY <2>1, <2>2, <2>3 DEF OlderRead
<1> QED BY <1>2, <1>3, <1>4, <1>5, <1>6, <1>7, <1>8, <1>9, <1>10
        DEF Turns!CallGoesOn

\* Every step.
LEMMA OlderReadStep == OlderRead /\ [Turns!Next]_(Turns!vars) => OlderRead'
<1> SUFFICES ASSUME OlderRead, [Turns!Next]_(Turns!vars) PROVE OlderRead'
  OBVIOUS
<1>1. CASE Turns!MonthEnds
  BY <1>1 DEF Turns!MonthEnds, OlderRead
<1>2. ASSUME UNCHANGED <<plan, begun, over, admin, turn>> PROVE OlderRead'
  BY <1>2 DEF OlderRead
<1>3. CASE \/ \E r \in {Plan} : Turns!Reject(r)
           \/ \E i \in Instances :
                \/ Turns!EntitlementAges(i)
                \/ \E p \in Turns!Periods : Turns!GateAges(i, p)
           \/ UNCHANGED Turns!vars
  BY <1>2, <1>3 DEF Turns!Reject, Turns!EntitlementAges, Turns!GateAges, Turns!vars
<1>4. CASE \E c \in {Caller} : \/ Turns!CallGoesOn(c) \/ Turns!CallFails(c)
                               \/ \E i \in Instances : Turns!Call(c, i)
  BY <1>4, OlderReadCalls
<1>5. CASE \E e \in {Admin} :
             \/ Turns!PlanRequested(e) \/ Turns!EditGoesOn(e)
             \/ \E i \in Instances : \/ Turns!ApproveReads(e, i)
                                     \/ Turns!AssignPlan(e, i)
                                     \/ Turns!AddCredits(e, i)
  BY <1>5, OlderReadEdits
<1> QED BY <1>1, <1>3, <1>4, <1>5 DEF Turns!Next

\* A step of Turns that ends a running plan has read an older one.
CutLate ==
  Turns!Cut => \/ plan.period < over
               \/ \E c \in {Caller} : /\ turn[c].pc = "expire"
                                      /\ turn[c].info.period # plan.period

LEMMA CutIsLate == ASSUME OlderRead, [Turns!Next]_(Turns!vars) PROVE CutLate
<1> SUFFICES ASSUME Turns!Cut, ~(plan.period < over)
             PROVE  /\ turn[Caller].pc = "expire"
                    /\ turn[Caller].info.period # plan.period
  BY DEF CutLate
<1>0. /\ plan.status = "ACTIVE" /\ plan'.status = "EXPIRED"
      /\ plan'.period = plan.period /\ plan' # plan
  BY DEF Turns!Cut
<1>1. CASE Turns!Expire(Caller)
  <2>1. turn[Caller].pc = "expire"
    BY <1>1 DEF Turns!Expire
  <2> QED BY <2>1 DEF OlderRead
<1>2. ASSUME NEW i \in Instances, Turns!AssignPlan(Admin, i) PROVE FALSE
  BY <1>0, <1>2 DEF Turns!AssignPlan, Turns!Renewed, OlderRead
<1>3. CASE Turns!ApproveCommits(Admin)
  BY <1>0, <1>3 DEF Turns!ApproveCommits, Turns!Renewed
<1>4. ASSUME NEW i \in Instances, Turns!AddCredits(Admin, i) PROVE FALSE
  BY <1>0, <1>4 DEF Turns!AddCredits, OlderRead
<1>5. \/ Turns!Expire(Caller) \/ Turns!ApproveCommits(Admin)
      \/ \E i \in Instances : \/ Turns!AssignPlan(Admin, i)
                              \/ Turns!AddCredits(Admin, i)
  BY <1>0 DEF Turns!Next, Turns!vars, Turns!PlanRequested, Turns!EditGoesOn,
     Turns!PlanSees, Turns!Locks, Turns!PlanCommits, Turns!ApproveReads,
     Turns!ApproveClaims, Turns!ApproveSees, Turns!Invalidate, Turns!EditFails,
     Turns!Reject, Turns!CallGoesOn, Turns!CallFails, Turns!Call, Turns!Enter,
     Turns!Read, Turns!Put, Turns!RefuseInactive, Turns!GateHit,
     Turns!GateLoads, Turns!GateLoaded, Turns!RecordUsage, Turns!MonthEnds,
     Turns!EntitlementAges, Turns!GateAges
<1> QED BY <1>1, <1>2, <1>3, <1>4, <1>5

\* Whatever the limit and however many instances and months, a running plan is
\* ended early only by a look at the clock that had read an older period
\* (buildEntitlementForUser of subscriptions.service.ts).
THEOREM PlansRunOut == MCSpec => NotCutShort
<1>1. MCInit => OlderRead
  BY OlderReadInit DEF MCInit
<1>2. [MCNext]_parts => [Turns!Next]_(Turns!vars)
  BY DEF MCNext, OfRequests, OfTurns, parts, turns, Turns!vars
<1>3. OlderRead /\ [MCNext]_parts => OlderRead'
  BY <1>2, OlderReadStep
<1>4. OlderRead /\ [MCNext]_parts => [CutLate]_(Turns!vars)
  BY <1>2, CutIsLate
<1>5. NotCutShort <=> [][CutLate]_(Turns!vars)
  BY DEF NotCutShort, Turns!CutOnlyByOlderRead, CutLate
<1> QED BY <1>1, <1>3, <1>4, <1>5, PTL DEF MCSpec
=============================================================================
