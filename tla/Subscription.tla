---------------------------- MODULE Subscription ----------------------------
(***************************************************************************)
(* The subscription of one user: subscriptions.service.ts.                 *)
(*                                                                         *)
(* The owner asks for a plan, an administrator approves or rejects the     *)
(* request, assigns a plan or adds credits, and every turn of the agent    *)
(* asks assertAiAllowed, which answers from two caches in the memory of    *)
(* its instance.  Requests and approvals are transactions at READ          *)
(* COMMITTED: a statement sees what is committed when it begins, waits for *)
(* the rows others have written, and looks at its condition again when it  *)
(* gets them.                                                              *)
(*                                                                         *)
(* Time: periods are numbered in the order of currentPeriodStart, and a    *)
(* period is over if its number is below `ended`.  The entries of a cache  *)
(* go at some moment.  Tiers, features, tools, voice and storage limits    *)
(* are left out: credits stand for every counted limit.                    *)
(***************************************************************************)
EXTENDS Integers, FiniteSets

CONSTANTS
  Requests,   \* rows SubscriptionRequest may come to have
  Editors,    \* requests of the owner and the administrators to the server
  Callers,    \* turns of the agent, and looks at the subscription page
  Instances,  \* server processes
  Nothing,    \* no cache entry, no request
  Limit,      \* aiCreditsPerMonth
  MaxBonus,   \* bound: credits added
  MaxPeriods  \* bound: periods begun

ASSUME SubscriptionAssumption ==
  /\ Limit \in Nat \ {0} /\ MaxBonus \in Nat /\ MaxPeriods \in Nat \ {0}
  /\ Nothing \notin Requests

VARIABLES
  requests,    \* status of every row of SubscriptionRequest
  sub,         \* the row of UserSubscription
  used,        \* credits in AiUsage per period, up to Spent
  started,     \* periods begun so far
  ended,       \* periods over so far
  editor,      \* where every editor's operation stands
  caller,      \* where every call of assertAiAllowed stands
  entitlement, \* entitlementCache of every instance
  gate         \* usageGateCache of every instance, by period

vars == <<requests, sub, used, started, ended, editor, caller, entitlement,
          gate>>

Periods == 0..(MaxPeriods - 1)
Spent == Limit + MaxBonus
Decided == {"APPROVED", "REJECTED", "CANCELED"}
Infos == [period : Periods, bonus : 0..MaxBonus, canUse : BOOLEAN]

\* An editor's statement has `todo` rows left to visit and its transaction has
\* `locked` those it wrote; `seen` (history) is what the statement saw open.
NoEdit == [pc |-> "idle", request |-> Nothing, period |-> 0, at |-> Nothing,
           todo |-> {}, locked |-> {}, seen |-> {}]
NoCall == [pc |-> "idle", at |-> Nothing, look |-> FALSE, count |-> 0,
           info |-> [period |-> 0, bonus |-> 0, canUse |-> FALSE]]

EditorBecomes(e, n) == editor' = [editor EXCEPT ![e] = n]
CallerBecomes(c, n) == caller' = [caller EXCEPT ![c] = n]

Open == {r \in Requests : requests[r] = "PENDING"}

\* A row another transaction has written and not committed.
LockedFor(e, r) == \E f \in Editors \ {e} : r \in editor[f].locked

\* What a statement finds when it comes to a row it has seen as PENDING; the
\* variant trusts what it saw.
AsSeen(r) == TRUE
StillPending(r) == requests[r] = "PENDING"

\* currentPeriodEnd <= now; the variant takes the running period for the last.
LapsedEarly(row) == row.status = "ACTIVE" /\ row.period <= ended
Lapsed(row) == row.status = "ACTIVE" /\ row.period < ended

\* The row after an approval; the variant numbers the period after it.
RenewedLate(period) == [status |-> "ACTIVE", period |-> period + 1, bonus |-> 0]
Renewed(period) == [status |-> "ACTIVE", period |-> period, bonus |-> 0]

Init ==
  /\ requests = [r \in Requests |-> "none"]
  /\ sub \in [status : {"ACTIVE", "EXPIRED"}, period : {0}, bonus : {0}]
  /\ used = [p \in Periods |-> 0]
  /\ started = 1 /\ ended = 0
  /\ editor = [e \in Editors |-> NoEdit]
  /\ caller = [c \in Callers |-> NoCall]
  /\ entitlement = [i \in Instances |-> Nothing]
  /\ gate = [i \in Instances |-> [p \in Periods |-> Nothing]]

-----------------------------------------------------------------------------
(* The owner asks for a plan: one transaction that cancels what is open    *)
(* and creates the new request.                                            *)

\* requestPlan is called for a plan on sale; r is the row it is going to create.
PlanRequested(e) ==
  \E r \in Requests :
    /\ editor[e].pc = "idle"
    /\ requests[r] = "none" /\ \A f \in Editors : editor[f].request # r
    /\ EditorBecomes(e, [NoEdit EXCEPT !.pc = "plan", !.request = r])
    /\ UNCHANGED <<requests, sub, used, started, ended, caller, entitlement,
                   gate>>

\* The rows updateMany is going to cancel.
Replaces == Open

PlanSees(e) ==
  /\ editor[e].pc = "plan"
  /\ EditorBecomes(e, [editor[e] EXCEPT
       !.pc = "plan_locks", !.todo = Replaces, !.seen = Open])
  /\ UNCHANGED <<requests, sub, used, started, ended, caller, entitlement,
                 gate>>

\* An updateMany comes to one of its rows, in any order.
Locks(e) ==
  \E r \in editor[e].todo :
    /\ editor[e].pc \in {"plan_locks", "approve_locks"}
    /\ ~LockedFor(e, r)
    /\ EditorBecomes(e, [editor[e] EXCEPT
         !.todo = @ \ {r},
         !.locked = IF StillPending(r) THEN @ \cup {r} ELSE @])
    /\ UNCHANGED <<requests, sub, used, started, ended, caller, entitlement,
                   gate>>

\* The create and the commit.
PlanCommits(e) ==
  /\ editor[e].pc = "plan_locks" /\ editor[e].todo = {}
  /\ requests' = [r \in Requests |->
       CASE r = editor[e].request -> "PENDING"
         [] r \in editor[e].locked \ {editor[e].request} -> "CANCELED"
         [] OTHER -> requests[r]]
  /\ EditorBecomes(e, NoEdit)
  /\ UNCHANGED <<sub, used, started, ended, caller, entitlement, gate>>

-----------------------------------------------------------------------------
(* The administrator.                                                      *)

\* approveRequest finds the request PENDING and fixes the new period.
ApproveReads(e, i) ==
  \E r \in Open :
    /\ editor[e].pc = "idle" /\ started < MaxPeriods
    /\ EditorBecomes(e, [NoEdit EXCEPT
         !.pc = "approve", !.request = r, !.period = started, !.at = i])
    /\ started' = started + 1
    /\ UNCHANGED <<requests, sub, used, ended, caller, entitlement, gate>>

\* The transaction claims the request, or finds it decided and rolls back.
ApproveClaims(e) ==
  LET r == editor[e].request IN
  /\ editor[e].pc = "approve" /\ ~LockedFor(e, r)
  /\ IF StillPending(r)
       THEN EditorBecomes(e, [editor[e] EXCEPT !.pc = "others", !.locked = {r}])
       ELSE EditorBecomes(e, NoEdit)
  /\ UNCHANGED <<requests, sub, used, started, ended, caller, entitlement,
                 gate>>

\* The user's other open requests; the variant forgets them.
OthersForgotten(r) == {}
Others(r) == Open \ {r}

ApproveSees(e) ==
  LET r == editor[e].request IN
  /\ editor[e].pc = "others"
  /\ EditorBecomes(e, [editor[e] EXCEPT
       !.pc = "approve_locks", !.todo = Others(r), !.seen = Open])
  /\ UNCHANGED <<requests, sub, used, started, ended, caller, entitlement,
                 gate>>

\* The upsert of the subscription and the commit.
ApproveCommits(e) ==
  /\ editor[e].pc = "approve_locks" /\ editor[e].todo = {}
  /\ requests' = [r \in Requests |->
       CASE r = editor[e].request -> "APPROVED"
         [] r \in editor[e].locked \ {editor[e].request} -> "CANCELED"
         [] OTHER -> requests[r]]
  /\ sub' = Renewed(editor[e].period)
  /\ EditorBecomes(e, [NoEdit EXCEPT !.pc = "invalidate", !.at = editor[e].at])
  /\ UNCHANGED <<used, started, ended, caller, entitlement, gate>>

\* rejectRequest is one conditional update.
Reject(r) ==
  /\ requests[r] = "PENDING"
  /\ \A e \in Editors : r \notin editor[e].locked
  /\ requests' = [requests EXCEPT ![r] = "REJECTED"]
  /\ UNCHANGED <<sub, used, started, ended, editor, caller, entitlement, gate>>

\* assignPlan, with the status the administrator gives; EXPIRED stands for every
\* status but ACTIVE.
AssignPlan(e, i) ==
  \E status \in {"ACTIVE", "EXPIRED"} :
    /\ editor[e].pc = "idle" /\ started < MaxPeriods
    /\ sub' = [Renewed(started) EXCEPT !.status = status]
    /\ started' = started + 1
    /\ EditorBecomes(e, [NoEdit EXCEPT !.pc = "invalidate", !.at = i])
    /\ UNCHANGED <<requests, used, ended, caller, entitlement, gate>>

\* addCredits, up to the bound.
AddCredits(e, i) ==
  /\ editor[e].pc = "idle" /\ sub.bonus < MaxBonus
  /\ sub' = [sub EXCEPT !.bonus = @ + 1]
  /\ EditorBecomes(e, [NoEdit EXCEPT !.pc = "invalidate", !.at = i])
  /\ UNCHANGED <<requests, used, started, ended, caller, entitlement, gate>>

\* invalidateUser, in the memory of the instance that served the operation.
Invalidate(e) ==
  LET i == editor[e].at IN
  /\ editor[e].pc = "invalidate"
  /\ entitlement' = [entitlement EXCEPT ![i] = Nothing]
  /\ gate' = [gate EXCEPT ![i] = [p \in Periods |-> Nothing]]
  /\ EditorBecomes(e, NoEdit)
  /\ UNCHANGED <<requests, sub, used, started, ended, caller>>

\* A deadlock, the time limit of a transaction, a lost connection: what was
\* not committed is rolled back, what was to follow the commit does not.
EditFails(e) ==
  /\ editor[e].pc # "idle"
  /\ EditorBecomes(e, NoEdit)
  /\ UNCHANGED <<requests, sub, used, started, ended, caller, entitlement,
                 gate>>

-----------------------------------------------------------------------------
(* Turns of the agent ask for permission.                                  *)

\* A turn comes in, or (look) a getForUser, which goes past the cache.
Call(c, i) ==
  \E look \in BOOLEAN :
    /\ caller[c].pc = "idle"
    /\ CallerBecomes(c, [NoCall EXCEPT
         !.pc = IF look THEN "read" ELSE "enter", !.at = i, !.look = look])
    /\ UNCHANGED <<requests, sub, used, started, ended, editor, entitlement,
                   gate>>

\* entitlementForUser looks into its cache.
Enter(c) ==
  LET cached == entitlement[caller[c].at] IN
  /\ caller[c].pc = "enter"
  /\ IF cached = Nothing
       THEN CallerBecomes(c, [caller[c] EXCEPT !.pc = "read"])
       ELSE CallerBecomes(c, [caller[c] EXCEPT !.pc = "check", !.info = cached])
  /\ UNCHANGED <<requests, sub, used, started, ended, editor, entitlement,
                 gate>>

\* buildEntitlementForUser reads the row and looks at the clock.
Read(c) ==
  LET info == [period |-> sub.period, bonus |-> sub.bonus,
               canUse |-> sub.status = "ACTIVE" /\ ~Lapsed(sub)] IN
  /\ caller[c].pc = "read"
  /\ CallerBecomes(c, [caller[c] EXCEPT
       !.info = info, !.pc = IF Lapsed(sub) THEN "expire" ELSE "put"])
  /\ UNCHANGED <<requests, sub, used, started, ended, editor, entitlement,
                 gate>>

\* It found a period that is over: an update by user, which returns the row as
\* it now is.
Expire(c) ==
  /\ caller[c].pc = "expire"
  /\ sub' = [sub EXCEPT !.status = "EXPIRED"]
  /\ CallerBecomes(c, [caller[c] EXCEPT
       !.pc = "put",
       !.info = [period |-> sub.period, bonus |-> sub.bonus, canUse |-> FALSE]])
  /\ UNCHANGED <<requests, used, started, ended, editor, entitlement, gate>>

\* The entitlement goes into the cache; a getForUser ends here.
Put(c) ==
  /\ caller[c].pc = "put"
  /\ entitlement' = [entitlement EXCEPT ![caller[c].at] = caller[c].info]
  /\ IF caller[c].look
       THEN CallerBecomes(c, NoCall)
       ELSE CallerBecomes(c, [caller[c] EXCEPT !.pc = "check"])
  /\ UNCHANGED <<requests, sub, used, started, ended, editor, gate>>

\* assertActive refuses.
RefuseInactive(c) ==
  /\ caller[c].pc = "check" /\ ~caller[c].info.canUse
  /\ CallerBecomes(c, NoCall)
  /\ UNCHANGED <<requests, sub, used, started, ended, editor, entitlement,
                 gate>>

\* The comparison with the limit, on a count from the cache or the database.
Passed(c, count) ==
  IF count < Limit + caller[c].info.bonus
    THEN [NoCall EXCEPT !.pc = "turn"] ELSE NoCall

\* cachedUsageGate, by the period of the entitlement: a hit,
GateHit(c) ==
  LET count == gate[caller[c].at][caller[c].info.period] IN
  /\ caller[c].pc = "check" /\ caller[c].info.canUse /\ count # Nothing
  /\ CallerBecomes(c, Passed(c, count))
  /\ UNCHANGED <<requests, sub, used, started, ended, editor, entitlement,
                 gate>>

\* or a miss and the sum over AiUsage,
GateLoads(c) ==
  /\ caller[c].pc = "check" /\ caller[c].info.canUse
  /\ gate[caller[c].at][caller[c].info.period] = Nothing
  /\ CallerBecomes(c, [caller[c] EXCEPT
       !.pc = "loaded", !.count = used[caller[c].info.period]])
  /\ UNCHANGED <<requests, sub, used, started, ended, editor, entitlement,
                 gate>>

\* which goes into the cache when it arrives.
GateLoaded(c) ==
  /\ caller[c].pc = "loaded"
  /\ gate' = [gate EXCEPT
       ![caller[c].at][caller[c].info.period] = caller[c].count]
  /\ CallerBecomes(c, Passed(c, caller[c].count))
  /\ UNCHANGED <<requests, sub, used, started, ended, editor, entitlement>>

\* The model has answered: a credit (at least one) is recorded without anybody
\* waiting, and the turn ends or asks the model again. The credit counts for
\* every period that is running then. Counts from Spent on are not told apart.
RecordUsage(c) ==
  \E after \in {[caller[c] EXCEPT !.pc = "turn"], NoCall} :
    /\ caller[c].pc = "turn"
    /\ used' = [p \in Periods |->
         IF p \in ended..(started - 1) /\ used[p] < Spent
           THEN used[p] + 1 ELSE used[p]]
    /\ CallerBecomes(c, after)
    /\ UNCHANGED <<requests, sub, started, ended, editor, entitlement, gate>>

\* An error of the database or of the model, in any place; the turn's credits
\* are not recorded then.
CallFails(c) ==
  /\ caller[c].pc # "idle"
  /\ CallerBecomes(c, NoCall)
  /\ UNCHANGED <<requests, sub, used, started, ended, editor, entitlement,
                 gate>>

-----------------------------------------------------------------------------
(* Time.                                                                   *)

\* The oldest running period ends. An approval takes less than a month.
MonthEnds ==
  /\ ended < started
  /\ \A e \in Editors : editor[e].pc \in {"approve", "others", "approve_locks"}
                          => editor[e].period # ended
  /\ ended' = ended + 1
  /\ UNCHANGED <<requests, sub, used, started, editor, caller, entitlement,
                 gate>>

\* Entries that get old; the variant keeps permissions for good.
AgesUnlessAllowed(i) == entitlement[i] # Nothing /\ ~entitlement[i].canUse
Ages(i) == entitlement[i] # Nothing

EntitlementAges(i) ==
  /\ Ages(i)
  /\ entitlement' = [entitlement EXCEPT ![i] = Nothing]
  /\ UNCHANGED <<requests, sub, used, started, ended, editor, caller, gate>>

\* Counts that get old.
CountAges(i, p) == gate[i][p] # Nothing

GateAges(i, p) ==
  /\ CountAges(i, p)
  /\ gate' = [gate EXCEPT ![i][p] = Nothing]
  /\ UNCHANGED <<requests, sub, used, started, ended, editor, caller,
                 entitlement>>

-----------------------------------------------------------------------------

EditGoesOn(e) ==
  \/ PlanSees(e) \/ Locks(e) \/ PlanCommits(e)
  \/ ApproveClaims(e) \/ ApproveSees(e) \/ ApproveCommits(e)
  \/ Invalidate(e) \/ EditFails(e)

CallGoesOn(c) ==
  \/ Enter(c) \/ Read(c) \/ Expire(c) \/ Put(c) \/ RefuseInactive(c)
  \/ GateHit(c) \/ GateLoads(c) \/ GateLoaded(c) \/ RecordUsage(c)

Next ==
  \/ \E e \in Editors :
       \/ PlanRequested(e) \/ EditGoesOn(e)
       \/ \E i \in Instances :
            ApproveReads(e, i) \/ AssignPlan(e, i) \/ AddCredits(e, i)
  \/ \E r \in Requests : Reject(r)
  \/ \E c \in Callers :
       \/ CallGoesOn(c) \/ CallFails(c)
       \/ \E i \in Instances : Call(c, i)
  \/ MonthEnds
  \/ \E i \in Instances :
       EntitlementAges(i) \/ \E p \in Periods : GateAges(i, p)

Spec == Init /\ [][Next]_vars

\* Handlers that were started go on, and cached entries get old.
Fairness ==
  /\ \A e \in Editors : WF_vars(EditGoesOn(e))
  /\ \A c \in Callers : WF_vars(CallGoesOn(c))
  /\ \A i \in Instances :
       /\ WF_vars(EntitlementAges(i))
       /\ \A p \in Periods : WF_vars(GateAges(i, p))

FairSpec == Spec /\ Fairness

-----------------------------------------------------------------------------
(* Properties.                                                             *)

EditorState ==
  [pc : {"idle", "plan", "plan_locks", "approve", "others", "approve_locks",
         "invalidate"},
   request : Requests \cup {Nothing}, period : Periods,
   at : Instances \cup {Nothing},
   todo : SUBSET Requests, locked : SUBSET Requests, seen : SUBSET Requests]

CallerState ==
  [pc : {"idle", "enter", "read", "expire", "put", "check", "loaded", "turn"},
   at : Instances \cup {Nothing}, look : BOOLEAN, count : 0..Spent,
   info : Infos]

\* The columns, caches and local variables hold values of their types; the
\* subscription's period is one that has begun.
TypeOK ==
  /\ requests \in [Requests -> {"none", "PENDING"} \cup Decided]
  /\ sub \in [status : {"ACTIVE", "EXPIRED"}, period : 0..(started - 1),
              bonus : 0..MaxBonus]
  /\ used \in [Periods -> 0..Spent]
  /\ started \in 1..MaxPeriods /\ ended \in 0..started
  /\ editor \in [Editors -> EditorState]
  /\ caller \in [Callers -> CallerState]
  /\ entitlement \in [Instances -> Infos \cup {Nothing}]
  /\ gate \in [Instances -> [Periods -> 0..Spent \cup {Nothing}]]

\* What was decided about a request stays decided: approveRequest,
\* rejectRequest and requestPlan, which all write the status, never overwrite
\* each other's decision, whatever they had read before.
DecidedOnce ==
  [][\A r \in Requests :
       requests[r] \in Decided => requests'[r] = requests[r]]_vars

\* When requestPlan or approveRequest commits, every request its updateMany saw
\* open is decided, by it or by somebody else meanwhile: what stays open beside
\* the newest request, and can still be approved beside an approved one, was
\* created after that look.
SeenIsDecided ==
  [][\A e \in Editors :
       PlanCommits(e) \/ ApproveCommits(e) =>
         \A r \in editor[e].seen : requests'[r] \in Decided]_vars

\* A step that ends the current period.
Cut == /\ sub.status = "ACTIVE"
       /\ sub'.status = "EXPIRED" /\ sub'.period = sub.period

\* buildEntitlementForUser ends a running period early only when it had read
\* an older period, which was over, before the renewal.
CutOnlyByOlderRead ==
  [][Cut => \/ sub.period < ended
            \/ \E c \in Callers : /\ caller[c].pc = "expire"
                                  /\ caller[c].info.period # sub.period]_vars

Running == sub.status = "ACTIVE" /\ ~(sub.period < ended)

\* Some call passes assertAiAllowed; some call is refused for want of a plan.
Admits == \E c \in Callers : caller[c].pc # "turn" /\ caller'[c].pc = "turn"
Refuses == \E c \in Callers : RefuseInactive(c)

\* A subscription that has run out for good stops serving turns on every
\* instance, whatever the caches held when it ran out.
LapsedStops == <>[]~Running => <>[][~Admits]_vars

\* A period whose credits are spent stops serving turns, although the count is
\* cached and recorded only after the answer.
SpentStops ==
  <>[](used[sub.period] >= Limit + sub.bonus) => <>[][~Admits]_vars

\* A subscription that runs for good is no longer refused anywhere, although
\* an approval empties the caches of one instance only.
RunningServes == <>[]Running => <>[][~Refuses]_vars
=============================================================================
