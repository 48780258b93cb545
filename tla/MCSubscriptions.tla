-------------------------- MODULE MCSubscriptions --------------------------
(***************************************************************************)
(* Two small instances of Subscription for TLC: several requests for a     *)
(* plan and the admins who decide them, and one plan that turns are        *)
(* metered against over its months.  A behaviour is one of one of the two, *)
(* `part`; the other rests in an initial state.                            *)
(***************************************************************************)
EXTENDS Subscription

CONSTANTS Plan, Admin, Caller

VARIABLES part,
          plans, plan, spent, begun, over, admin, turn, seen, quota

-----------------------------------------------------------------------------
Turns == INSTANCE Subscription WITH
           Requests <- {Plan}, Editors <- {Admin}, Callers <- {Caller},
           MaxBonus <- 1, MaxPeriods <- 2,
           requests <- plans, sub <- plan, used <- spent, started <- begun,
           ended <- over, editor <- admin, caller <- turn,
           entitlement <- seen, gate <- quota

turns == <<plans, plan, spent, begun, over, admin, turn, seen, quota>>
parts == <<part, vars, turns>>

MCInit ==
  /\ part \in {"requests", "turns"}
  /\ Init /\ (part # "requests" => sub.status = "ACTIVE")
  /\ Turns!Init /\ (part # "turns" => plan.status = "ACTIVE")

OfRequests(act) == part = "requests" /\ act /\ UNCHANGED <<part, turns>>
OfTurns(act) == part = "turns" /\ act /\ UNCHANGED <<part, vars>>

MCNext == OfRequests(Next) \/ OfTurns(Turns!Next)

\* What began goes on, and what is cached ages (Fairness of Subscription).
MCFairness ==
  /\ WF_parts(OfTurns(Turns!EditGoesOn(Admin)))
  /\ WF_parts(OfTurns(Turns!CallGoesOn(Caller)))
  /\ \A i \in Instances :
       /\ WF_parts(OfTurns(Turns!EntitlementAges(i)))
       /\ \A p \in Turns!Periods : WF_parts(OfTurns(Turns!GateAges(i, p)))

MCSpec == MCInit /\ [][MCNext]_parts /\ MCFairness
-----------------------------------------------------------------------------
(* A running plan is cut short only on a read of the plan before it        *)
(* (subscriptions.service.ts).                                             *)
NotCutShort == Turns!CutOnlyByOlderRead

(* From some time on, a plan that runs serves every turn, and one that     *)
(* lapsed or is spent serves none, whatever the caches still say.          *)
MeteredInTheEnd == Turns!RunningServes /\ Turns!SpentStops /\ Turns!LapsedStops
=============================================================================
