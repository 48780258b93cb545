------------------------------- MODULE Approval -------------------------------
(***************************************************************************)
(* What the owner is promised about a proposed action: nothing of it runs  *)
(* before it was approved in time, an approved action runs its items one   *)
(* after another and each at most once, and what was decided once is never *)
(* decided again.  There are no requests, reads or races here; module      *)
(* PendingAction implements this with concurrent requests on a database.   *)
(***************************************************************************)
EXTENDS Integers

CONSTANTS Actions, Items, TTL

VARIABLES
  now,       \* the wall clock
  state,     \* what became of the action
  deadline,  \* when an open action lapses
  total,     \* how many items the action has
  ran        \* how many times each item took effect

vars == <<now, state, deadline, total, ran>>

Open(a) == state[a] = "open"

Init ==
  /\ now = 0
  /\ state = [a \in Actions |-> "none"]
  /\ deadline = [a \in Actions |-> 0]
  /\ total = [a \in Actions |-> 0]
  /\ ran = [a \in Actions |-> [i \in Items |-> 0]]

Propose(a, n) ==
  /\ state[a] = "none"
  /\ state' = [state EXCEPT ![a] = "open"]
  /\ total' = [total EXCEPT ![a] = n]
  /\ deadline' = [deadline EXCEPT ![a] = now + TTL]
  /\ UNCHANGED <<now, ran>>

Close(S, outcome) ==
  /\ \A a \in S : Open(a)
  /\ state' = [a \in Actions |-> IF a \in S THEN outcome ELSE state[a]]
  /\ UNCHANGED <<now, deadline, total, ran>>

Withdraw(S) == Close(S, "withdrawn")

Lapse(S) == (\A a \in S : deadline[a] <= now) /\ Close(S, "lapsed")

Approve(a) == Open(a) /\ now < deadline[a] /\ Close({a}, "approved")

RunItem(a, i) ==
  /\ state[a] = "approved"
  /\ i <= total[a]
  /\ \A j \in Items : ran[a][j] = IF j < i THEN 1 ELSE 0
  /\ ran' = [ran EXCEPT ![a][i] = 1]
  /\ UNCHANGED <<now, state, deadline, total>>

Finish(a) ==
  /\ state[a] = "approved"
  /\ \/ state' = [state EXCEPT ![a] = "failed"]
     \/ /\ \A i \in Items : i <= total[a] => ran[a][i] = 1
        /\ state' = [state EXCEPT ![a] = "done"]
  /\ UNCHANGED <<now, deadline, total, ran>>

Tick == now' = now + 1 /\ UNCHANGED <<state, deadline, total, ran>>

Next ==
  \/ \E a \in Actions, i \in Items : Propose(a, i) \/ RunItem(a, i)
  \/ \E S \in SUBSET Actions : Withdraw(S) \/ Lapse(S)
  \/ \E a \in Actions : Approve(a) \/ Finish(a)
  \/ Tick

Spec == Init /\ [][Next]_vars
=============================================================================
