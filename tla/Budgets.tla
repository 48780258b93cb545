------------------------------ MODULE Budgets ------------------------------
(***************************************************************************)
(* The budgets of one month and currency (finance-budget.service.ts): how  *)
(* they are made, and what of the month's transactions is compared with    *)
(* them while the categories of both go away.                              *)
(*                                                                         *)
(* Amounts are whole.  Left out: the rounding of percentages to hundredths *)
(* and the forecast of the month.                                          *)
(***************************************************************************)
EXTENDS Integers, FiniteSets, FiniteSetsExt

CONSTANTS
  Budget,        \* budgets that may be made
  Entries,       \* transactions, each with its amount as its name
  Categories,
  Overall,       \* categoryId null
  Amounts        \* amounts of a budget

\* What the constants must be; the module that instantiates this one assumes it.
BudgetsAssumption ==
  /\ IsFiniteSet(Budget) /\ Overall \notin Categories
  /\ Entries \subseteq Nat /\ IsFiniteSet(Entries)
  /\ Amounts \subseteq Nat

VARIABLES
  category,  \* the categories that are there
  budget,    \* the budgets: categoryId and amount, or NoBudget
  entry      \* the transactions of the month: sign and category

vars == <<category, budget, entry>>

NoBudget == [there |-> FALSE, on |-> Overall, amount |-> 0]
NoEntry == [there |-> FALSE, expense |-> TRUE, on |-> Overall]

Init ==
  /\ category = Categories
  /\ budget = [b \in Budget |-> NoBudget]
  /\ entry = [t \in Entries |-> NoEntry]

There == {b \in Budget : budget[b].there}
Kinds == category \cup {Overall}

\* The unique index: one null is not equal to another.
Taken(c) == c # Overall /\ \E b \in There : budget[b].on = c

CreateBudget(b, c, amount) ==
  /\ b \notin There /\ c \in Kinds /\ ~Taken(c)
  /\ budget' = [budget EXCEPT ![b] =
                  [there |-> TRUE, on |-> c, amount |-> amount]]
  /\ UNCHANGED <<category, entry>>

\* updateForUser changes the amount alone.
UpdateBudget(b, amount) ==
  /\ b \in There /\ budget[b].amount # amount
  /\ budget' = [budget EXCEPT ![b].amount = amount]
  /\ UNCHANGED <<category, entry>>

DeleteBudget(b) ==
  /\ b \in There
  /\ budget' = [budget EXCEPT ![b] = NoBudget]
  /\ UNCHANGED <<category, entry>>

\* deleteCategoryForUser; the foreign key of a budget is set to null.
DeleteCategory(c) ==
  /\ c \in category
  /\ category' = category \ {c}
  /\ entry' = [t \in Entries |-> IF entry[t].on = c
                 THEN [entry[t] EXCEPT !.on = Overall] ELSE entry[t]]
  /\ budget' = [b \in Budget |-> IF budget[b].on = c
                 THEN [budget[b] EXCEPT !.on = Overall] ELSE budget[b]]

\* A transaction without a category is on Overall here.
Record(t, expense, c) ==
  /\ ~entry[t].there /\ c \in Kinds
  /\ entry' = [entry EXCEPT ![t] =
       [there |-> TRUE, expense |-> expense, on |-> c]]
  /\ UNCHANGED <<category, budget>>

Next ==
  \/ \E c \in Categories : DeleteCategory(c)
  \/ \E b \in Budget :
       \/ DeleteBudget(b)
       \/ \E amount \in Amounts :
            \/ UpdateBudget(b, amount)
            \/ \E c \in Categories \cup {Overall} : CreateBudget(b, c, amount)
  \/ \E t \in Entries, expense \in BOOLEAN, c \in Categories \cup {Overall} :
       Record(t, expense, c)

Spec == Init /\ [][Next]_vars

-----------------------------------------------------------------------------
(* What is computed                                                        *)

Recorded == {t \in Entries : entry[t].there}
Amount == [t \in Entries |-> t]
Spending(S) == SumFunctionOnSet(Amount, {t \in S : entry[t].expense})

SpentOn(c) == Spending({t \in Recorded : entry[t].on = c})

\* getBudgetStatus: a budget without a category is one of everything spent.
Spent(b) == IF budget[b].on = Overall THEN Spending(Recorded)
            ELSE SpentOn(budget[b].on)
IsOver(b) == Spent(b) > budget[b].amount
IsNear(b) == budget[b].amount # 0 /\ 10 * Spent(b) >= 9 * budget[b].amount

-----------------------------------------------------------------------------
(* Properties                                                              *)

\* Every variable has its type, and a category has one budget at most.
TypeOK ==
  /\ category \subseteq Categories
  /\ \A b \in There : budget[b].on \in Kinds
  /\ \A t \in Entries : entry[t].on \in Kinds
  /\ \A b, d \in There :
       budget[b].on = budget[d].on => b = d \/ budget[b].on = Overall

\* The budgets of categories together say no more was spent than that of
\* everything does, whatever lost its category, and each is near its limit
\* before it is over it, except for one of nothing.
BudgetsAddUp ==
  LET own == {b \in There : budget[b].on # Overall} IN
  /\ SumFunction([b \in own |-> Spent(b)]) <= Spending(Recorded)
  /\ \A b \in There : IsOver(b) => IsNear(b) \/ budget[b].amount = 0
=============================================================================
