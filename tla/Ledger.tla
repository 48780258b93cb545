------------------------------- MODULE Ledger -------------------------------
(***************************************************************************)
(* The finance records of one user (finance.service.ts): accounts with     *)
(* their default, categories, transactions, and the sums that are computed *)
(* from them.  Budgets are in a module of their own.                       *)
(*                                                                         *)
(* A request reads and checks, and writes later, with no transaction from  *)
(* the one to the other, so requests overlap.  An update writes the fields *)
(* it was given, and the account and category it has checked.              *)
(*                                                                         *)
(* Amounts are whole; a date is one of two days.  Left out: contacts,      *)
(* titles and searches, and percentages, which are rounded for display.    *)
(***************************************************************************)
EXTENDS Integers, FiniteSets, FiniteSetsExt, SequencesExt

CONSTANTS
  Workers,       \* requests served at a time
  MaxAccounts,   \* bound: accounts ever made
  Transactions,  \* bound: transactions, each with its amount as its name
  Categories,    \* bound: categories of the user's own
  Bounds         \* bounds: requests by kind, in different behaviours

Currencies == {"UZS", "USD"}
Types == {"INCOME", "EXPENSE"}
Days == 1..2

ASSUME LedgerAssumption ==
  /\ MaxAccounts \in Nat
  /\ Transactions \subseteq Nat \ {0} /\ IsFiniteSet(Transactions)
  /\ IsFiniteSet(Categories) /\ "none" \notin Categories
  /\ Bounds \subseteq [entries : Nat, accounts : Nat, categories : Nat]

VARIABLES
  account,     \* the accounts, in the order they were made
  category,    \* type of each category, or None
  entry,       \* the transactions
  worker,      \* the requests
  history,     \* what excuses a disagreement, see below
  left         \* how many requests there may still be

vars == <<account, category, entry, worker, history, left>>

None == "none"
NoAccount == 0
Accounts == 1..MaxAccounts
NoEntry == [type |-> None, currency |-> None, account |-> NoAccount,
            category |-> None, day |-> 1, version |-> 0]
Idle == [pc |-> "idle", on |-> 0, fields |-> [none |-> 0], version |-> 0]

\* `raced`: transactions written by an update that had read an older one;
\* `retyped`: categories whose type was changed; `defaults`: requests for a
\* default overlapped, or the first account was made anew.
Init ==
  /\ left \in Bounds
  /\ account = <<>>
  /\ category = [c \in Categories |-> None]
  /\ entry = [t \in Transactions |-> NoEntry]
  /\ worker = [w \in Workers |-> Idle]
  /\ history = [raced |-> {}, retyped |-> {}, defaults |-> FALSE]

-----------------------------------------------------------------------------
(* Accounts                                                                *)

Seeds == <<[name |-> "Naqd pul", currency |-> "UZS", isDefault |-> TRUE,
            isArchived |-> FALSE],
           [name |-> "Karta", currency |-> "UZS", isDefault |-> FALSE,
            isArchived |-> FALSE],
           [name |-> "USD", currency |-> "USD", isDefault |-> FALSE,
            isArchived |-> FALSE]>>
Exists(name, currency) ==
  \E i \in DOMAIN account : /\ account[i].name = name
                            /\ account[i].currency = currency

\* ensureDefaultAccounts: those of the three whose name is not there.
IfMissing(s) == IF Exists(s.name, s.currency) THEN <<>> ELSE <<s>>
Missing == IfMissing(Seeds[1]) \o IfMissing(Seeds[2]) \o IfMissing(Seeds[3])
Seeded == account \o Missing
Settling == {w \in Workers : worker[w].pc \in {"create", "set"}}
SeedsDefault == /\ Missing # <<>> /\ Head(Missing).isDefault
                /\ account # <<>> \/ Settling # {}

Spare(n) == Len(account) + n <= MaxAccounts

\* Where a transaction without an account goes: the default one, or the
\* oldest; of sequence a.
Chosen(a, currency) ==
  LET open == {i \in DOMAIN a : a[i].currency = currency /\ ~a[i].isArchived}
      preferred == {i \in open : a[i].isDefault} IN
  IF open = {} THEN NoAccount
  ELSE IF preferred # {} THEN Min(preferred) ELSE Min(open)

\* The others lose the default before an account gets it.
Unset(currency, keep) ==
  [i \in DOMAIN account |->
     IF account[i].currency = currency /\ i # keep
     THEN [account[i] EXCEPT !.isDefault = FALSE] ELSE account[i]]

Others(currency, keep) == Unset(currency, keep)

Overlapping(w) == [history EXCEPT !.defaults = @ \/ Settling \ {w} # {}]

\* createAccountForUser, for a default: the write that comes first.
AddDefault(w, currency) ==
  /\ worker[w].pc = "idle" /\ left.accounts > 0
  /\ account' = Others(currency, NoAccount)
  /\ worker' = [worker EXCEPT ![w] =
       [Idle EXCEPT !.pc = "create",
                    !.fields = [name |-> "own", currency |-> currency]]]
  /\ history' = Overlapping(w)
  /\ left' = [left EXCEPT !.accounts = @ - 1]
  /\ UNCHANGED <<category, entry>>

\* A name that is there already is refused; the defaults stay unset.
AddedDefault(w) ==
  /\ worker[w].pc = "create"
  /\ LET new == worker[w].fields IN
     account' = IF Exists(new.name, new.currency) THEN account
                ELSE Append(account, [name |-> new.name,
                       currency |-> new.currency, isDefault |-> TRUE,
                       isArchived |-> FALSE])
  /\ Spare(1)
  /\ worker' = [worker EXCEPT ![w] = Idle]
  /\ UNCHANGED <<category, entry, history, left>>

\* updateAccountForUser, for a default.
SetDefault(w, a) ==
  /\ worker[w].pc = "idle" /\ left.accounts > 0 /\ a \in DOMAIN account
  /\ account' = Others(account[a].currency, a)
  /\ worker' = [worker EXCEPT ![w] = [Idle EXCEPT !.pc = "set", !.on = a]]
  /\ history' = Overlapping(w)
  /\ left' = [left EXCEPT !.accounts = @ - 1]
  /\ UNCHANGED <<category, entry>>

SetDefaultDone(w) ==
  /\ worker[w].pc = "set"
  /\ account' = [account EXCEPT ![worker[w].on].isDefault = TRUE]
  /\ worker' = [worker EXCEPT ![w] = Idle]
  /\ UNCHANGED <<category, entry, history, left>>

\* updateAccountForUser, for the name or isArchived; archiveAccountForUser.
UpdateAccount(a) ==
  /\ a \in DOMAIN account /\ left.accounts > 0
  /\ \/ account' = [account EXCEPT ![a].isArchived = ~@]
     \/ account' = [account EXCEPT ![a].isArchived = TRUE,
                                   ![a].isDefault = FALSE]
     \/ /\ ~Exists("other", account[a].currency)
        /\ account' = [account EXCEPT ![a].name = "other"]
  /\ left' = [left EXCEPT !.accounts = @ - 1]
  /\ UNCHANGED <<category, entry, worker, history>>

\* listAccountsForUser
ListAccounts ==
  /\ Missing # <<>> /\ Spare(Len(Missing)) /\ left.accounts > 0
  /\ account' = Seeded
  /\ history' = [history EXCEPT !.defaults = @ \/ SeedsDefault]
  /\ left' = [left EXCEPT !.accounts = @ - 1]
  /\ UNCHANGED <<category, entry, worker>>

-----------------------------------------------------------------------------
(* Categories                                                              *)

PutCategory(c, type) ==
  /\ left.categories > 0 /\ category[c] # type
  /\ category' = [category EXCEPT ![c] = type]
  /\ history' = [history EXCEPT !.retyped =
                   IF category[c] = None THEN @ ELSE @ \cup {c}]
  /\ left' = [left EXCEPT !.categories = @ - 1]
  /\ UNCHANGED <<account, entry, worker>>

Uncategorized(c) ==
  [t \in Transactions |->
     IF entry[t].category = c THEN [entry[t] EXCEPT !.category = None]
     ELSE entry[t]]

\* deleteCategoryForUser, with the transactions of the category at once.
DeleteCategory(c) ==
  /\ left.categories > 0 /\ category[c] # None
  /\ category' = [category EXCEPT ![c] = None]
  /\ entry' = Uncategorized(c)
  /\ history' = [history EXCEPT !.retyped = @ \cup {c}]
  /\ left' = [left EXCEPT !.categories = @ - 1]
  /\ UNCHANGED <<account, worker>>

-----------------------------------------------------------------------------
(* Transactions                                                            *)

\* validateCategory
Fits(c, type) == c # None => category[c] \in {type, "BOTH"}

\* Mutant of Resolves: an account that was there before is not checked.
ResolvesOpen(a, currency) == ~account[a].isArchived

\* resolveAccount, for an account of the request or of the transaction.
Resolves(a, currency) ==
  account[a].currency = currency /\ ~account[a].isArchived

Present(t) == entry[t].type # None

\* createForUser, up to the write.
Create(w, t, type, currency, a, c) ==
  /\ worker[w].pc = "idle" /\ left.entries > 0
  /\ ~Present(t) /\ \A v \in Workers : worker[v].on # t
  /\ Fits(c, type)
  /\ IF a = NoAccount
     THEN /\ Spare(Len(Missing)) /\ account' = Seeded
          /\ history' = [history EXCEPT !.defaults = @ \/ SeedsDefault]
     ELSE /\ a \in DOMAIN account /\ Resolves(a, currency)
          /\ UNCHANGED <<account, history>>
  /\ \E day \in Days :
       worker' = [worker EXCEPT ![w] =
         [pc |-> "write", on |-> t, version |-> 0,
          fields |-> [type |-> type, currency |-> currency, category |-> c,
                      account |-> IF a = NoAccount
                                  THEN Chosen(Seeded, currency) ELSE a,
                      day |-> day]]]
  /\ left' = [left EXCEPT !.entries = @ - 1]
  /\ UNCHANGED <<category, entry>>

\* The fields of f, and those of g that f does not have.
Over(f, g) == [k \in DOMAIN f \cup DOMAIN g |->
                 IF k \in DOMAIN f THEN f[k] ELSE g[k]]

\* updateForUser, up to the write: `given` are the fields of the request.
Update(w, t, given) ==
  /\ worker[w].pc = "idle" /\ left.entries > 0 /\ Present(t)
  /\ LET want == Over(given, entry[t]) IN
     /\ Fits(want.category, want.type)
     /\ want.account # NoAccount => Resolves(want.account, want.currency)
     /\ worker' = [worker EXCEPT ![w] =
          [pc |-> "write", on |-> t, version |-> entry[t].version,
           fields |-> Over(IF want.category = None THEN given
                           ELSE Over(given, [category |-> want.category]),
                           IF want.account = NoAccount THEN [none |-> 0]
                           ELSE [account |-> want.account])]]
  /\ left' = [left EXCEPT !.entries = @ - 1]
  /\ UNCHANGED <<account, category, entry, history>>

\* The row is written, unless it or the category is gone meanwhile.
Write(w) ==
  /\ worker[w].pc = "write"
  /\ LET t == worker[w].on
         f == worker[w].fields
         new == [k \in DOMAIN NoEntry |->
                   IF k = "version" THEN entry[t].version + 1
                   ELSE IF k \in DOMAIN f THEN f[k] ELSE entry[t][k]]
         valid == /\ worker[w].version > 0 => Present(t)
                  /\ "category" \in DOMAIN f =>
                       f.category = None \/ category[f.category] # None IN
     /\ entry' = IF valid THEN [entry EXCEPT ![t] = new] ELSE entry
     /\ history' = IF valid /\ worker[w].version # entry[t].version
                   THEN [history EXCEPT !.raced = @ \cup {t}] ELSE history
  /\ worker' = [worker EXCEPT ![w] = Idle]
  /\ UNCHANGED <<account, category, left>>

Delete(t) ==
  /\ Present(t) /\ left.entries > 0
  /\ entry' = [entry EXCEPT ![t] = NoEntry]
  /\ left' = [left EXCEPT !.entries = @ - 1]
  /\ UNCHANGED <<account, category, worker, history>>

Given == [type : Types] \cup [currency : Currencies] \cup [account : Accounts]
         \cup [currency : Currencies, account : Accounts] \cup [day : Days]
         \cup [category : Categories]

Next ==
  \/ ListAccounts
  \/ \E a \in Accounts : UpdateAccount(a)
  \/ \E c \in Categories :
       \/ DeleteCategory(c)
       \/ \E type \in Types \cup {"BOTH"} : PutCategory(c, type)
  \/ \E t \in Transactions : Delete(t)
  \/ \E w \in Workers :
       \/ AddedDefault(w) \/ SetDefaultDone(w) \/ Write(w)
       \/ \E currency \in Currencies : AddDefault(w, currency)
       \/ \E a \in Accounts : SetDefault(w, a)
       \/ \E t \in Transactions :
            \/ \E given \in Given :
                 /\ "account" \in DOMAIN given =>
                      given.account \in DOMAIN account
                 /\ Update(w, t, given)
            \/ \E type \in Types, currency \in Currencies,
                  a \in Accounts \cup {NoAccount},
                  c \in Categories \cup {None} :
                 Create(w, t, type, currency, a, c)

Spec == Init /\ [][Next]_vars

-----------------------------------------------------------------------------
(* Sums                                                                    *)

Amount == [t \in Transactions |-> t]
Signed == [t \in Transactions |-> IF entry[t].type = "INCOME" THEN t ELSE -t]

\* The transactions of a currency, by type, in a period of days.
Of(type, currency, days) ==
  {t \in Transactions : /\ entry[t].type = type
                        /\ entry[t].currency = currency
                        /\ entry[t].day \in days}
Total(S) == SumFunctionOnSet(Amount, S)

\* getAllTimeSummaryForUser and getPeriodSummary, for one currency.
NetProfit(currency, days) ==
  Total(Of("INCOME", currency, days)) - Total(Of("EXPENSE", currency, days))

\* listAccountsForUser: what the transactions add to an account's opening.
Balance(a) ==
  LET own == {t \in Transactions : /\ Present(t) /\ entry[t].account = a
                                   /\ entry[t].currency = account[a].currency}
  IN SumFunctionOnSet(Signed, own)

\* getCategoryBreakdown; getBudgetStatus takes what was spent from it.
Breakdown(type, currency, days) ==
  [c \in Categories \cup {None} |->
     Total({t \in Of(type, currency, days) : entry[t].category = c})]

-----------------------------------------------------------------------------
(* Properties                                                              *)

\* Types, and a transaction names accounts and categories that are there.
TypeOK ==
  /\ Len(account) \in 0..MaxAccounts
  /\ category \in [Categories -> Types \cup {"BOTH", None}]
  /\ \A t \in Transactions :
       /\ entry[t].type \in Types \cup {None}
       /\ entry[t].account \in {NoAccount} \cup DOMAIN account
       /\ entry[t].category # None => category[entry[t].category] # None

\* A transaction is in the currency of its account and of the type of its
\* category, through every order of changes to the three, unless it was
\* written by a request that had read an older one, or the category changed.
EntryAgrees ==
  \A t \in Transactions \ history.raced : Present(t) =>
    /\ entry[t].account # NoAccount =>
         account[entry[t].account].currency = entry[t].currency
    /\ entry[t].category \notin history.retyped =>
         Fits(entry[t].category, entry[t].type)

\* The balances of the accounts of a currency, with what is on no account,
\* add up to its all-time profit, and the days and the categories to it too:
\* no transaction is left out or counted twice, unless it was raced.
BooksAgree ==
  \A currency \in Currencies : history.raced = {} =>
    LET own == {a \in DOMAIN account : account[a].currency = currency}
        loose == {t \in Transactions : /\ entry[t].account = NoAccount
                                       /\ entry[t].currency = currency}
        parts(type) == Breakdown(type, currency, Days) IN
    /\ NetProfit(currency, Days) =
         SumFunction([a \in own |-> Balance(a)]) + SumFunctionOnSet(Signed, loose)
    /\ NetProfit(currency, Days) =
         NetProfit(currency, {1}) + NetProfit(currency, {2})
    /\ NetProfit(currency, Days) =
         SumFunction([c \in Categories \cup {None} |->
                        parts("INCOME")[c] - parts("EXPENSE")[c]])

\* A currency has one default account at most, unless requests for a default
\* overlapped or the first account was made again under a user's own default.
OneDefault ==
  \A i, j \in DOMAIN account :
    ( /\ account[i].isDefault /\ account[j].isDefault
      /\ account[i].currency = account[j].currency )
    => i = j \/ history.defaults
=============================================================================
