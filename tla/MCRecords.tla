----------------------------- MODULE MCRecords -----------------------------
(***************************************************************************)
(* Small instances for TLC of what a user keeps: the money, the files and  *)
(* folders, the budgets, the tasks, reminders and meetings, and the        *)
(* devices that are told of them.  They share no state, so in a behaviour  *)
(* one of them moves, `part`, and the others rest in an initial state.     *)
(***************************************************************************)
EXTENDS Ledger, TLC

CONSTANTS
  Devices, Root, Unmade, Gone, NoFile, Overall, Groups,
  Spendings, BudgetAmounts,
  Uploads, MaxDepth, FileBounds, Times, MaxBegun,
  Entities, DeviceLimit, MaxRetries, MaxTime, MaxPushes, PushBounds

VARIABLES part,
          parent, file, object, reading, upload, crossing, filesLeft,
          group, budget, spending,
          kind, item, meeting, change, begun, completed, stale, crossed,
          now, when, inbox, push, enabled, version, subs, gone, receipts,
          editor, tx, pusher, sent, excused, pushLeft

-----------------------------------------------------------------------------
\* Transactions alone; with accounts made meanwhile; with categories.
LedgerBounds == {[entries |-> 3, accounts |-> 0, categories |-> 0],
                 [entries |-> 2, accounts |-> 1, categories |-> 0],
                 [entries |-> 1, accounts |-> 1, categories |-> 1],
                 [entries |-> 2, accounts |-> 0, categories |-> 2],
                 [entries |-> 0, accounts |-> 4, categories |-> 0]}

\* Two requests over a tree of three folders, and over a file.
MCFileBounds ==
  {[folders |-> 3, drops |-> 1, moves |-> 3,
    uploads |-> 0, deletes |-> 0, faults |-> 0],
   [folders |-> 2, drops |-> 1, moves |-> 1,
    uploads |-> 2, deletes |-> 2, faults |-> 2]}

\* Subscribes that overlap each other and the edits; and deliveries to the
\* devices of before with every fault.
NoFaults == [edits |-> 0, subscribes |-> 0, removals |-> 0, toggles |-> 0,
             claims |-> 0, faults |-> 0, leases |-> 0, restarts |-> 0]
MCPushBounds == {
  [NoFaults EXCEPT !.edits = 1, !.subscribes = 3, !.toggles = 1],
  [NoFaults EXCEPT !.edits = 2, !.subscribes = 2, !.claims = 1],
  [NoFaults EXCEPT !.edits = 1, !.subscribes = 2, !.claims = 2,
                   !.removals = 1, !.faults = 2],
  [NoFaults EXCEPT !.edits = 1, !.subscribes = 2, !.claims = 2,
                   !.leases = 1, !.restarts = 1]}

Store == INSTANCE FileStore WITH
           Folders <- Devices, Files <- Uploads, Requests <- Workers,
           Bounds <- FileBounds, row <- file,
           request <- upload, history <- crossing, left <- filesLeft

ASSUME FilesAssumption == Store!FileStoreAssumption

Budgeting == INSTANCE Budgets WITH
               Budget <- Workers, Entries <- Spendings, Categories <- Groups,
               Amounts <- BudgetAmounts,
               category <- group, entry <- spending
ASSUME BudgetsAssumption == Budgeting!BudgetsAssumption

Plans == INSTANCE Planner WITH Requests <- Workers, request <- change
ASSUME PlansAssumption == Plans!PlannerAssumption

Pushing == INSTANCE WebPush WITH
             Bounds <- PushBounds, worker <- pusher, left <- pushLeft
ASSUME PushesAssumption == Pushing!WebPushAssumption

files == <<parent, file, object, reading, upload, crossing, filesLeft>>
budgets == <<group, budget, spending>>
plans == <<kind, item, meeting, change, begun, completed, stale, crossed>>
pushes == <<now, when, inbox, push, enabled, version, subs, gone, receipts,
            editor, tx, pusher, sent, excused, pushLeft>>

MCInit ==
  /\ part \in {"ledger", "files", "budgets", "plans", "pushes"}
  /\ Init /\ Store!Init /\ Budgeting!Init /\ Plans!Init /\ Pushing!Init
  /\ part # "ledger" => left = CHOOSE b \in LedgerBounds : TRUE
  /\ part # "files" => filesLeft = CHOOSE b \in FileBounds : TRUE
  /\ part # "plans" => kind = "task"
  /\ part # "pushes" => pushLeft = CHOOSE b \in PushBounds : TRUE

MCNext ==
  \/ part = "ledger" /\ Next /\ UNCHANGED <<part, files, budgets, plans, pushes>>
  \/ part = "files" /\ Store!Next /\ UNCHANGED <<part, vars, budgets, plans, pushes>>
  \/ part = "budgets" /\ Budgeting!Next /\ UNCHANGED <<part, vars, files, plans, pushes>>
  \/ part = "plans" /\ Plans!Next /\ UNCHANGED <<part, vars, files, budgets, pushes>>
  \/ part = "pushes" /\ Pushing!Next /\ UNCHANGED <<part, vars, files, budgets, plans>>

MCSpec == MCInit /\ [][MCNext]_<<part, vars, files, budgets, plans, pushes>>

MCSymmetry == Permutations(Workers) \cup Permutations(Devices)
-----------------------------------------------------------------------------
(* Transactions agree with their accounts and categories and the sums with *)
(* the transactions (finance.service.ts), and so do the budgets of         *)
(* categories with the whole (finance-budget.service.ts).                  *)
BooksKept ==
  /\ part = "ledger" => TypeOK /\ EntryAgrees /\ BooksAgree /\ OneDefault
  /\ part = "budgets" => Budgeting!TypeOK /\ Budgeting!BudgetsAddUp

(* What is shown can be downloaded, and folders stay a tree while moves do *)
(* not overlap (files.service.ts).                                         *)
FilesKept ==
  part = "files" => Store!TypeOK /\ Store!StorageAgrees /\ Store!MovesKeepTree

(* What is completed has its time and stays so, and a meeting ends after   *)
(* it starts, but for requests that overlap (tasks, reminders, meetings).  *)
PlansKept ==
  part = "plans" =>
    /\ Plans!TypeOK /\ Plans!CompletionDated
    /\ Plans!CompletionLasts /\ Plans!MeetingInOrder

(* Each device is told once, and of what is cancelled at most by the push  *)
(* that is under way; SENT means every device (web-push.service.ts).       *)
PushesKept ==
  /\ [](part = "pushes" =>
          /\ Pushing!TypeOK /\ Pushing!AsIfOneAtATime
          /\ Pushing!NotPushedTwice /\ Pushing!CancelSilences)
  /\ Pushing!SentReachedAll

(* A folder is never nested in itself, as update says when it refuses      *)
(* (files.service.ts).                                                     *)
NoFolderCycle == part = "files" => Store!FoldersFormTree
=============================================================================
