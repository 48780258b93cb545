--------------------------- MODULE AssistantProofs ----------------------------
(***************************************************************************)
(* Proofs about the owner's assistant, for every set of cards, turns,      *)
(* conversations and memories, every bound and every size of the cache:    *)
(* that the status of a card tells what it did and a superseded card never *)
(* executes, and what the memories and the turns promise.                  *)
(***************************************************************************)
EXTENDS MCAssistant, FiniteSetTheorems, Sequences, TLAPS

\* Worker w is the request that runs card a.
Executing(w, a) == /\ worker[w].pc \in {"execute", "fail"}
                   /\ worker[w].action = a

OnCard == {"notify", "read", "expire", "claim", "execute", "fail", "outcome"}
InChat == {"supersede", "create"}

\* A request that has left its first step works on a card, or in a
\* conversation, that exists.
Targets ==
  \A w \in Workers :
    /\ worker[w].pc \in OnCard => worker[w].action \in Actions
    /\ worker[w].pc \in InChat => worker[w].conversation \in Conversations
    /\ worker[w].pc \notin {"execute", "fail", "outcome"} => worker[w].done = 0

\* A running card is EXECUTING and has one request running it: the claim is
\* exclusive.
Ownership ==
  \A w \in Workers, a \in Actions :
    Executing(w, a) => /\ status[a] = "EXECUTING"
                       /\ \A v \in Workers : Executing(v, a) => v = w

\* What the owner of a card remembers to be done is done, and at most one item
\* more is: the one that took effect and then threw.
Progress ==
  \A w \in Workers, a \in Actions :
    Executing(w, a) =>
      /\ worker[w].done <= size[a]
      /\ \A i \in Items :
           /\ i <= worker[w].done => ran[a][i] = 1
           /\ i > worker[w].done + 1 => ran[a][i] = 0
           /\ i > worker[w].done /\ worker[w].pc = "execute" => ran[a][i] = 0

IInv == TypeOK /\ Targets /\ Ownership /\ Progress /\ StatusTellsEffects

-----------------------------------------------------------------------------

\* The requests that handlers put in a worker are well-formed.
LEMMA RequestTypes ==
  /\ Idle \in WorkerState
  /\ \A c \in Conversations : Proposing(c) \in WorkerState
  /\ \A a \in Actions, yes \in BOOLEAN : Confirming(a, yes) \in WorkerState
  /\ \A a \in Actions : Request("notify", a, NoConversation, FALSE) \in WorkerState
BY PendingActionAssumption
DEF Idle, Proposing, Confirming, Request, WorkerState, PCs

\* Replacing the request of a worker, or its program counter, keeps the type.
LEMMA WorkerStep ==
  ASSUME worker \in [Workers -> WorkerState], NEW w \in Workers,
         \/ \E r \in WorkerState : Becomes(w, r)
         \/ \E p \in PCs : GoesTo(w, p)
  PROVE  worker' \in [Workers -> WorkerState]
<1>1. CASE \E r \in WorkerState : Becomes(w, r)
  BY <1>1 DEF Becomes
<1>2. ASSUME NEW p \in PCs, GoesTo(w, p)
      PROVE worker' \in [Workers -> WorkerState]
  <2>1. [worker[w] EXCEPT !.pc = p] \in WorkerState
    BY <1>2 DEF WorkerState
  <2> QED BY <1>2, <2>1 DEF GoesTo
<1> QED BY <1>1, <1>2

\* The initial state satisfies the inductive invariant.
LEMMA InitInv == Init => IInv
<1> SUFFICES ASSUME Init PROVE IInv
  OBVIOUS
<1> USE PendingActionAssumption DEF Init, Items
<1>1. TypeOK
  BY RequestTypes DEF TypeOK, Statuses, Resolved
<1>2. Targets /\ Ownership /\ Progress
  BY DEF Targets, Ownership, Progress, Executing, Idle, Request, OnCard, InChat
<1>3. StatusTellsEffects
  BY DEF StatusTellsEffects
<1> QED BY <1>1, <1>2, <1>3 DEF IInv

\* createdAt order is a natural number: finitely many cards exist.
LEMMA SerialType == Cardinality(Created) \in Nat
<1>1. Created \subseteq Actions
  BY DEF Created
<1> QED BY <1>1, PendingActionAssumption, FS_Subset, FS_CardinalityType

\* One more effect of an item, and one more item done, are well-typed.
LEMMA CountType ==
  ASSUME NEW S, NEW f \in [S -> Nat], NEW i \in S
  PROVE  [f EXCEPT ![i] = @ + 1] \in [S -> Nat]
OBVIOUS

LEMMA DoneType ==
  \A r \in WorkerState, i \in Items : [r EXCEPT !.done = i] \in WorkerState
BY PendingActionAssumption DEF WorkerState, Items

\* Every step of the specification keeps the variables in their types.
LEMMA TypeStep == ASSUME TypeOK, Targets, [Next]_vars PROVE TypeOK'
<1> USE PendingActionAssumption, RequestTypes
    DEF TypeOK, cardVars, Items, Statuses, Resolved
<1> DEFINE Typed == worker' \in [Workers -> WorkerState]
<1>w. /\ \A w \in Workers, r \in WorkerState : Becomes(w, r) => Typed
      /\ \A w \in Workers, p \in PCs : GoesTo(w, p) => Typed
  BY WorkerStep
<1>c. /\ \A w \in ChatWorkers : w \in Workers
      /\ {"create", "notify", "expire", "claim", "execute", "fail", "outcome"} \subseteq PCs
  BY DEF Workers, PCs
<1> HIDE DEF Typed
<1> USE <1>w, <1>c
<1>1. ASSUME NEW w \in ChatWorkers, NEW c \in Conversations, ChatProposes(w, c)
      PROVE TypeOK'
  BY <1>1 DEF ChatProposes, Typed
<1>2. ASSUME NEW w \in ChatWorkers, NEW c \in Conversations,
             NEW a \in Actions, NEW yes \in BOOLEAN, ChatReplies(w, c, a, yes)
      PROVE TypeOK'
  BY <1>2 DEF ChatReplies, Typed
<1>3. ASSUME NEW w \in ChatWorkers, Supersede(w) PROVE TypeOK'
  BY <1>3 DEF Supersede, Typed
<1>4. ASSUME NEW w \in ChatWorkers, NEW a \in Actions, NEW n \in Items,
             CreateCard(w, a, n)
      PROVE TypeOK'
  <2>1. worker[w].conversation \in Conversations
    BY <1>4 DEF CreateCard, Targets, InChat
  <2>2. Typed
    BY <1>4 DEF CreateCard
  <2>3. serial' \in [Actions -> Nat]
    BY <1>4, SerialType DEF CreateCard
  <2>4. now + TTL \in 0..MaxTime
    BY <1>4 DEF CreateCard
  <2>5. /\ conversation' \in [Actions -> Conversations \cup {NoConversation}]
        /\ size' \in [Actions -> 0..MaxItems]
        /\ expiresAt' \in [Actions -> 0..MaxTime]
        /\ status' \in [Actions -> Statuses]
    BY <1>4, <2>1, <2>4 DEF CreateCard
  <2> QED BY <1>4, <2>2, <2>3, <2>5 DEF CreateCard, Typed
<1>5. ASSUME NEW w \in ChatWorkers, NotifyCard(w) PROVE TypeOK'
  BY <1>5 DEF NotifyCard, Typed
<1>6. ASSUME NEW w \in Workers, NEW a \in Actions, NEW yes \in BOOLEAN,
             ConfirmRequested(w, a, yes)
      PROVE TypeOK'
  BY <1>6 DEF ConfirmRequested, Typed
<1>7. ASSUME NEW w \in Workers, ConfirmReads(w) PROVE TypeOK'
  BY <1>7 DEF ConfirmReads, Typed
<1>8. ASSUME NEW w \in Workers, ConfirmExpires(w) PROVE TypeOK'
  BY <1>8 DEF ConfirmExpires, Typed
<1>9. ASSUME NEW w \in Workers, Claim(w) PROVE TypeOK'
  BY <1>9 DEF Claim, Typed
<1>10. ASSUME NEW w \in Workers, ClaimLost(w) PROVE TypeOK'
  BY <1>10 DEF ClaimLost, Typed
<1>11. ASSUME NEW w \in Workers, ExecuteItem(w) PROVE TypeOK'
  <2> DEFINE a == worker[w].action
             i == worker[w].done + 1
  <2>1. a \in Actions /\ worker[w].done \in 0..MaxItems
    BY <1>11 DEF ExecuteItem, Targets, OnCard, WorkerState
  <2>2. i \in Items
    BY <1>11, <2>1, SMTT(20) DEF ExecuteItem, MoreItems
  <2>3. ran[a] \in [Items -> Nat] /\ ran[a][i] \in Nat
    BY <2>1, <2>2, SMTT(20)
  <2>4. [ran[a] EXCEPT ![i] = @ + 1] \in [Items -> Nat]
    BY <2>2, <2>3, CountType, SMTT(20)
  <2>5. ran' \in [Actions -> [Items -> Nat]]
    BY <1>11, <2>1, <2>4 DEF ExecuteItem
  <2>6. [worker[w] EXCEPT !.done = i] \in WorkerState
    BY <2>2, DoneType
  <2>7. Typed
    BY <1>11, <2>6 DEF ExecuteItem, Typed
  <2> QED BY <1>11, <2>5, <2>7 DEF ExecuteItem, Typed
<1>12. ASSUME NEW w \in Workers, RecordFailure(w) PROVE TypeOK'
  BY <1>12 DEF RecordFailure, Typed
<1>13. ASSUME NEW w \in Workers, RecordSuccess(w) PROVE TypeOK'
  BY <1>13 DEF RecordSuccess, Typed
<1>14. ASSUME NEW w \in Workers, RecordOutcome(w) PROVE TypeOK'
  BY <1>14 DEF RecordOutcome, Typed
<1>15. ASSUME NEW w \in Workers, Crash(w) PROVE TypeOK'
  BY <1>15 DEF Crash, Typed
<1>16. CASE ExpireStale
  BY <1>16 DEF ExpireStale
<1>17. CASE Tick
  BY <1>17 DEF Tick
<1>18. CASE UNCHANGED vars
  BY <1>18 DEF vars
<1> QED
  BY ONLY [Next]_vars,
     <1>1, <1>2, <1>3, <1>4, <1>5, <1>6, <1>7, <1>8, <1>9, <1>10, <1>11, <1>12,
     <1>13, <1>14, <1>15, <1>16, <1>17, <1>18
  DEF Next, ChatArrives, ProposalStep, ConfirmStep

-----------------------------------------------------------------------------

\* A request with a card or a conversation may move along its own handler.
LEMMA TargetsMove ==
  ASSUME TypeOK, Targets, NEW w \in Workers,
         \/ \E p \in OnCard :
              /\ worker[w].pc \in OnCard /\ GoesTo(w, p)
              /\ worker[w].pc \in {"execute", "fail", "outcome"} => p \in {"fail", "outcome"}
         \/ \E p \in InChat : worker[w].pc \in InChat /\ GoesTo(w, p)
         \/ Becomes(w, Idle)
         \/ \E a \in Actions, yes \in BOOLEAN : Becomes(w, Confirming(a, yes))
         \/ \E a \in Actions : Becomes(w, Request("notify", a, NoConversation, FALSE))
         \/ \E c \in Conversations : Becomes(w, Proposing(c))
  PROVE  Targets'
<1> USE DEF Targets, TypeOK, OnCard, InChat
<1>1. ASSUME NEW p \in OnCard \cup InChat, GoesTo(w, p)
      PROVE  /\ \A v \in Workers \ {w} : worker'[v] = worker[v]
             /\ worker'[w] = [worker[w] EXCEPT !.pc = p]
  BY <1>1 DEF GoesTo
<1>2. ASSUME NEW p \in OnCard \cup InChat, GoesTo(w, p)
      PROVE  /\ worker'[w].pc = p
             /\ worker'[w].action = worker[w].action
             /\ worker'[w].conversation = worker[w].conversation
             /\ worker'[w].done = worker[w].done
  BY <1>1, <1>2 DEF WorkerState
<1>3. ASSUME NEW p \in OnCard, worker[w].pc \in OnCard, GoesTo(w, p),
             worker[w].pc \in {"execute", "fail", "outcome"} => p \in {"fail", "outcome"}
      PROVE Targets'
  BY <1>1, <1>2, <1>3, ZenonT(40)
<1>4. ASSUME NEW p \in InChat, worker[w].pc \in InChat, GoesTo(w, p) PROVE Targets'
  BY <1>1, <1>2, <1>4
<1>5. ASSUME NEW r, Becomes(w, r)
      PROVE  worker'[w] = r /\ \A v \in Workers \ {w} : worker'[v] = worker[v]
  BY <1>5 DEF Becomes
<1>6. CASE Becomes(w, Idle)
  BY <1>5, <1>6 DEF Idle, Request
<1>7. ASSUME NEW a \in Actions, NEW yes \in BOOLEAN, Becomes(w, Confirming(a, yes))
      PROVE Targets'
  BY <1>5, <1>7, SMTT(20) DEF Confirming, Request
<1>8. ASSUME NEW a \in Actions, Becomes(w, Request("notify", a, NoConversation, FALSE))
      PROVE Targets'
  BY <1>5, <1>8 DEF Request
<1>9. ASSUME NEW c \in Conversations, Becomes(w, Proposing(c)) PROVE Targets'
  BY <1>5, <1>9 DEF Proposing, Request
<1> HIDE DEF Targets, TypeOK, OnCard, InChat
<1> QED BY <1>3, <1>4, <1>6, <1>7, <1>8, <1>9

\* A request that goes on keeps a target it had, or was just given one.
LEMMA TargetsStep == ASSUME TypeOK, Targets, [Next]_vars PROVE Targets'
<1> USE TargetsMove
<1>0. \A w \in ChatWorkers : w \in Workers
  BY DEF Workers
<1>1. ASSUME NEW w \in Workers, ConfirmStep(w) PROVE Targets'
  <2>1. CASE ExecuteItem(w)
    <3>1. CASE GoesTo(w, "fail")
      BY <2>1, <3>1 DEF ExecuteItem, OnCard
    <3>2. CASE worker' = [worker EXCEPT ![w].done = worker[w].done + 1]
      <4>1. /\ worker'[w].pc = worker[w].pc
            /\ worker'[w].action = worker[w].action
            /\ \A v \in Workers \ {w} : worker'[v] = worker[v]
        BY <3>2 DEF TypeOK, WorkerState
      <4> QED BY <2>1, <4>1 DEF ExecuteItem, Targets, OnCard, InChat
    <3> QED BY <2>1, <3>1, <3>2 DEF ExecuteItem
  <2>2. CASE ConfirmReads(w)
    BY <1>1, <2>2 DEF ConfirmReads, OnCard
  <2>3. CASE Claim(w)
    BY <1>1, <2>3 DEF Claim, OnCard
  <2>4. CASE ConfirmExpires(w) \/ ClaimLost(w) \/ RecordOutcome(w)
    BY <1>1, <2>4 DEF ConfirmExpires, ClaimLost, RecordOutcome
  <2>5. CASE RecordFailure(w) \/ RecordSuccess(w)
    BY <1>1, <2>5 DEF RecordFailure, RecordSuccess, OnCard
  <2> QED BY <1>1, <2>1, <2>2, <2>3, <2>4, <2>5 DEF ConfirmStep
<1>2. ASSUME NEW w \in ChatWorkers, ProposalStep(w) PROVE Targets'
  <2>1. CASE Supersede(w)
    BY <1>0, <1>2, <2>1 DEF Supersede, InChat
  <2>2. CASE \E a \in Actions, n \in Items : CreateCard(w, a, n)
    BY <1>0, <1>2, <2>2 DEF CreateCard
  <2>3. CASE NotifyCard(w)
    BY <1>0, <1>2, <2>3 DEF NotifyCard
  <2> QED BY <1>2, <2>1, <2>2, <2>3 DEF ProposalStep
<1>3. ASSUME NEW w \in ChatWorkers, ChatArrives(w) PROVE Targets'
  BY <1>0, <1>3 DEF ChatArrives, ChatProposes, ChatReplies
<1>4. ASSUME NEW w \in Workers, NEW a \in Actions, NEW yes \in BOOLEAN,
             ConfirmRequested(w, a, yes)
      PROVE Targets'
  BY <1>4 DEF ConfirmRequested
<1>5. ASSUME NEW w \in Workers, Crash(w) PROVE Targets'
  BY <1>5 DEF Crash
<1>6. CASE ExpireStale \/ Tick \/ UNCHANGED vars
  BY <1>6 DEF ExpireStale, Tick, vars, Targets
<1> QED
  BY <1>1, <1>2, <1>3, <1>4, <1>5, <1>6 DEF Next

\* A step that leaves every request that runs a card alone, and the card with
\* it, keeps ownership and progress.
LEMMA Frame ==
  ASSUME Ownership, Progress,
         \A v \in Workers, a \in Actions :
           Executing(v, a)' => /\ worker'[v] = worker[v]
                               /\ status'[a] = status[a]
                               /\ size'[a] = size[a]
                               /\ ran'[a] = ran[a]
  PROVE  Ownership' /\ Progress'
<1>1. \A v \in Workers, a \in Actions : Executing(v, a)' => Executing(v, a)
  BY DEF Executing
<1> QED BY <1>1 DEF Ownership, Progress, Executing

\* What a step keeps beside the types and the targets.
Kept == Ownership /\ Progress /\ StatusTellsEffects

\* Steps that move a request to where it runs nothing, and no card.
LEMMA QuietStep ==
  ASSUME IInv, NEW w \in Workers, UNCHANGED <<status, size, errorCode, ran>>,
         \/ \E r \in WorkerState : r.pc \notin {"execute", "fail"} /\ Becomes(w, r)
         \/ \E p \in PCs \ {"execute", "fail"} : GoesTo(w, p)
  PROVE  Kept'
<1>1. StatusTellsEffects'
  BY DEF IInv, StatusTellsEffects
<1>2. /\ worker'[w].pc \notin {"execute", "fail"}
      /\ \A v \in Workers \ {w} : worker'[v] = worker[v]
  BY DEF IInv, TypeOK, WorkerState, Becomes, GoesTo
<1>3. Ownership' /\ Progress'
  BY <1>2, Frame DEF IInv, Executing
<1> QED BY <1>1, <1>3 DEF Kept

\* Steps that close open cards, which nobody runs and of which nothing ran.
LEMMA ClosingStep ==
  ASSUME IInv, UNCHANGED <<size, errorCode, ran>>,
         NEW out \in {"CANCELLED", "EXPIRED"},
         \A a \in Actions : \/ status'[a] = status[a]
                            \/ status[a] = "PENDING" /\ status'[a] = out,
         \A v \in Workers : \/ worker'[v] = worker[v]
                            \/ worker'[v].pc \notin {"execute", "fail"}
  PROVE  Kept'
<1>1. \A a \in Actions : status[a] = "PENDING" =>
        /\ errorCode[a] = "none"
        /\ \A i \in Items : ran[a][i] = 0
  BY DEF IInv, StatusTellsEffects, TypeOK
<1>2. StatusTellsEffects'
  BY <1>1 DEF IInv, StatusTellsEffects
<1>3. \A v \in Workers, a \in Actions : Executing(v, a)' => Executing(v, a)
  BY DEF Executing
<1>4. Ownership' /\ Progress'
  BY <1>3, Frame DEF IInv, Executing, Ownership
<1> QED BY <1>2, <1>4 DEF Kept

\* A new card is open and nothing of it has run.
LEMMA CreateStep ==
  ASSUME IInv, NEW w \in ChatWorkers, NEW a \in Actions, NEW n \in Items,
         CreateCard(w, a, n)
  PROVE  Kept'
<1> USE PendingActionAssumption DEF IInv, CreateCard
<1>1. /\ status[a] = "none"
      /\ errorCode[a] = "none"
      /\ \A i \in Items : ran[a][i] = 0
  BY SMTT(20) DEF StatusTellsEffects, TypeOK
<1>2. /\ \A b \in Actions \ {a} : status'[b] = status[b] /\ size'[b] = size[b]
      /\ status'[a] = "PENDING"
  BY DEF TypeOK
<1>3. StatusTellsEffects'
  BY <1>1, <1>2 DEF StatusTellsEffects
<1>4. /\ worker'[w].pc \notin {"execute", "fail"}
      /\ \A v \in Workers \ {w} : worker'[v] = worker[v]
  BY DEF TypeOK, Becomes, Confirming, Request, Workers
<1>5. \A v \in Workers, b \in Actions :
        Executing(v, b)' => b # a /\ worker'[v] = worker[v]
  BY <1>1, <1>4 DEF Executing, Ownership
<1>6. Ownership' /\ Progress'
  BY <1>2, <1>5, Frame
<1> QED BY <1>3, <1>6 DEF Kept

\* The claim takes a card nobody runs, and of which nothing ran.
LEMMA ClaimStep ==
  ASSUME IInv, NEW w \in Workers, Claim(w)
  PROVE  Kept'
<1> DEFINE a == worker[w].action
<1>1. a \in Actions /\ status[a] = "PENDING" /\ worker[w].done = 0
  BY DEF IInv, Claim, Claimable, Targets, OnCard
<1>2. /\ errorCode[a] = "none"
      /\ \A i \in Items : ran[a][i] = 0
      /\ size[a] \in Nat
  BY <1>1, PendingActionAssumption DEF IInv, StatusTellsEffects, TypeOK
<1>3. \A v \in Workers : ~Executing(v, a)
  BY <1>1 DEF IInv, Ownership
<1>4. /\ UNCHANGED <<size, errorCode, ran>>
      /\ \A b \in Actions \ {a} : status'[b] = status[b]
      /\ status'[a] \in {"EXECUTING", "CANCELLED"}
      /\ \A v \in Workers \ {w} : worker'[v] = worker[v]
      /\ worker'[w].action = a
      /\ worker'[w].done = worker[w].done
      /\ worker'[w].pc = "execute" => status'[a] = "EXECUTING"
      /\ worker'[w].pc \in {"execute", "outcome"}
  BY <1>1 DEF IInv, TypeOK, WorkerState, Claim, GoesTo, cardVars
<1> HIDE DEF a
<1>5. StatusTellsEffects'
  BY <1>1, <1>2, <1>4 DEF IInv, StatusTellsEffects
<1>6. \A v \in Workers, b \in Actions : Executing(v, b)' =>
        \/ v # w /\ b # a /\ Executing(v, b)
        \/ v = w /\ b = a /\ worker'[w].pc = "execute"
  BY <1>3, <1>4 DEF Executing
<1>7. Ownership'
  BY <1>4, <1>6 DEF IInv, Ownership
<1>8. Progress'
  BY <1>1, <1>2, <1>4, <1>6 DEF IInv, Progress, Items
<1> QED BY <1>5, <1>7, <1>8 DEF Kept

\* An item takes effect after the ones in front of it, for the first time.
LEMMA ExecuteStep ==
  ASSUME IInv, NEW w \in Workers, ExecuteItem(w)
  PROVE  Kept'
<1> DEFINE a == worker[w].action
           i == worker[w].done + 1
<1>1. /\ a \in Actions /\ worker[w].pc = "execute" /\ Executing(w, a)
      /\ worker[w].done \in Nat
      /\ size[a] \in 0..MaxItems /\ worker[w].done < size[a]
  BY DEF IInv, ExecuteItem, MoreItems, Targets, OnCard, Executing, TypeOK, WorkerState
<1>2. i \in Items /\ i <= size[a]
  BY <1>1, PendingActionAssumption DEF Items
<1>3. /\ status[a] = "EXECUTING" /\ errorCode[a] = "none"
      /\ \A v \in Workers : Executing(v, a) => v = w
      /\ \A j \in Items : /\ j < i => ran[a][j] = 1
                          /\ j >= i => ran[a][j] = 0
  BY <1>1 DEF IInv, Ownership, Progress, StatusTellsEffects, Items
<1>4. /\ UNCHANGED <<status, size, errorCode>>
      /\ \A b \in Actions \ {a} : ran'[b] = ran[b]
      /\ \A j \in Items : j # i => ran'[a][j] = ran[a][j]
      /\ ran'[a][i] \in {0, 1}
      /\ \A v \in Workers \ {w} : worker'[v] = worker[v]
      /\ worker'[w].action = a
      /\ \/ /\ worker'[w].pc = "execute" /\ worker'[w].done = i /\ ran'[a][i] = 1
         \/ /\ worker'[w].pc = "fail" /\ worker'[w].done = worker[w].done
  <2>1. /\ UNCHANGED <<status, size, errorCode>>
        /\ ran' = ran \/ ran' = [ran EXCEPT ![a][i] = @ + 1]
    BY DEF ExecuteItem, cardVars
  <2>2. /\ \A b \in Actions \ {a} : ran'[b] = ran[b]
        /\ \A j \in Items : j # i => ran'[a][j] = ran[a][j]
        /\ ran'[a][i] \in {0, 1}
        /\ ran' = [ran EXCEPT ![a][i] = @ + 1] => ran'[a][i] = 1
    BY <1>1, <1>2, <1>3, <2>1, SMTT(20) DEF IInv, TypeOK
  <2>3. CASE worker' = [worker EXCEPT ![w].done = i] /\ ran' = [ran EXCEPT ![a][i] = @ + 1]
    <3>1. /\ worker'[w].pc = worker[w].pc
          /\ worker'[w].action = worker[w].action
          /\ worker'[w].done = i
          /\ \A v \in Workers \ {w} : worker'[v] = worker[v]
      BY <2>3 DEF IInv, TypeOK, WorkerState
    <3> QED BY <1>1, <2>1, <2>2, <2>3, <3>1
  <2>4. CASE GoesTo(w, "fail")
    <3>1. /\ worker'[w].pc = "fail"
          /\ worker'[w].action = worker[w].action
          /\ worker'[w].done = worker[w].done
          /\ \A v \in Workers \ {w} : worker'[v] = worker[v]
      BY <2>4 DEF IInv, TypeOK, WorkerState, GoesTo
    <3> QED BY <2>1, <2>2, <3>1
  <2> QED BY <2>3, <2>4 DEF ExecuteItem
<1>i. i = worker[w].done + 1
  OBVIOUS
<1> HIDE DEF a, i
<1>5. StatusTellsEffects'
  <2> SUFFICES ASSUME NEW b \in Actions PROVE StatusTellsEffects!(b)'
    BY DEF StatusTellsEffects
  <2>1. CASE b # a
    BY <1>4, <2>1 DEF IInv, StatusTellsEffects
  <2>2. CASE b = a
    <3>1. \A j \in Items : /\ j < i => ran'[a][j] = 1
                           /\ j > i => ran'[a][j] = 0
                           /\ ran'[a][j] \in {0, 1}
                           /\ j <= i => j <= size[a]
      BY <1>1, <1>2, <1>3, <1>4 DEF Items
    <3>2. \A j \in Items : /\ ran'[a][j] <= 1
                           /\ j > 1 /\ ran'[a][j] = 1 => ran'[a][j - 1] = 1
                           /\ ran'[a][j] > 0 => j <= size[a]
      <4> SUFFICES ASSUME NEW j \in Items
                   PROVE  /\ ran'[a][j] <= 1
                          /\ j > 1 /\ ran'[a][j] = 1 => ran'[a][j - 1] = 1
                          /\ ran'[a][j] > 0 => j <= size[a]
        OBVIOUS
      <4>1. j > 1 => j - 1 \in Items
        BY PendingActionAssumption DEF Items
      <4>2. j > 1 /\ j <= i => ran'[a][j - 1] = 1
        BY <1>2, <3>1, <4>1 DEF Items
      <4> QED BY <1>2, <3>1, <4>2 DEF Items
    <3> QED BY <1>3, <1>4, <2>2, <3>2
  <2> QED BY <2>1, <2>2
<1>6. Ownership'
  BY <1>1, <1>3, <1>4 DEF IInv, Ownership, Executing
<1>7. Progress'
  <2> SUFFICES ASSUME NEW v \in Workers, NEW b \in Actions, Executing(v, b)'
               PROVE  Progress!(v, b)!2'
    BY DEF Progress
  <2>1. CASE v # w
    <3>1. b # a /\ Executing(v, b) /\ worker'[v] = worker[v]
      BY <1>1, <1>3, <1>4, <2>1 DEF Executing
    <3> QED BY <1>4, <3>1 DEF IInv, Progress
  <2>2. CASE v = w
    <3>1. b = a
      BY <1>4, <2>2 DEF Executing
    <3>2. CASE worker'[w].pc = "execute"
      BY <1>i, <1>1, <1>2, <1>3, <1>4, <2>2, <3>1, <3>2 DEF Items
    <3>3. CASE worker'[w].pc = "fail"
      BY <1>i, <1>1, <1>2, <1>3, <1>4, <2>2, <3>1, <3>3 DEF Items
    <3> QED BY <1>4, <3>2, <3>3
  <2> QED BY <2>1, <2>2
<1> QED BY <1>5, <1>6, <1>7 DEF Kept

\* The end of a run is written by the one request that runs the card, when
\* what it remembers is what happened.
LEMMA RecordStep ==
  ASSUME IInv, NEW w \in Workers, RecordFailure(w) \/ RecordSuccess(w)
  PROVE  Kept'
<1> DEFINE a == worker[w].action
           done == worker[w].done
<1>1. /\ a \in Actions /\ Executing(w, a)
      /\ done \in Nat /\ size[a] \in 0..MaxItems
  BY DEF IInv, RecordFailure, RecordSuccess, Targets, OnCard, Executing,
         TypeOK, WorkerState
<1>2. /\ UNCHANGED <<size, ran>>
      /\ \A b \in Actions \ {a} : status'[b] = status[b] /\ errorCode'[b] = errorCode[b]
      /\ \/ /\ status'[a] = "FAILED"
            /\ errorCode'[a] = IF done > 0 THEN "PARTIAL_EXECUTION" ELSE "EXECUTION_FAILED"
         \/ /\ status'[a] = "EXECUTED" /\ done = size[a]
            /\ errorCode'[a] = errorCode[a]
      /\ worker'[w].pc = "outcome"
      /\ \A v \in Workers \ {w} : worker'[v] = worker[v]
  BY <1>1 DEF IInv, TypeOK, WorkerState, RecordFailure, RecordSuccess, GoesTo, cardVars
<1>3. /\ status[a] = "EXECUTING" /\ errorCode[a] = "none"
      /\ \A v \in Workers : Executing(v, a) => v = w
      /\ \A j \in Items : /\ j <= done => ran[a][j] = 1
                          /\ j > done + 1 => ran[a][j] = 0
  BY <1>1 DEF IInv, Ownership, Progress, StatusTellsEffects
<1>4. /\ done > 0 => 1 \in Items
      /\ done = 0 => \A j \in Items : j > 1 => ran[a][j] = 0
  BY <1>1, <1>3, PendingActionAssumption DEF Items
<1> HIDE DEF a, done
<1>5. StatusTellsEffects'
  <2> SUFFICES ASSUME NEW b \in Actions PROVE StatusTellsEffects!(b)'
    BY DEF StatusTellsEffects
  <2>1. CASE b # a
    BY <1>2, <2>1 DEF IInv, StatusTellsEffects
  <2>2. CASE b = a
    BY <1>1, <1>2, <1>3, <1>4, <2>2 DEF IInv, StatusTellsEffects, Items
  <2> QED BY <2>1, <2>2
<1>6. \A v \in Workers, b \in Actions :
        Executing(v, b)' => v # w /\ b # a /\ worker'[v] = worker[v]
  BY <1>2, <1>3 DEF Executing
<1>7. Ownership' /\ Progress'
  BY <1>2, <1>6, Frame DEF IInv
<1> QED BY <1>5, <1>7 DEF Kept

\* The inductive step.
LEMMA InvStep == ASSUME IInv, [Next]_vars PROVE IInv'
<1>0. \A w \in ChatWorkers : w \in Workers
  BY DEF Workers
<1>t. TypeOK' /\ Targets'
  BY TypeStep, TargetsStep DEF IInv
<1>q. /\ Idle.pc \notin {"execute", "fail"}
      /\ \A c \in Conversations : Proposing(c).pc \notin {"execute", "fail"}
      /\ \A a \in Actions, yes \in BOOLEAN : Confirming(a, yes).pc \notin {"execute", "fail"}
      /\ {"expire", "claim"} \subseteq PCs \ {"execute", "fail"}
  BY DEF Idle, Proposing, Confirming, Request, PCs
<1>1. ASSUME NEW w \in ChatWorkers, ChatArrives(w) PROVE Kept'
  BY <1>0, <1>q, <1>1, QuietStep, RequestTypes
  DEF ChatArrives, ChatProposes, ChatReplies, cardVars
<1>2. ASSUME NEW w \in ChatWorkers, Supersede(w) PROVE Kept'
  <2>1. \A v \in Workers : worker'[v] = worker[v] \/ worker'[v].pc = "create"
    BY <1>0, <1>2 DEF Supersede, GoesTo, IInv, TypeOK, WorkerState
  <2>2. \A a \in Actions : \/ status'[a] = status[a]
                           \/ status[a] = "PENDING" /\ status'[a] = "CANCELLED"
    BY <1>2 DEF Supersede, Superseded, Pending
  <2> QED BY <1>2, <2>1, <2>2, ClosingStep DEF Supersede, cardVars
<1>3. ASSUME NEW w \in ChatWorkers, NEW a \in Actions, NEW n \in Items,
             CreateCard(w, a, n)
      PROVE Kept'
  BY <1>3, CreateStep
<1>4. ASSUME NEW w \in ChatWorkers, NotifyCard(w) PROVE Kept'
  BY <1>0, <1>q, <1>4, QuietStep, RequestTypes DEF NotifyCard, cardVars
<1>5. ASSUME NEW w \in Workers, NEW a \in Actions, NEW yes \in BOOLEAN,
             ConfirmRequested(w, a, yes)
      PROVE Kept'
  BY <1>q, <1>5, QuietStep, RequestTypes DEF ConfirmRequested, cardVars
<1>6. ASSUME NEW w \in Workers, ConfirmReads(w) PROVE Kept'
  BY <1>q, <1>6, QuietStep, RequestTypes DEF ConfirmReads, cardVars
<1>7. ASSUME NEW w \in Workers, ConfirmExpires(w) PROVE Kept'
  <2>1. \A v \in Workers : worker'[v] = worker[v] \/ worker'[v].pc = "idle"
    BY <1>7 DEF ConfirmExpires, Becomes, Idle, Request, IInv, TypeOK
  <2>2. \A a \in Actions : \/ status'[a] = status[a]
                           \/ status[a] = "PENDING" /\ status'[a] = "EXPIRED"
    BY <1>7 DEF ConfirmExpires, IInv, TypeOK
  <2> QED BY <1>7, <2>1, <2>2, ClosingStep DEF ConfirmExpires, cardVars
<1>8. ASSUME NEW w \in Workers, Claim(w) PROVE Kept'
  BY <1>8, ClaimStep
<1>9. ASSUME NEW w \in Workers, ClaimLost(w) \/ RecordOutcome(w) \/ Crash(w) PROVE Kept'
  BY <1>q, <1>9, QuietStep, RequestTypes DEF ClaimLost, RecordOutcome, Crash, cardVars
<1>10. ASSUME NEW w \in Workers, ExecuteItem(w) PROVE Kept'
  BY <1>10, ExecuteStep
<1>11. ASSUME NEW w \in Workers, RecordFailure(w) \/ RecordSuccess(w) PROVE Kept'
  BY <1>11, RecordStep
<1>12. ASSUME ExpireStale PROVE Kept'
  <2>1. /\ UNCHANGED <<worker, size, errorCode, ran>>
        /\ \A a \in Actions : \/ status'[a] = status[a]
                              \/ status[a] = "PENDING" /\ status'[a] = "EXPIRED"
    BY <1>12 DEF ExpireStale, Stale, cardVars
  <2> QED BY <2>1, ClosingStep
<1>13. ASSUME Tick \/ UNCHANGED vars PROVE Kept'
  <2>1. UNCHANGED <<worker, status, size, errorCode, ran>>
    BY <1>13 DEF Tick, vars, cardVars
  <2>2. Ownership' /\ Progress'
    BY <2>1, Frame DEF IInv
  <2>3. StatusTellsEffects'
    BY <2>1 DEF IInv, StatusTellsEffects
  <2> QED BY <2>2, <2>3 DEF Kept
<1>14. ASSUME NEW w \in Workers, ConfirmStep(w) PROVE Kept'
  BY <1>6, <1>7, <1>8, <1>9, <1>10, <1>11, <1>14 DEF ConfirmStep
<1>15. ASSUME NEW w \in ChatWorkers, ProposalStep(w) PROVE Kept'
  BY <1>2, <1>3, <1>4, <1>15 DEF ProposalStep
<1>16. Kept'
  BY ONLY [Next]_vars, <1>1, <1>5, <1>9, <1>12, <1>13, <1>14, <1>15 DEF Next
<1> QED BY <1>t, <1>16 DEF Kept, IInv

-----------------------------------------------------------------------------

\* What makes a card's status true at every step of confirm: it has one owner,
\* and the owner's count of done items is at most one behind what happened.
THEOREM InductiveInvariant == Spec => []IInv
BY InitInv, InvStep, PTL DEF Spec

\* Every column and every request of the confirmation flow (confirm, chat,
\* expireStale) keeps its type.
THEOREM TypeCorrect == Spec => []TypeOK
BY InductiveInvariant, PTL DEF IInv

\* The status of a card tells what it did: the compare-and-set of confirm
\* makes every item of every batch run at most once and in order, for any
\* number of requests, cards and server instances.
THEOREM StatusIsTruth == Spec => []StatusTellsEffects
BY InductiveInvariant, PTL DEF IInv

-----------------------------------------------------------------------------
(* The database and its concurrent requests implement module Approval.     *)

\* A request that found its card expired works on a card whose time is over,
\* and requests work on cards that exist.
ExpirySeen ==
  \A w \in Workers :
    /\ worker[w].pc \in OnCard => status[worker[w].action] # "none"
    /\ worker[w].pc = "expire" => expiresAt[worker[w].action] <= now

\* What steps do to the cards and the requests keeps ExpirySeen: cards stay,
\* and a request stays on its card or goes to one that exists.
LEMMA ExpirySeenFrame ==
  ASSUME IInv, ExpirySeen, now' \in Int, now' >= now,
         \A a \in Actions : status[a] # "none" =>
           status'[a] # "none" /\ expiresAt'[a] = expiresAt[a],
         \A w \in Workers :
           \/ worker'[w].pc \notin OnCard
           \/ worker'[w].pc # "expire" /\ status'[worker'[w].action] # "none"
           \/ /\ worker[w].pc \in OnCard /\ worker'[w].action = worker[w].action
              /\ worker'[w].pc = "expire" => expiresAt[worker[w].action] <= now
  PROVE  ExpirySeen'
<1> SUFFICES ASSUME NEW w \in Workers, worker'[w].pc \in OnCard
             PROVE  /\ status'[worker'[w].action] # "none"
                    /\ worker'[w].pc = "expire" => expiresAt'[worker'[w].action] <= now'
  BY DEF ExpirySeen, OnCard
<1>1. CASE worker'[w].pc # "expire" /\ status'[worker'[w].action] # "none"
  BY <1>1
<1>2. CASE /\ worker[w].pc \in OnCard /\ worker'[w].action = worker[w].action
           /\ worker'[w].pc = "expire" => expiresAt[worker[w].action] <= now
  <2> DEFINE a == worker[w].action
  <2>1. a \in Actions /\ status[a] # "none"
    BY <1>2 DEF IInv, Targets, ExpirySeen
  <2>2. status'[a] # "none" /\ expiresAt'[a] = expiresAt[a]
    BY <2>1
  <2>3. now \in Int /\ expiresAt[a] \in Int
    BY <2>1, PendingActionAssumption DEF IInv, TypeOK
  <2> HIDE DEF a
  <2>4. worker'[w].pc = "expire" => expiresAt'[a] <= now'
    BY <1>2, <2>2, <2>3 DEF a
  <2> QED BY <1>2, <2>2, <2>4 DEF a
<1> QED BY <1>1, <1>2

\* A step of one request leaves the others where they are.
LEMMA OneMoves ==
  ASSUME TypeOK, NEW w \in Workers
  PROVE  /\ \A r : Becomes(w, r) => /\ worker'[w] = r
                                   /\ \A v \in Workers \ {w} : worker'[v] = worker[v]
         /\ \A p : GoesTo(w, p) => /\ worker'[w].pc = p
                                  /\ worker'[w].action = worker[w].action
                                  /\ \A v \in Workers \ {w} : worker'[v] = worker[v]
BY DEF TypeOK, WorkerState, Becomes, GoesTo

LEMMA ExpirySeenStep == ASSUME IInv, ExpirySeen, [Next]_vars PROVE ExpirySeen'
<1> DEFINE CardsStay == \A a \in Actions : status[a] # "none" =>
                          status'[a] # "none" /\ expiresAt'[a] = expiresAt[a]
           Stays(v) == worker'[v] = worker[v]
           Moves(v) ==
             \/ worker'[v].pc \notin OnCard
             \/ worker'[v].pc # "expire" /\ status'[worker'[v].action] # "none"
             \/ /\ worker[v].pc \in OnCard /\ worker'[v].action = worker[v].action
                /\ worker'[v].pc = "expire" => expiresAt[worker[v].action] <= now
<1>0. \A w \in ChatWorkers : w \in Workers
  BY DEF Workers
<1>1. /\ TypeOK
      /\ now \in Int
      /\ \A v \in Workers : Stays(v) => Moves(v)
  BY PendingActionAssumption DEF IInv, TypeOK, ExpirySeen
<1>2. ASSUME now' = now \/ now' = now + 1, CardsStay, \A v \in Workers : Moves(v)
      PROVE  ExpirySeen'
  BY <1>1, <1>2, ExpirySeenFrame
<1>3. ASSUME NEW w \in Workers, now' = now, CardsStay, Moves(w),
             \A v \in Workers \ {w} : Stays(v)
      PROVE  ExpirySeen'
  BY <1>1, <1>2, <1>3
<1>4. ASSUME NEW w \in Workers, UNCHANGED <<status, expiresAt>> PROVE CardsStay
  BY <1>4
<1>5. /\ Idle.pc \notin OnCard
      /\ \A c \in Conversations : Proposing(c).pc \notin OnCard
      /\ "create" \notin OnCard
      /\ \A a, yes : Confirming(a, yes).pc # "expire" /\ Confirming(a, yes).action = a
  BY DEF Idle, Proposing, Confirming, Request, OnCard
<1>6. ASSUME NEW w \in ChatWorkers, ChatArrives(w) PROVE ExpirySeen'
  <2>1. UNCHANGED <<now, status, expiresAt>>
    BY <1>6 DEF ChatArrives, ChatProposes, ChatReplies, cardVars
  <2>2. Moves(w) /\ \A v \in Workers \ {w} : Stays(v)
    BY <1>0, <1>1, <1>5, <1>6, OneMoves
    DEF ChatArrives, ChatProposes, ChatReplies, Pending
  <2> HIDE DEF Moves, Stays
  <2> QED BY <1>0, <1>3, <1>4, <2>1, <2>2
<1>7. ASSUME NEW w \in ChatWorkers, Supersede(w) PROVE ExpirySeen'
  <2>1. now' = now /\ CardsStay
    BY <1>7 DEF Supersede, cardVars
  <2>2. Moves(w) /\ \A v \in Workers \ {w} : Stays(v)
    BY <1>0, <1>1, <1>5, <1>7, OneMoves DEF Supersede
  <2> HIDE DEF Moves, Stays, CardsStay
  <2> QED BY <1>0, <1>3, <2>1, <2>2
<1>8. ASSUME NEW w \in ChatWorkers, NEW a \in Actions, NEW n \in Items, CreateCard(w, a, n)
      PROVE  ExpirySeen'
  <2>1. now' = now /\ status'[a] # "none" /\ CardsStay
    BY <1>1, <1>8 DEF CreateCard, TypeOK
  <2>2. \/ Becomes(w, Request("notify", a, NoConversation, FALSE))
        \/ Becomes(w, Confirming(a, TRUE))
    BY <1>8 DEF CreateCard
  <2>3. /\ worker'[w].pc # "expire" /\ worker'[w].action = a
        /\ \A v \in Workers \ {w} : Stays(v)
    BY <1>0, <1>1, <2>2, OneMoves DEF Confirming, Request
  <2> HIDE DEF Stays, CardsStay
  <2> QED BY <1>0, <1>3, <2>1, <2>3
<1>9. ASSUME NEW w \in ChatWorkers, NotifyCard(w) PROVE ExpirySeen'
  <2>1. now' = now /\ CardsStay
    BY <1>9 DEF NotifyCard, cardVars
  <2>2. Moves(w) /\ \A v \in Workers \ {w} : Stays(v)
    BY <1>0, <1>1, <1>5, <1>9, OneMoves DEF NotifyCard
  <2> HIDE DEF Moves, Stays, CardsStay
  <2> QED BY <1>0, <1>3, <2>1, <2>2
<1>10. ASSUME NEW w \in Workers, NEW a \in Actions, NEW yes \in BOOLEAN,
              ConfirmRequested(w, a, yes)
       PROVE  ExpirySeen'
  <2>1. now' = now /\ CardsStay
    BY <1>10 DEF ConfirmRequested, cardVars
  <2>2. Moves(w) /\ \A v \in Workers \ {w} : Stays(v)
    BY <1>1, <1>5, <1>10, OneMoves DEF ConfirmRequested, Created
  <2> HIDE DEF Moves, Stays, CardsStay
  <2> QED BY <1>3, <2>1, <2>2
<1>11. ASSUME NEW w \in Workers, ConfirmReads(w) PROVE ExpirySeen'
  <2>1. now' = now /\ CardsStay
    BY <1>11 DEF ConfirmReads, cardVars
  <2>2. Moves(w) /\ \A v \in Workers \ {w} : Stays(v)
    BY <1>1, <1>5, <1>11, OneMoves DEF ConfirmReads, OnCard
  <2> HIDE DEF Moves, Stays, CardsStay
  <2> QED BY <1>3, <2>1, <2>2
<1>12. ASSUME NEW w \in Workers,
              ConfirmExpires(w) \/ ClaimLost(w) \/ RecordOutcome(w) \/ Crash(w)
       PROVE  ExpirySeen'
  <2>1. now' = now /\ CardsStay
    BY <1>1, <1>12 DEF ConfirmExpires, ClaimLost, RecordOutcome, Crash, cardVars, TypeOK
  <2>2. Moves(w) /\ \A v \in Workers \ {w} : Stays(v)
    BY <1>1, <1>5, <1>12, OneMoves DEF ConfirmExpires, ClaimLost, RecordOutcome, Crash
  <2> HIDE DEF Moves, Stays, CardsStay
  <2> QED BY <1>3, <2>1, <2>2
<1>13. ASSUME NEW w \in Workers, Claim(w) \/ RecordFailure(w) \/ RecordSuccess(w)
       PROVE  ExpirySeen'
  <2>1. now' = now /\ CardsStay
    BY <1>1, <1>13 DEF Claim, RecordFailure, RecordSuccess, cardVars, TypeOK
  <2>2. \E p \in {"execute", "outcome"} : GoesTo(w, p) /\ worker[w].pc \in OnCard
    BY <1>13 DEF Claim, RecordFailure, RecordSuccess, OnCard
  <2>3. Moves(w) /\ \A v \in Workers \ {w} : Stays(v)
    BY <1>1, <2>2, OneMoves
  <2> HIDE DEF Moves, Stays, CardsStay
  <2> QED BY <1>3, <2>1, <2>3
<1>14. ASSUME NEW w \in Workers, ExecuteItem(w) PROVE ExpirySeen'
  <2>1. now' = now /\ CardsStay
    BY <1>14 DEF ExecuteItem, cardVars
  <2>2. \/ GoesTo(w, "fail")
        \/ worker' = [worker EXCEPT ![w].done = worker[w].done + 1]
    BY <1>14 DEF ExecuteItem
  <2>3. /\ worker[w].pc = "execute" /\ worker'[w].action = worker[w].action
        /\ worker'[w].pc \in {"execute", "fail"}
        /\ \A v \in Workers \ {w} : Stays(v)
    BY <1>1, <1>14, <2>2, OneMoves DEF ExecuteItem, TypeOK, WorkerState
  <2>4. Moves(w)
    BY <2>3 DEF OnCard
  <2> HIDE DEF Moves, Stays, CardsStay
  <2> QED BY <1>3, <2>1, <2>3, <2>4
<1>15. ASSUME ExpireStale \/ Tick \/ UNCHANGED vars PROVE ExpirySeen'
  <2>1. (now' = now \/ now' = now + 1) /\ CardsStay
    BY <1>15 DEF ExpireStale, Tick, vars, cardVars
  <2>2. \A v \in Workers : Moves(v)
    BY <1>1, <1>15 DEF ExpireStale, Tick, vars
  <2> HIDE DEF Moves, CardsStay
  <2> QED BY <1>2, <2>1, <2>2
<1>16. ASSUME NEW w \in Workers, ConfirmStep(w) PROVE ExpirySeen'
  BY <1>11, <1>12, <1>13, <1>14, <1>16 DEF ConfirmStep
<1>17. ASSUME NEW w \in ChatWorkers, ProposalStep(w) PROVE ExpirySeen'
  BY <1>7, <1>8, <1>9, <1>17 DEF ProposalStep
<1> QED
  BY ONLY [Next]_vars, <1>6, <1>10, <1>12, <1>15, <1>16, <1>17 DEF Next

LEMMA ExpirySeenInit == Init => ExpirySeen
BY DEF Init, ExpirySeen, Idle, Request, OnCard

-----------------------------------------------------------------------------

\* The initial states map to the initial state of Approval.
LEMMA RefinesInit == Init => A!Init
BY DEF Init, A!Init, Outcome, OutcomeOf

\* The outcome of a card, status by status.
Reads(s, o) ==
  \A a \in Actions :
    /\ s[a] = "none" <=> o[a] = "none"
    /\ s[a] = "PENDING" <=> o[a] = "open"
    /\ s[a] = "EXECUTING" <=> o[a] = "approved"
    /\ s[a] = "EXECUTED" <=> o[a] = "done"
    /\ s[a] = "FAILED" <=> o[a] = "failed"
    /\ s[a] = "CANCELLED" <=> o[a] = "withdrawn"
    /\ s[a] = "EXPIRED" <=> o[a] = "lapsed"

LEMMA OutcomeReads == TypeOK => Reads(status, Outcome)
BY DEF TypeOK, Reads, Outcome, OutcomeOf, Statuses, Resolved

LEMMA OutcomeReadsNext == TypeOK' => Reads(status', Outcome')
BY DEF TypeOK, Reads, Outcome, OutcomeOf, Statuses, Resolved

\* Where statuses stay the outcomes do.
LEMMA OutcomeStays ==
  \A a \in Actions : status'[a] = status[a] => Outcome'[a] = Outcome[a]
BY DEF Outcome

LEMMA OutcomeType ==
  Outcome = [a \in Actions |-> Outcome[a]] /\ Outcome' = [a \in Actions |-> Outcome'[a]]
BY DEF Outcome

\* A step that touches no clock, status, deadline, size or effect stutters.
LEMMA Stutters ==
  ASSUME UNCHANGED <<now, status, expiresAt, size, ran>> PROVE UNCHANGED A!vars
BY DEF A!vars, Outcome

\* Closing a set of open cards closes them in Approval.
LEMMA RefinesClose ==
  ASSUME TypeOK, TypeOK', UNCHANGED <<now, expiresAt, size, ran>>,
         NEW S \in SUBSET Actions, \A a \in S : status[a] = "PENDING",
         \A a \in Actions \ S : status'[a] = status[a]
  PROVE  /\ (\A a \in S : status'[a] = "CANCELLED") => A!Close(S, "withdrawn")
         /\ (\A a \in S : status'[a] = "EXPIRED") => A!Close(S, "lapsed")
         /\ (\A a \in S : status'[a] = "EXECUTING") => A!Close(S, "approved")
<1>1. \A a \in S : A!Open(a)
  BY OutcomeReads DEF Reads, A!Open
<1>2. ASSUME NEW s, NEW o, \A a \in S : Outcome'[a] = o
      PROVE  A!Close(S, o)
  <2>1. Outcome' = [a \in Actions |-> IF a \in S THEN o ELSE Outcome[a]]
    BY <1>2, OutcomeStays, OutcomeType
  <2> QED BY <1>1, <2>1 DEF A!Close
<1> QED BY <1>2, OutcomeReadsNext DEF Reads

\* Steps of the detailed flow that are steps of Approval.
LEMMA RefinesCreate ==
  ASSUME TypeOK, TypeOK', NEW w \in ChatWorkers, NEW a \in Actions, NEW n \in Items,
         CreateCard(w, a, n)
  PROVE  A!Propose(a, n)
<1>1. status[a] = "none" /\ status'[a] = "PENDING"
  BY DEF CreateCard, TypeOK
<1>2. Outcome[a] = "none" /\ Outcome'[a] = "open"
  BY <1>1, OutcomeReads, OutcomeReadsNext DEF Reads
<1>3. \A b \in Actions \ {a} : Outcome'[b] = Outcome[b]
  BY OutcomeStays DEF CreateCard, TypeOK
<1>4. Outcome' = [Outcome EXCEPT ![a] = "open"]
  BY <1>2, <1>3, OutcomeType
<1> QED BY <1>2, <1>4 DEF CreateCard, A!Propose

LEMMA RefinesClaim ==
  ASSUME IInv, TypeOK', NEW w \in Workers, Claim(w)
  PROVE  \E a \in Actions : A!Approve(a) \/ A!Withdraw({a})
<1> DEFINE a == worker[w].action
<1>1. a \in Actions /\ status[a] = "PENDING" /\ now < expiresAt[a]
  BY PendingActionAssumption DEF Claim, Claimable, IInv, Targets, OnCard, TypeOK
<1>2. /\ UNCHANGED <<now, expiresAt, size, ran>>
      /\ \A b \in Actions \ {a} : status'[b] = status[b]
      /\ status'[a] = "EXECUTING" \/ status'[a] = "CANCELLED"
  BY <1>1 DEF Claim, cardVars, IInv, TypeOK
<1> HIDE DEF a
<1>3. A!Close({a}, "approved") \/ A!Close({a}, "withdrawn")
  BY <1>1, <1>2, RefinesClose DEF IInv
<1> QED BY <1>1, <1>3 DEF A!Approve, A!Withdraw, A!Close

LEMMA RefinesExecute ==
  ASSUME IInv, NEW w \in Workers, ExecuteItem(w)
  PROVE  UNCHANGED A!vars \/ \E a \in Actions, i \in Items : A!RunItem(a, i)
<1> DEFINE a == worker[w].action
           i == worker[w].done + 1
<1>1. CASE UNCHANGED ran
  BY <1>1, Stutters DEF ExecuteItem, cardVars
<1>2. CASE ran' = [ran EXCEPT ![a][i] = @ + 1]
  <2>1. a \in Actions /\ worker[w].done \in 0..MaxItems /\ Executing(w, a)
    BY DEF ExecuteItem, IInv, TypeOK, WorkerState, Targets, OnCard, Executing
  <2>2. worker[w].done < size[a] /\ size[a] \in 0..MaxItems
    BY <2>1 DEF ExecuteItem, MoreItems, IInv, TypeOK
  <2>3. i \in Items /\ i <= size[a]
    BY <2>1, <2>2, PendingActionAssumption DEF Items
  <2>4. worker[w].pc = "execute"
    BY DEF ExecuteItem
  <2>5. \A j \in Items : ran[a][j] = IF j < i THEN 1 ELSE 0
    <3> SUFFICES ASSUME NEW j \in Items PROVE ran[a][j] = IF j < i THEN 1 ELSE 0
      OBVIOUS
    <3>1. CASE j <= worker[w].done
      BY <2>1, <3>1 DEF IInv, Progress, Items
    <3>2. CASE j > worker[w].done
      BY <2>1, <2>4, <3>2 DEF IInv, Progress, Items
    <3> QED BY <2>1, <3>1, <3>2 DEF Items
  <2>6. ran[a][i] = 0
    BY <2>3, <2>5, <2>1
  <2>7. Outcome[a] = "approved"
    BY <2>1, OutcomeReads DEF IInv, Ownership, Reads
  <2>8. UNCHANGED <<now, Outcome, expiresAt, size>>
    BY DEF ExecuteItem, cardVars, Outcome
  <2> HIDE DEF a, i
  <2>9. ran' = [ran EXCEPT ![a][i] = 1]
    BY <1>2, <2>6
  <2> QED BY <2>1, <2>3, <2>5, <2>7, <2>8, <2>9 DEF A!RunItem
<1> QED BY <1>1, <1>2 DEF ExecuteItem

LEMMA RefinesRecord ==
  ASSUME IInv, TypeOK', NEW w \in Workers, RecordFailure(w) \/ RecordSuccess(w)
  PROVE  \E a \in Actions : A!Finish(a)
<1> DEFINE a == worker[w].action
<1>1. a \in Actions /\ Executing(w, a)
  BY DEF RecordFailure, RecordSuccess, IInv, Targets, OnCard, Executing
<1>2. /\ UNCHANGED <<now, expiresAt, size, ran>>
      /\ \A b \in Actions \ {a} : status'[b] = status[b]
      /\ \/ status'[a] = "FAILED"
         \/ status'[a] = "EXECUTED" /\ worker[w].done = size[a]
  BY <1>1 DEF RecordFailure, RecordSuccess, cardVars, IInv, TypeOK
<1> HIDE DEF a
<1>3. Outcome[a] = "approved"
  BY <1>1, OutcomeReads DEF IInv, Ownership, Reads
<1>4. \A b \in Actions \ {a} : Outcome'[b] = Outcome[b]
  BY <1>2, OutcomeStays
<1>5. CASE status'[a] = "FAILED"
  <2>1. Outcome' = [Outcome EXCEPT ![a] = "failed"]
    BY <1>1, <1>4, <1>5, OutcomeType, OutcomeReadsNext DEF Reads
  <2> QED BY <1>1, <1>2, <1>3, <2>1 DEF A!Finish
<1>6. CASE status'[a] = "EXECUTED" /\ worker[w].done = size[a]
  <2>1. Outcome' = [Outcome EXCEPT ![a] = "done"]
    BY <1>1, <1>4, <1>6, OutcomeType, OutcomeReadsNext DEF Reads
  <2>2. \A i \in Items : i <= size[a] => ran[a][i] = 1
    BY <1>1, <1>6 DEF IInv, Progress
  <2> QED BY <1>1, <1>2, <1>3, <2>1, <2>2 DEF A!Finish
<1> QED BY <1>2, <1>5, <1>6

\* Every step of the detailed flow is a step of Approval or stutters.
LEMMA RefinesStep ==
  ASSUME IInv, ExpirySeen, [Next]_vars PROVE [A!Next]_(A!vars)
<1> USE DEF A!Next
<1>0. TypeOK /\ TypeOK' /\ \A w \in ChatWorkers : w \in Workers
  BY TypeStep DEF IInv, Workers
<1>1. ASSUME NEW w \in ChatWorkers, ChatArrives(w) PROVE UNCHANGED A!vars
  BY <1>1, Stutters DEF ChatArrives, ChatProposes, ChatReplies, cardVars
<1>2. ASSUME NEW w \in ChatWorkers, Supersede(w)
      PROVE  \E S \in SUBSET Actions : A!Withdraw(S)
  <2> DEFINE S == Superseded(worker[w].conversation)
  <2>1. /\ S \in SUBSET Actions
        /\ \A a \in S : status[a] = "PENDING" /\ status'[a] = "CANCELLED"
        /\ \A a \in Actions \ S : status'[a] = status[a]
        /\ UNCHANGED <<now, expiresAt, size, ran>>
    BY <1>2 DEF Supersede, Superseded, Pending, cardVars
  <2> HIDE DEF S
  <2> QED BY <1>0, <2>1, RefinesClose DEF A!Withdraw
<1>3. ASSUME NEW w \in ChatWorkers, NEW a \in Actions, NEW n \in Items, CreateCard(w, a, n)
      PROVE  A!Propose(a, n)
  BY <1>0, <1>3, RefinesCreate
<1>4. ASSUME NEW w \in Workers,
             \/ \E a \in Actions, yes \in BOOLEAN : ConfirmRequested(w, a, yes)
             \/ NotifyCard(w) \/ ConfirmReads(w) \/ ClaimLost(w) \/ RecordOutcome(w) \/ Crash(w)
      PROVE  UNCHANGED A!vars
  BY <1>4, Stutters
  DEF ConfirmRequested, NotifyCard, ConfirmReads, ClaimLost, RecordOutcome, Crash, cardVars
<1>5. ASSUME NEW w \in Workers, ConfirmExpires(w)
      PROVE  UNCHANGED A!vars \/ \E S \in SUBSET Actions : A!Lapse(S)
  <2> DEFINE a == worker[w].action
  <2>1. a \in Actions /\ expiresAt[a] <= now
    BY <1>5 DEF ConfirmExpires, IInv, Targets, OnCard, ExpirySeen
  <2>2. /\ \A b \in Actions \ {a} : status'[b] = status[b]
        /\ status'[a] = IF status[a] = "PENDING" THEN "EXPIRED" ELSE status[a]
        /\ UNCHANGED <<now, expiresAt, size, ran>>
        /\ status' \in [Actions -> Statuses] /\ status \in [Actions -> Statuses]
    BY <1>0, <1>5, <2>1 DEF ConfirmExpires, cardVars, TypeOK
  <2> HIDE DEF a
  <2>3. CASE status[a] = "PENDING"
    <3>1. A!Close({a}, "lapsed")
      BY <1>0, <2>1, <2>2, <2>3, RefinesClose
    <3> QED BY <2>1, <3>1 DEF A!Lapse
  <2>4. CASE status[a] # "PENDING"
    <3>1. status' = status
      BY <2>1, <2>2, <2>4
    <3> QED BY <2>2, <3>1, Stutters
  <2> QED BY <2>3, <2>4
<1>6. ASSUME ExpireStale PROVE \E S \in SUBSET Actions : A!Lapse(S)
  <2> DEFINE S == {a \in Actions : Stale(a)}
  <2>1. /\ S \in SUBSET Actions
        /\ \A a \in S : status[a] = "PENDING" /\ status'[a] = "EXPIRED" /\ expiresAt[a] <= now
        /\ \A a \in Actions \ S : status'[a] = status[a]
        /\ UNCHANGED <<now, expiresAt, size, ran>>
    BY <1>0, <1>6, PendingActionAssumption DEF ExpireStale, Stale, cardVars, TypeOK
  <2> HIDE DEF S
  <2>2. A!Close(S, "lapsed")
    BY <1>0, <2>1, RefinesClose
  <2> QED BY <2>1, <2>2 DEF A!Lapse
<1>7. ASSUME Tick PROVE A!Tick
  BY <1>7 DEF Tick, A!Tick, cardVars, Outcome
<1>8. ASSUME UNCHANGED vars PROVE UNCHANGED A!vars
  BY <1>8, Stutters DEF vars, cardVars
<1>9. ASSUME NEW w \in Workers, ConfirmStep(w) PROVE [A!Next]_(A!vars)
  <2>1. CASE Claim(w)
    BY <1>0, <2>1, RefinesClaim
  <2>2. CASE ExecuteItem(w)
    BY <2>2, RefinesExecute
  <2>3. CASE RecordFailure(w) \/ RecordSuccess(w)
    BY <1>0, <2>3, RefinesRecord
  <2> QED BY <1>4, <1>5, <1>9, <2>1, <2>2, <2>3 DEF ConfirmStep
<1>10. ASSUME NEW w \in ChatWorkers, ProposalStep(w) PROVE [A!Next]_(A!vars)
  BY <1>0, <1>2, <1>3, <1>4, <1>10 DEF ProposalStep
<1> QED
  BY ONLY <1>0, [Next]_vars, <1>1, <1>4, <1>6, <1>7, <1>8, <1>9, <1>10 DEF Next

\* Concurrent approvals, cancels, corrections, sweeps and crashes, on any
\* number of cards and requests, implement the approval the owner is promised.
THEOREM Refinement == Spec => ImplementsApproval
<1>1. Spec => [](IInv /\ ExpirySeen)
  BY InitInv, InvStep, ExpirySeenInit, ExpirySeenStep, PTL DEF Spec
<1> QED BY <1>1, RefinesInit, RefinesStep, PTL DEF Spec, ImplementsApproval, A!Spec

-----------------------------------------------------------------------------
(* A correction withdraws what it corrects.                                *)

\* No two requests of the owner's chats run at once.
OneChat == \A v, w \in ChatWorkers : v = w

\* The card that still waits in a conversation is its newest, and none waits
\* between the withdrawal of the old proposal and the new one.
Newest ==
  /\ \A a \in Actions : serial[a] <= Cardinality(Created)
  /\ \A a, b \in Actions :
       /\ status[a] = "PENDING" /\ b \in Created
       /\ conversation[b] = conversation[a]
       => serial[b] <= serial[a]
  /\ \A w \in ChatWorkers :
       worker[w].pc = "create" => Pending(worker[w].conversation) = {}

\* A step that makes no card keeps Newest.
LEMMA NewestFrame ==
  ASSUME IInv, Newest, UNCHANGED <<serial, conversation>>,
         \A a \in Actions : /\ status[a] = "none" <=> status'[a] = "none"
                            /\ status'[a] = "PENDING" => status[a] = "PENDING",
         \A w \in ChatWorkers :
           worker'[w].pc = "create" =>
             \/ /\ worker[w].pc = "create"
                /\ worker'[w].conversation = worker[w].conversation
             \/ \A a \in Actions : /\ status'[a] = "PENDING"
                                   => conversation[a] # worker'[w].conversation
  PROVE  Newest'
<1>1. Created' = Created
  BY DEF Created
<1>2. Cardinality(Created)' = Cardinality(Created)
  BY <1>1
<1>3. (\A a \in Actions : serial[a] <= Cardinality(Created))'
  BY <1>2 DEF Newest
<1>4. (\A a, b \in Actions :
         /\ status[a] = "PENDING" /\ b \in Created
         /\ conversation[b] = conversation[a]
         => serial[b] <= serial[a])'
  BY <1>1 DEF Newest
<1>5. (\A w \in ChatWorkers :
         worker[w].pc = "create" => Pending(worker[w].conversation) = {})'
  BY DEF Newest, Pending
<1> QED BY <1>3, <1>4, <1>5 DEF Newest

LEMMA NewestCreate ==
  ASSUME OneChat, IInv, Newest, NEW w \in ChatWorkers, NEW a \in Actions,
         NEW n \in Items, CreateCard(w, a, n)
  PROVE  Newest'
<1> DEFINE c == worker[w].conversation
           last == Cardinality(Created)
<1>1. /\ TypeOK /\ w \in Workers /\ worker[w].pc = "create"
      /\ Pending(c) = {} /\ status[a] = "none"
  BY DEF IInv, Newest, CreateCard, Workers
<1>2. Created \subseteq Actions /\ IsFiniteSet(Created) /\ a \notin Created
  BY <1>1, PendingActionAssumption, FS_Subset DEF Created
<1>3. Created' = Created \cup {a}
  BY <1>1 DEF Created, CreateCard, TypeOK
<1>4. Cardinality(Created)' = last + 1 /\ last \in Nat
  BY <1>2, <1>3, FS_AddElement, FS_CardinalityType
<1>5. /\ status' = [status EXCEPT ![a] = "PENDING"]
      /\ conversation' = [conversation EXCEPT ![a] = c]
      /\ serial' = [serial EXCEPT ![a] = last + 1]
  BY DEF CreateCard
<1> HIDE DEF last
<1>6. /\ \A b \in Actions : serial[b] \in Nat /\ serial[b] <= last
      /\ serial'[a] = last + 1
      /\ \A b \in Actions \ {a} : /\ serial'[b] = serial[b]
                                  /\ status'[b] = status[b]
                                  /\ conversation'[b] = conversation[b]
      /\ conversation'[a] = c /\ status'[a] = "PENDING"
  BY <1>1, <1>5 DEF TypeOK, Newest, last
<1> HIDE DEF c
<1>7. (\A b \in Actions : serial[b] <= Cardinality(Created))'
  BY <1>4, <1>6
<1>8. ASSUME NEW x \in Actions, NEW y \in Actions, status'[x] = "PENDING",
             y \in Created', conversation'[y] = conversation'[x]
      PROVE  serial'[y] <= serial'[x]
  <2>1. CASE x = a
    BY <1>4, <1>6, <2>1
  <2>2. CASE x # a
    <3>1. status[x] = "PENDING" /\ conversation'[x] = conversation[x]
      BY <1>6, <1>8, <2>2
    <3>2. y # a
      BY <1>1, <1>6, <1>8, <3>1 DEF Pending
    <3>3. y \in Created /\ conversation[y] = conversation[x]
      BY <1>3, <1>6, <1>8, <3>1, <3>2
    <3> QED BY <1>6, <2>2, <3>1, <3>2, <3>3 DEF Newest
  <2> QED BY <2>1, <2>2
<1>9. ASSUME NEW v \in ChatWorkers PROVE worker'[v].pc # "create"
  BY <1>1 DEF OneChat, CreateCard, Becomes, Request, Confirming, TypeOK
<1> QED BY <1>7, <1>8, <1>9 DEF Newest

LEMMA NewestStep ==
  ASSUME OneChat, IInv, Newest, [Next]_vars PROVE Newest'
<1> DEFINE Quiet ==
             /\ UNCHANGED <<serial, conversation>>
             /\ \A a \in Actions :
                  /\ status[a] = "none" <=> status'[a] = "none"
                  /\ status'[a] = "PENDING" => status[a] = "PENDING"
           Same(v) ==
             worker'[v].pc = "create" =>
               /\ worker[v].pc = "create"
               /\ worker'[v].conversation = worker[v].conversation
<1>0. /\ TypeOK /\ \A w \in ChatWorkers : w \in Workers
      /\ \A r \in {Idle} : r.pc # "create"
      /\ \A c : Proposing(c).pc # "create"
      /\ \A a, yes : Confirming(a, yes).pc # "create"
  BY DEF IInv, Workers, Idle, Proposing, Confirming, Request
<1>1. ASSUME Quiet, \A v \in Workers : Same(v) PROVE Newest'
  BY <1>0, <1>1, NewestFrame
<1>2. ASSUME UNCHANGED <<serial, conversation, status>> PROVE Quiet
  BY <1>2
<1>3. ASSUME NEW w \in Workers, NEW r, Becomes(w, r), r.pc # "create"
      PROVE  \A v \in Workers : Same(v)
  BY <1>0, <1>3 DEF Becomes, TypeOK
<1>4. ASSUME NEW w \in Workers, NEW p, GoesTo(w, p), p # "create"
      PROVE  \A v \in Workers : Same(v)
  BY <1>0, <1>4 DEF GoesTo, TypeOK, WorkerState
<1>5. ASSUME NEW w \in ChatWorkers, Supersede(w) PROVE Newest'
  <2> DEFINE c == worker[w].conversation
  <2>1. /\ status' = [a \in Actions |-> IF a \in Pending(c) THEN "CANCELLED"
                                        ELSE status[a]]
        /\ GoesTo(w, "create") /\ UNCHANGED <<serial, conversation>>
    BY <1>5 DEF Supersede, Superseded, cardVars
  <2>2. Quiet
    BY <1>0, <2>1 DEF Pending, TypeOK
  <2>3. worker'[w].conversation = c /\ \A v \in Workers \ {w} : worker'[v] = worker[v]
    BY <1>0, <2>1 DEF GoesTo, TypeOK, WorkerState
  <2>4. \A a \in Actions : status'[a] = "PENDING" => conversation[a] # c
    BY <2>1 DEF Pending
  <2> QED BY <1>0, <2>2, <2>3, <2>4, NewestFrame
<1>6. ASSUME NEW w \in ChatWorkers, ChatArrives(w) PROVE Newest'
  <2>1. UNCHANGED <<serial, conversation, status>>
    BY <1>6 DEF ChatArrives, ChatProposes, ChatReplies, cardVars
  <2>2. \A v \in Workers : Same(v)
    <3> HIDE DEF Same
    <3> QED BY <1>0, <1>3, <1>6 DEF ChatArrives, ChatProposes, ChatReplies
  <2> HIDE DEF Same, Quiet
  <2> QED BY <1>1, <1>2, <2>1, <2>2
<1>7. ASSUME NEW w \in ChatWorkers, NotifyCard(w) PROVE Newest'
  <2>1. UNCHANGED <<serial, conversation, status>>
    BY <1>7 DEF NotifyCard, cardVars
  <2>2. \A v \in Workers : Same(v)
    <3> HIDE DEF Same
    <3> QED BY <1>0, <1>3, <1>7 DEF NotifyCard
  <2> HIDE DEF Same, Quiet
  <2> QED BY <1>1, <1>2, <2>1, <2>2
<1>8. ASSUME NEW w \in Workers, NEW a \in Actions, NEW yes \in BOOLEAN,
             ConfirmRequested(w, a, yes)
      PROVE  Newest'
  <2>1. UNCHANGED <<serial, conversation, status>>
    BY <1>8 DEF ConfirmRequested, cardVars
  <2>2. \A v \in Workers : Same(v)
    <3> HIDE DEF Same
    <3> QED BY <1>0, <1>3, <1>8 DEF ConfirmRequested
  <2> HIDE DEF Same, Quiet
  <2> QED BY <1>1, <1>2, <2>1, <2>2
<1>9. ASSUME NEW w \in Workers, ConfirmStep(w) \/ Crash(w) PROVE Newest'
  <2>1. \A v \in Workers : Same(v)
    <3>1. CASE ExecuteItem(w)
      <4>1. \/ GoesTo(w, "fail")
            \/ worker' = [worker EXCEPT ![w].done = worker[w].done + 1]
        BY <3>1 DEF ExecuteItem
      <4>2. ASSUME worker' = [worker EXCEPT ![w].done = worker[w].done + 1]
            PROVE  \A v \in Workers : Same(v)
        BY <1>0, <4>2 DEF TypeOK, WorkerState
      <4> HIDE DEF Same
      <4> QED BY <1>4, <4>1, <4>2
    <3>2. CASE ~ExecuteItem(w)
      <4> HIDE DEF Same
      <4>1. \/ \E p \in {"expire", "claim", "execute", "outcome"} : GoesTo(w, p)
            \/ Becomes(w, Idle)
        BY <1>9, <3>2
        DEF ConfirmStep, ConfirmReads, ConfirmExpires, Claim, ClaimLost,
            RecordFailure, RecordSuccess, RecordOutcome, Crash
      <4> QED BY <1>0, <1>3, <1>4, <4>1
    <3> QED BY <3>1, <3>2
  <2>2. UNCHANGED <<serial, conversation>>
    BY <1>9
    DEF ConfirmStep, ConfirmReads, ConfirmExpires, Claim, ClaimLost, ExecuteItem,
        RecordFailure, RecordSuccess, RecordOutcome, Crash, cardVars
  <2>3. \/ UNCHANGED status
        \/ /\ worker[w].pc \in {"claim", "fail", "execute", "expire"}
           /\ \E s \in {"EXECUTING", "CANCELLED", "FAILED", "EXECUTED"} :
                status' = [status EXCEPT ![worker[w].action] = s]
           /\ \/ status[worker[w].action] = "PENDING"
              \/ worker[w].pc \in {"fail", "execute"}
        \/ ConfirmExpires(w)
    BY <1>9
    DEF ConfirmStep, ConfirmReads, Claim, ClaimLost, ExecuteItem, Claimable,
        RecordFailure, RecordSuccess, RecordOutcome, Crash
  <2>4. /\ worker[w].pc \in {"claim", "fail", "execute", "expire"} =>
             worker[w].action \in Actions
        /\ worker[w].pc \in {"fail", "execute"} =>
             status[worker[w].action] = "EXECUTING"
    BY DEF IInv, Targets, Ownership, Executing, OnCard
  <2>5. Quiet
    BY <1>0, <2>2, <2>3, <2>4 DEF TypeOK, ConfirmExpires
  <2> HIDE DEF Quiet, Same
  <2> QED BY <1>1, <2>1, <2>5
<1>10. ASSUME ExpireStale \/ Tick \/ UNCHANGED vars PROVE Newest'
  <2>1. Quiet /\ UNCHANGED worker
    BY <1>10 DEF ExpireStale, Stale, Tick, vars, cardVars
  <2> QED BY <1>1, <2>1
<1>11. ASSUME NEW w \in ChatWorkers, ProposalStep(w) PROVE Newest'
  BY <1>5, <1>7, <1>11, NewestCreate DEF ProposalStep
<1> QED BY ONLY [Next]_vars, <1>6, <1>8, <1>9, <1>10, <1>11 DEF Next

LEMMA NewestInit == Init => Newest
<1> SUFFICES ASSUME Init PROVE Newest
  OBVIOUS
<1>1. Created = {}
  BY DEF Init, Created
<1>2. Cardinality(Created) = 0
  BY <1>1, FS_EmptySet
<1>3. \A w \in ChatWorkers : worker[w].pc = "idle"
  BY DEF Init, Workers, Idle, Request
<1>4. \A a \in Actions : serial[a] = 0
  BY DEF Init
<1> QED BY <1>1, <1>2, <1>3, <1>4 DEF Newest

\* A correction withdraws the proposal before it: in a conversation whose
\* chats come one at a time, a card starts to execute only while it is the
\* newest (chat, confirm), however many confirm at once, and whatever stops.
THEOREM CorrectionsWithdraw ==
  ASSUME OneChat
  PROVE  Spec => SupersededNeverExecutes
<1>1. Spec => [](IInv /\ Newest)
  BY InitInv, InvStep, NewestInit, NewestStep, PTL DEF Spec
<1>2. Newest =>
        [\A a, b \in Actions :
           /\ status[a] = "PENDING" /\ status'[a] = "EXECUTING"
           /\ b \in Created /\ conversation[b] = conversation[a]
           => serial[b] <= serial[a]]_vars
  BY DEF Newest
<1> QED BY <1>1, <1>2, PTL DEF Spec, SupersededNeverExecutes

-----------------------------------------------------------------------------
(* What the assistant remembers.  A request that found no memory for its   *)
(* key still finds none when it inserts, unless another was inserted under *)
(* its eyes, which is known; and none was past the preference when all was *)
(* deleted with memory off.                                                *)

Spelled == [subject : Convs, spelling : Spellings]
Memory == [id : 1..MaxRows, subject : Convs, spelling : Spellings,
           status : {"ACTIVE", "ARCHIVED"}]
Asking == [pc : {"preference", "find", "insert"}, key : Spelled,
           status : {"ACTIVE", "ARCHIVED"}]

MemoryTyped ==
  /\ memories \subseteq Memory /\ made \in 0..MaxRows
  /\ \A m, n \in memories : m.id = n.id => m = n
  /\ \A m \in memories : m.id <= made
  /\ request \in [Actions -> Asking \cup {Memories!Idle}]
  /\ enabled \in BOOLEAN /\ cleared \in BOOLEAN
  /\ raced \subseteq Convs /\ strays \subseteq Actions
  /\ memoriesLeft.subjects \subseteq Convs
  /\ memoriesLeft \in [subjects : SUBSET Convs, steps : Nat]

FindsStill ==
  \A r \in Actions, m \in memories :
    request[r].pc = "insert" /\ m.subject = request[r].key.subject
      /\ m.status = "ACTIVE" => m.subject \in raced

OffIsOff ==
  cleared => /\ ~enabled
             /\ strays = {} => \A r \in Actions : request[r].pc \in {"idle", "preference"}

MemoryInv == /\ MemoryTyped /\ FindsStill /\ OffIsOff
             /\ Memories!OneTruth /\ Memories!StaysCleared

LEMMA MemoryInit == Memories!Init => MemoryInv
<1> SUFFICES ASSUME Memories!Init PROVE MemoryInv
  OBVIOUS
<1> USE MemoriesAssumption DEF Memories!MemoryAssumption, Memories!Init
<1>1. MemoryTyped
  <2>1. memoriesLeft \in [subjects : SUBSET Convs, steps : Nat]
    OBVIOUS
  <2>2. memoriesLeft.subjects \subseteq Convs
    BY <2>1
  <2>3. request \in [Actions -> Asking \cup {Memories!Idle}]
    OBVIOUS
  <2>4. enabled \in BOOLEAN /\ cleared \in BOOLEAN
    OBVIOUS
  <2>5. /\ memories \subseteq Memory /\ made \in 0..MaxRows
        /\ \A m, n \in memories : m.id = n.id => m = n
        /\ \A m \in memories : m.id <= made
        /\ raced \subseteq Convs /\ strays \subseteq Actions
    OBVIOUS
  <2> HIDE DEF Memories!Init, Memories!MemoryAssumption
  <2> QED BY <2>1, <2>2, <2>3, <2>4, <2>5 DEF MemoryTyped
<1>2. FindsStill /\ OffIsOff /\ Memories!OneTruth /\ Memories!StaysCleared
  BY DEF FindsStill, OffIsOff, Memories!OneTruth, Memories!StaysCleared,
     Memories!Active, Memories!Idle
<1> QED BY <1>1, <1>2 DEF MemoryInv

\* The looks at quota, preference and key.
LEMMA LooksStep ==
  ASSUME MemoryInv, NEW r \in Actions,
         Memories!Ask(r) \/ Memories!Preference(r) \/ Memories!Find(r)
  PROVE  MemoryInv'
<1> USE DEF MemoryInv
<1>1. UNCHANGED <<memories, enabled, made, memoriesLeft, raced, cleared, strays>>
  BY DEF Memories!Ask, Memories!Preference, Memories!Find, Memories!rows,
     Memories!history
<1>2. /\ request' \in [Actions -> Asking \cup {Memories!Idle}]
      /\ \A q \in Actions : q # r => request'[q] = request[q]
      /\ request'[r].pc = "insert" =>
           \A m \in memories :
             m.subject = request'[r].key.subject => m.status # "ACTIVE"
      /\ request'[r].pc \in {"find", "insert"} =>
           enabled \/ request[r].pc = "find"
  <2>1. CASE Memories!Ask(r)
    <3>1. PICK key \in Memories!Keys, s \in {"ACTIVE", "ARCHIVED"} :
            request' = [request EXCEPT ![r] =
                          [pc |-> "preference", key |-> key, status |-> s]]
      BY <2>1 DEF Memories!Ask
    <3>2. [pc |-> "preference", key |-> key, status |-> s] \in Asking
      BY DEF Memories!Keys, MemoryTyped, Asking, Spelled
    <3> QED BY <3>1, <3>2 DEF MemoryTyped
  <2>2. CASE Memories!Preference(r) \/ Memories!Find(r)
    <3>1. request[r] \in Asking
      BY <2>2 DEF MemoryTyped, Memories!Idle, Memories!Preference, Memories!Find
    <3>2. \/ request' = [request EXCEPT ![r] = Memories!Idle]
          \/ /\ request' = [request EXCEPT ![r].pc = "find"]
             /\ enabled /\ request[r].pc = "preference"
          \/ /\ request' = [request EXCEPT ![r].pc = "insert"]
             /\ request[r].pc = "find" /\ Memories!Known(request[r].key) = {}
      BY <2>2 DEF Memories!Preference, Memories!Find, Memories!GoesTo,
         Memories!Refused, Memories!Willing
    <3> QED BY <3>1, <3>2 DEF MemoryTyped, Asking, Memories!Idle, Memories!Known,
               Memories!Active
  <2> QED BY <2>1, <2>2
<1>3. MemoryTyped'
  BY <1>1, <1>2 DEF MemoryTyped, Memories!Idle
<1>4. FindsStill'
  BY <1>1, <1>2 DEF FindsStill
<1>5. OffIsOff'
  BY <1>1, <1>2 DEF OffIsOff, MemoryTyped, Asking, Memories!Idle
<1>6. Memories!OneTruth' /\ Memories!StaysCleared'
  BY <1>1 DEF Memories!OneTruth, Memories!Active, Memories!StaysCleared
<1> QED BY <1>3, <1>4, <1>5, <1>6

LEMMA InsertStep ==
  ASSUME MemoryInv, NEW r \in Actions, Memories!Insert(r)
  PROVE  MemoryInv'
<1> USE MemoriesAssumption DEF Memories!MemoryAssumption, MemoryInv
<1> DEFINE k == request[r].key
<1>1. /\ request[r] \in Asking /\ request[r].pc = "insert" /\ made < MaxRows
      /\ request' = [request EXCEPT ![r] = Memories!Idle]
      /\ UNCHANGED <<enabled, cleared, memoriesLeft, strays>>
  BY DEF MemoryTyped, Memories!Idle, Memories!Insert, Memories!Refused
<1>2. /\ request' \in [Actions -> Asking \cup {Memories!Idle}]
      /\ \A q \in Actions : request'[q] = request[q] \/ request'[q].pc = "idle"
      /\ request'[r].pc = "idle"
  BY <1>1 DEF MemoryTyped, Memories!Idle
<1>3. CASE UNCHANGED <<memories, made, raced>>
  <2>1. MemoryTyped'
    BY <1>1, <1>2, <1>3 DEF MemoryTyped, Memories!Idle
  <2>2. FindsStill' /\ OffIsOff'
    BY <1>1, <1>2, <1>3 DEF FindsStill, OffIsOff
  <2>3. Memories!OneTruth' /\ Memories!StaysCleared'
    BY <1>1, <1>3 DEF Memories!OneTruth, Memories!Active, Memories!StaysCleared
  <2> QED BY <2>1, <2>2, <2>3
<1>4. CASE ~UNCHANGED <<memories, made, raced>>
  <2>1. PICK n \in Memory :
          /\ memories' = memories \cup {n} /\ n.id = made + 1
          /\ n.subject = request[r].key.subject
    <3>1. [id |-> made + 1, subject |-> request[r].key.subject,
           spelling |-> request[r].key.spelling, status |-> request[r].status] \in Memory
      BY <1>1 DEF MemoryTyped, Asking, Spelled, Memory
    <3> QED BY <1>4, <3>1 DEF Memories!Insert
  <2>2. /\ made' = made + 1
        /\ raced' = IF Memories!Unaware(r, request[r].key.subject) = {} THEN raced
                    ELSE raced \cup {request[r].key.subject}
    BY <1>4 DEF Memories!Insert
  <2>3. raced \subseteq raced' /\ raced' \subseteq Convs
    BY <1>1, <2>2 DEF MemoryTyped, Asking, Spelled
  <2>4. MemoryTyped'
    <3>1. /\ memories' \subseteq Memory /\ made' \in 0..MaxRows
          /\ \A m \in memories' : m.id <= made'
      BY <1>1, <2>1, <2>2 DEF MemoryTyped, Memory
    <3>2. \A m, o \in memories' : m.id = o.id => m = o
      BY <1>1, <2>1 DEF MemoryTyped, Memory
    <3> QED BY <1>1, <1>2, <2>3, <3>1, <3>2 DEF MemoryTyped, Memories!Idle
  <2>5. FindsStill'
    <3> SUFFICES ASSUME NEW q \in Actions, NEW m \in memories', request'[q].pc = "insert",
                        m.subject = request'[q].key.subject, m.status = "ACTIVE"
                 PROVE  m.subject \in raced'
      BY DEF FindsStill
    <3>1. q # r /\ request'[q] = request[q]
      BY <1>2
    <3>2. CASE m \in memories
      BY <2>3, <3>1, <3>2 DEF FindsStill
    <3>3. CASE m = n
      <4>1. q \in Memories!Unaware(r, request[r].key.subject)
        BY <2>1, <3>1, <3>3 DEF Memories!Unaware
      <4> QED BY <2>1, <2>2, <3>3, <4>1
    <3> QED BY <2>1, <3>2, <3>3
  <2>6. OffIsOff' /\ (strays = {} => ~cleared)
    BY <1>1, <1>2 DEF OffIsOff
  <2>7. Memories!OneTruth'
    <3> SUFFICES ASSUME NEW m \in memories', NEW o \in memories', m.status = "ACTIVE",
                        o.status = "ACTIVE", m.subject = o.subject,
                        m.subject \notin raced'
                 PROVE  m = o
      BY DEF Memories!OneTruth, Memories!Active
    <3>1. \A x \in memories : x.subject = n.subject /\ x.status = "ACTIVE" =>
                              x.subject \in raced
      BY <1>1, <2>1 DEF FindsStill
    <3> QED BY <2>1, <2>3, <3>1 DEF Memories!OneTruth, Memories!Active
  <2>8. Memories!StaysCleared'
    BY <1>1, <2>6 DEF Memories!StaysCleared
  <2> QED BY <2>4, <2>5, <2>6, <2>7, <2>8
<1> QED BY <1>3, <1>4

LEMMA Budgeted ==
  ASSUME MemoryInv, Memories!Budget
  PROVE  memoriesLeft' \in [subjects : SUBSET Convs, steps : Nat]
<1> DEFINE n == memoriesLeft.steps - 1
<1>1. n \in Nat /\ memoriesLeft \in [subjects : SUBSET Convs, steps : Nat]
  BY DEF MemoryInv, MemoryTyped, Memories!Budget
<1>2. memoriesLeft' = [memoriesLeft EXCEPT !.steps = n]
  BY DEF Memories!Budget
<1> HIDE DEF n
<1> QED BY <1>1, <1>2

\* A memory is renamed, archived, made active, or deleted.
LEMMA ChangeStep ==
  ASSUME MemoryInv, NEW m \in memories,
         Memories!Correct(m) \/ Memories!SetStatus(m) \/ Memories!Delete(m)
  PROVE  MemoryInv'
<1> USE MemoriesAssumption DEF Memories!MemoryAssumption, MemoryInv
<1>1. UNCHANGED <<enabled, request, made, cleared, strays>>
  BY DEF Memories!Correct, Memories!SetStatus, Memories!Delete, Memories!history
<1>2. memoriesLeft' \in [subjects : SUBSET Convs, steps : Nat]
  BY Budgeted DEF Memories!Correct, Memories!SetStatus, Memories!Delete
<1>3. \/ memories' = memories \ {m} /\ raced' = raced
      \/ \E n \in Memory :
           /\ memories' = (memories \ {m}) \cup {n} /\ n.id = m.id
           /\ raced \subseteq raced' /\ raced' \subseteq Convs
           /\ \/ n.subject \in raced'
              \/ n.subject = m.subject /\ n.status = m.status
              \/ n.status # "ACTIVE"
  <2>1. CASE Memories!Delete(m)
    BY <2>1 DEF Memories!Delete, Memories!history
  <2>2. m \in Memory
    BY DEF MemoryTyped
  <2>3. CASE Memories!Correct(m)
    <3>1. PICK key \in Memories!Keys :
            /\ memories' = (memories \ {m}) \cup
                 {[m EXCEPT !.subject = key.subject, !.spelling = key.spelling]}
            /\ raced' = IF key.subject = m.subject THEN raced
                        ELSE raced \cup {key.subject}
      BY <2>3 DEF Memories!Correct
    <3>2. key \in Spelled
      BY DEF Memories!Keys, MemoryTyped, Spelled
    <3> DEFINE n == [m EXCEPT !.subject = key.subject, !.spelling = key.spelling]
    <3>3. /\ n \in Memory /\ n.id = m.id /\ n.subject = key.subject
          /\ n.status = m.status
      BY <2>2, <3>2 DEF Memory, Spelled
    <3>4. raced' \subseteq Convs
      BY <3>1, <3>2 DEF MemoryTyped, Spelled
    <3> HIDE DEF n
    <3> QED BY <3>1, <3>3, <3>4 DEF n
  <2>4. CASE Memories!SetStatus(m)
    <3>1. PICK s \in {"ACTIVE", "ARCHIVED"} :
            /\ memories' = (memories \ {m}) \cup {[m EXCEPT !.status = s]}
            /\ raced' = IF s = "ACTIVE" THEN raced \cup {m.subject} ELSE raced
      BY <2>4 DEF Memories!SetStatus
    <3> DEFINE n == [m EXCEPT !.status = s]
    <3>2. n \in Memory /\ n.id = m.id /\ n.subject = m.subject /\ n.status = s
      BY <2>2 DEF Memory
    <3>3. raced' \subseteq Convs /\ raced \subseteq raced'
      BY <2>2, <3>1 DEF MemoryTyped, Memory
    <3> HIDE DEF n
    <3> QED BY <3>1, <3>2, <3>3 DEF n
  <2> QED BY <2>1, <2>3, <2>4
<1>4. CASE memories' = memories \ {m} /\ raced' = raced
  <2>1. MemoryTyped'
    BY <1>1, <1>2, <1>4 DEF MemoryTyped, Memories!Idle
  <2>2. FindsStill' /\ OffIsOff'
    BY <1>1, <1>4 DEF FindsStill, OffIsOff
  <2>3. Memories!OneTruth' /\ Memories!StaysCleared'
    BY <1>1, <1>4 DEF Memories!OneTruth, Memories!Active, Memories!StaysCleared
  <2> QED BY <2>1, <2>2, <2>3
<1>5. CASE ~(memories' = memories \ {m} /\ raced' = raced)
  <2>1. PICK n \in Memory :
           /\ memories' = (memories \ {m}) \cup {n} /\ n.id = m.id
           /\ raced \subseteq raced' /\ raced' \subseteq Convs
           /\ \/ n.subject \in raced'
              \/ n.subject = m.subject /\ n.status = m.status
              \/ n.status # "ACTIVE"
    BY <1>3, <1>5
  <2>2. MemoryTyped'
    BY <1>1, <1>2, <2>1 DEF MemoryTyped, Memories!Idle
  <2>3. FindsStill'
    BY <1>1, <2>1 DEF FindsStill
  <2>4. OffIsOff' /\ Memories!StaysCleared'
    BY <1>1 DEF OffIsOff, Memories!StaysCleared
  <2>5. Memories!OneTruth'
    BY <2>1 DEF Memories!OneTruth, Memories!Active
  <2> QED BY <2>2, <2>3, <2>4, <2>5
<1> QED BY <1>4, <1>5

LEMMA MemoryStep == ASSUME MemoryInv, [Memories!Next]_(Memories!vars) PROVE MemoryInv'
<1> USE MemoriesAssumption DEF Memories!MemoryAssumption, MemoryInv
<1>1. CASE Memories!DeleteAll
  <2>1. /\ memories' = {} /\ cleared' = ~enabled
        /\ strays' = strays \cup Memories!Past
        /\ UNCHANGED <<enabled, request, made, raced>>
    BY <1>1 DEF Memories!DeleteAll
  <2>2. memoriesLeft' \in [subjects : SUBSET Convs, steps : Nat]
    BY <1>1, Budgeted DEF Memories!DeleteAll
  <2>3. MemoryTyped'
    BY <2>1, <2>2 DEF MemoryTyped, Memories!Idle, Memories!Past
  <2>4. OffIsOff'
    <3>1. \A r \in Actions : \/ r \in Memories!Past
                             \/ request[r].pc \in {"idle", "preference"}
      BY DEF MemoryTyped, Memories!Past, Memories!Idle, Asking
    <3> QED BY <2>1, <3>1 DEF OffIsOff
  <2> QED BY <2>1, <2>3, <2>4 DEF FindsStill, Memories!OneTruth, Memories!Active,
             Memories!StaysCleared
<1>2. CASE Memories!SetPreference
  <2>1. /\ enabled' = ~enabled /\ cleared' = FALSE
        /\ UNCHANGED <<memories, request, made, raced, strays>>
    BY <1>2 DEF Memories!SetPreference
  <2>2. memoriesLeft' \in [subjects : SUBSET Convs, steps : Nat]
    BY <1>2, Budgeted DEF Memories!SetPreference
  <2>3. MemoryTyped'
    BY <2>1, <2>2 DEF MemoryTyped, Memories!Idle
  <2> QED BY <2>1, <2>3 DEF OffIsOff, FindsStill, Memories!OneTruth, Memories!Active,
             Memories!StaysCleared
<1>3. CASE UNCHANGED Memories!vars
  <2>1. UNCHANGED <<memories, enabled, request, made, memoriesLeft, raced, cleared,
                    strays>>
    BY <1>3 DEF Memories!vars, Memories!rows, Memories!history
  <2>2. MemoryTyped'
    BY <2>1 DEF MemoryTyped, Memories!Idle
  <2> QED BY <2>1, <2>2 DEF OffIsOff, FindsStill, Memories!OneTruth, Memories!Active,
             Memories!StaysCleared
<1> QED BY <1>1, <1>2, <1>3, LooksStep, InsertStep, ChangeStep DEF Memories!Next

LEMMA MemoryPromised ==
  ASSUME MemoryInv
  PROVE  Memories!TypeOK /\ Memories!OneTruth /\ Memories!StaysCleared
BY DEF MemoryInv, MemoryTyped, Memory, Asking, Memories!Idle, Memories!TypeOK

\* There is one active memory for a key, in whatever spelling, but where two
\* requests raced or an update looked at nothing, and a user who turns memory
\* off and clears it has none from then on, but for requests that were past
\* the preference (memory.service.ts).
THEOREM MemoryIsKept == MCSpec => []MemoryKept
<1>1. MCInit => MemoryInv
  BY MemoryInit DEF MCInit
<1>2. MemoryInv /\ [MCNext]_<<part, vars, chat, memory>> => MemoryInv'
  <2>1. ASSUME UNCHANGED memory PROVE UNCHANGED Memories!vars
    BY <2>1 DEF memory, Memories!vars, Memories!rows, Memories!history
  <2> QED BY <2>1, MemoryStep DEF MCNext
<1>3. MemoryInv => MemoryKept
  BY MemoryPromised DEF MemoryKept
<1> QED BY <1>1, <1>2, <1>3, PTL DEF MCSpec

-----------------------------------------------------------------------------
(* The assistant's turns.  What a turn has run is in its memo, so that it  *)
(* runs nothing twice and answers from what it ran; and until a turn is    *)
(* done no conversation has an answer of it, then its own has one, after   *)
(* the question.                                                           *)

Running == {"lookUp", "ask", "calls"}
Said == [by : Actions \cup Convs,
         role : {"user", "tool", "answer", "part", "outcome"}]
Entry == [conv : Convs, old : BOOLEAN, log : Seq(Said)]
Returned == {"answer", "apology", "card", "sent"}
TurnState ==
  [pc : {"new", "resolve", "open", "done"} \cup Running,
   conv : Convs \cup {NoConv}, saves : BOOLEAN, about : Chat!Abouts,
   auto : BOOLEAN, round : 0..MaxRounds, queue : Seq(Chat!Calls),
   cards : Seq(Chat!Calls),
   memo : [Chat!Calls -> {"none", "ok", "failed", "card"}],
   ran : [Chat!Calls -> Nat],
   result : Returned \cup {"none", "error", "aborted", "crashed"}]

Budget ==
  [{"calls", "faults", "aborts", "settings", "hours", "restarts"} -> Nat]

ChatTyped ==
  /\ kind \in [Convs -> {"none", "durable", "temporary"}]
  /\ stored \in [Convs -> Seq(Said)]
  /\ card \in [Convs -> BOOLEAN]
  /\ turn \in [Actions -> TurnState]
  /\ save \in BOOLEAN /\ left \in Budget

\* The cache holds temporary conversations, each once.
CacheSound(cache) ==
  /\ cache \in Seq(Entry) /\ Len(cache) <= Cap
  /\ \A i, j \in DOMAIN cache : cache[i].conv = cache[j].conv => i = j
  /\ \A i \in DOMAIN cache : kind[cache[i].conv] = "temporary"

\* A call of `calls` was attempted.
Tried(r, calls) == \E c \in calls : r.memo[c] # "none"

TurnSound(r) ==
  /\ \A c \in Chat!Calls : /\ r.ran[c] <= 1
                           /\ r.pc # "done" /\ r.memo[c] = "none" => r.ran[c] = 0
  /\ r.pc \in {"new", "resolve", "open", "lookUp"} =>
       r.round = 0 /\ \A c \in Chat!Calls : r.memo[c] = "none"
  /\ r.pc = "calls" => r.round < MaxRounds
  /\ r.pc \in {"ask", "calls"} /\ r.about = "stock" => r.memo[ReadCall] = "ok"
  /\ r.about \in {"erp", "order"} =>
       /\ r.pc = "calls" => \A i \in DOMAIN r.queue : r.queue[i] \in {ReadCall, CardCall}
       /\ r.pc = "ask" /\ r.round # 0 => Tried(r, {ReadCall, CardCall})
       /\ r.pc = "calls" /\ (r.round # 0 \/ r.queue = <<>>) =>
            Tried(r, {ReadCall, CardCall})
  /\ r.pc \in {"new", "resolve"} => r.conv = NoConv
  /\ r.pc \in Running \cup {"open"} => r.conv \in Convs
  /\ r.pc # "done" => r.result = "none"
  /\ r.result = "answer" =>
       /\ r.about = "stock" => r.memo[ReadCall] = "ok"
       /\ r.about \in {"erp", "order"} => Tried(r, {ReadCall, CardCall})

\* What conversations keep of turn t.
LogSound(t) ==
  /\ turn[t].conv \in Convs => kind[turn[t].conv] # "none"
  /\ turn[t].pc # "done" =>
       \A c \in Convs : Chat!Answers(t, stored[c]) = {}
  /\ turn[t].pc \in Running /\ kind[turn[t].conv] = "durable" =>
       Chat!Questions(t, stored[turn[t].conv]) # {}

StoredSound ==
  \A c \in Convs : kind[c] # "durable" => stored[c] = <<>>

ChatInv ==
  /\ ChatTyped /\ CacheSound(temp) /\ StoredSound
  /\ \A t \in Actions : TurnSound(turn[t]) /\ LogSound(t)
  /\ Chat!AnswerStoredOnce

LEMMA NewSound ==
  /\ Chat!NewTurn \in TurnState /\ TurnSound(Chat!NewTurn)
  /\ Chat!NewTurn.memo = [c \in Chat!Calls |-> "none"]
  /\ Chat!NewTurn.ran = [c \in Chat!Calls |-> 0]
  /\ Chat!NewTurn.conv = NoConv /\ Chat!NewTurn.round = 0
  /\ Chat!NewTurn.result = "none"
BY ChatAssumption
DEF Chat!ChatTurnAssumption, Chat!NewTurn, TurnState, TurnSound, Running,
    Returned, Chat!Abouts, Tried

LEMMA ChatInit == Chat!Init => ChatInv
<1> SUFFICES ASSUME Chat!Init PROVE ChatInv
  OBVIOUS
<1> USE ChatAssumption DEF Chat!ChatTurnAssumption, Chat!Init
<1>1. Chat!NewTurn \in TurnState /\ TurnSound(Chat!NewTurn)
  BY NewSound
<1>2. ChatTyped
  BY <1>1 DEF ChatTyped, Budget
<1>3. CacheSound(temp) /\ StoredSound
  BY DEF CacheSound, StoredSound
<1>4. ASSUME NEW t \in Actions PROVE TurnSound(turn[t]) /\ LogSound(t)
  BY <1>1 DEF LogSound, Chat!NewTurn, Chat!Answers, Running
<1>5. Chat!AnswerStoredOnce
  BY DEF Chat!AnswerStoredOnce, Chat!NewTurn
<1> QED BY <1>2, <1>3, <1>4, <1>5 DEF ChatInv

-----------------------------------------------------------------------------
(* What is said                                                            *)

\* A message is stored exactly if its conversation is durable.
Stores(c, m) ==
  stored' = IF kind[c] = "durable" THEN [stored EXCEPT ![c] = Append(@, m)]
            ELSE stored

\* A message in the cache keeps it sound.
LEMMA PushedSound ==
  ASSUME NEW cache, CacheSound(cache), NEW c \in Convs, NEW m \in Said
  PROVE  CacheSound(Chat!Pushed(cache, c, m))
<1> DEFINE new == Chat!Pushed(cache, c, m)
<1>0. cache \in Seq(Entry)
  BY DEF CacheSound
<1>1. DOMAIN new = 1..Len(cache) /\ Len(cache) \in Nat
  BY <1>0 DEF Chat!Pushed
<1>2. ASSUME NEW i \in 1..Len(cache)
      PROVE  new[i] \in Entry /\ new[i].conv = cache[i].conv
  <2>1. cache[i] \in Entry
    BY <1>0
  <2>2. Append(cache[i].log, m) \in Seq(Said)
    BY <2>1 DEF Entry
  <2> DEFINE told == [cache[i] EXCEPT !.log = Append(@, m), !.old = FALSE]
  <2>3. told \in Entry /\ told.conv = cache[i].conv
    BY <2>1, <2>2 DEF Entry
  <2>4. new[i] = IF cache[i].conv = c THEN told ELSE cache[i]
    <3>1. i \in DOMAIN cache
      BY <1>0
    <3> QED BY <3>1, Zenon DEF Chat!Pushed
  <2> QED BY <2>1, <2>3, <2>4
<1>3. new \in Seq(Entry) /\ Len(new) = Len(cache)
  <2>1. new \in [1..Len(cache) -> Entry]
    <3>1. new = [i \in DOMAIN new |-> new[i]]
      BY DEF Chat!Pushed
    <3> HIDE DEF new
    <3> QED BY <1>1, <1>2, <3>1
  <2> HIDE DEF new
  <2> QED BY <1>1, <2>1
<1> QED BY <1>0, <1>1, <1>2, <1>3 DEF CacheSound

LEMMA Told ==
  ASSUME ChatInv, NEW c \in Convs, NEW m \in Said, NEW known,
         known \in {kind[c], "unknown"}, Chat!Appended(c, m, known)
  PROVE  Stores(c, m) /\ CacheSound(temp')
<1>1. kind[c] \in {"none", "durable", "temporary"} /\ CacheSound(temp)
  BY DEF ChatInv, ChatTyped
<1>2. kind[c] = "durable" => ~Chat!Cached(c)
  BY <1>1 DEF CacheSound, Chat!Cached
<1>3. CacheSound(Chat!Pushed(temp, c, m))
  BY <1>1, PushedSound
<1> QED BY <1>1, <1>2, <1>3 DEF Chat!Appended, Chat!StoresUnknown, Stores

-----------------------------------------------------------------------------
(* What a turn becomes                                                     *)

\* Turn t moves on, and the others rest.
Moves(t) ==
  /\ turn' \in [Actions -> TurnState]
  /\ \A u \in Actions : TurnSound(turn'[u])
  /\ \A u \in Actions : u # t => turn'[u] = turn[u]

LEMMA MovesTo ==
  ASSUME ChatInv, NEW t \in Actions, NEW r \in TurnState, TurnSound(r),
         Chat!Set(t, r)
  PROVE  Moves(t) /\ turn'[t] = r
BY DEF ChatInv, ChatTyped, Chat!Set, Moves

LEMMA TurnFacts ==
  ASSUME ChatInv, NEW t \in Actions
  PROVE  turn[t] \in TurnState /\ TurnSound(turn[t])
BY DEF ChatInv, ChatTyped

\* A turn may end as long as it has not answered without the data.
LEMMA EndsSound ==
  ASSUME ChatInv, NEW t \in Actions,
         NEW result \in Returned \cup {"error", "aborted", "crashed"},
         turn[t].pc # "done",
         result = "answer" => turn[t].pc = "ask" /\ ~Chat!Required(t)
  PROVE  /\ Chat!Ended(t, result) \in TurnState
         /\ TurnSound(Chat!Ended(t, result))
<1>1. turn[t] \in TurnState /\ TurnSound(turn[t])
  BY TurnFacts
<1> DEFINE r == Chat!Ended(t, result)
<1>2. /\ r \in TurnState /\ r.pc = "done" /\ r.result = result
      /\ r.memo = turn[t].memo /\ r.ran = turn[t].ran /\ r.about = turn[t].about
  BY <1>1 DEF Chat!Ended, TurnState, Returned
<1> HIDE DEF r
<1>3. TurnSound(r)
  BY <1>1, <1>2 DEF TurnSound, Tried, TurnState, Running, Chat!Required
<1> QED BY <1>2, <1>3 DEF r

\* What one run of a call does to a turn's books.
LEMMA RanSound ==
  ASSUME ChatInv, NEW t \in Actions, NEW c \in Chat!Calls,
         NEW memo \in {"ok", "failed", "card"}, turn[t].pc # "done",
         turn[t].memo[c] = "none",
         NEW r, r.ran = [turn[t].ran EXCEPT ![c] = @ + 1],
         r.memo = [turn[t].memo EXCEPT ![c] = memo] \/ r.pc = "done"
  PROVE  /\ r.ran \in [Chat!Calls -> Nat]
         /\ \A d \in Chat!Calls :
              /\ r.ran[d] <= 1
              /\ r.pc # "done" /\ r.memo[d] = "none" => r.ran[d] = 0
<1>1. turn[t] \in TurnState /\ TurnSound(turn[t])
  BY TurnFacts
<1>2. /\ turn[t].ran \in [Chat!Calls -> Nat]
      /\ turn[t].memo \in [Chat!Calls -> {"none", "ok", "failed", "card"}]
      /\ turn[t].ran[c] = 0
      /\ \A d \in Chat!Calls : /\ turn[t].ran[d] <= 1
                               /\ turn[t].memo[d] = "none" => turn[t].ran[d] = 0
  BY <1>1 DEF TurnState, TurnSound
<1> QED BY <1>2

LEMMA BeginsSound ==
  ASSUME ChatInv, NEW t \in Actions, NEW about \in Chat!Abouts,
         NEW auto \in BOOLEAN, Chat!Begin(t, about, auto)
  PROVE  Moves(t) /\ turn'[t].pc = "resolve" /\ turn'[t].conv = turn[t].conv
<1> DEFINE r == [Chat!NewTurn EXCEPT !.pc = "resolve", !.saves = save,
                                     !.about = about, !.auto = auto]
<1>1. save \in BOOLEAN /\ turn[t].pc = "new"
  BY DEF ChatInv, ChatTyped, Chat!Begin
<1>2. /\ r \in TurnState /\ r.pc = "resolve" /\ r.conv = NoConv
      /\ r.memo = [c \in Chat!Calls |-> "none"]
      /\ r.ran = [c \in Chat!Calls |-> 0]
      /\ r.round = 0 /\ r.result = "none"
  BY <1>1, NewSound DEF TurnState
<1>3. Chat!Set(t, r)
  BY DEF Chat!Begin
<1>4. turn[t].conv = NoConv
  BY <1>1, TurnFacts DEF TurnSound
<1> HIDE DEF r
<1>5. TurnSound(r)
  BY <1>2 DEF TurnSound, Running
<1> QED BY <1>2, <1>3, <1>4, <1>5, MovesTo

\* A conversation is found or opened.
LEMMA ResolvesSound ==
  ASSUME ChatInv, NEW t \in Actions, NEW c \in Convs, turn[t].pc = "resolve",
         Chat!Set(t, [turn[t] EXCEPT !.pc = "open", !.conv = c])
  PROVE  Moves(t) /\ turn'[t].pc = "open" /\ turn'[t].conv = c
<1> DEFINE r == [turn[t] EXCEPT !.pc = "open", !.conv = c]
<1>1. turn[t] \in TurnState /\ TurnSound(turn[t])
  BY TurnFacts
<1>2. /\ r \in TurnState /\ r.pc = "open" /\ r.conv = c
      /\ r.memo = turn[t].memo /\ r.ran = turn[t].ran
      /\ r.about = turn[t].about /\ r.round = turn[t].round
      /\ r.result = turn[t].result
  BY <1>1 DEF TurnState
<1> HIDE DEF r
<1>3. TurnSound(r)
  BY <1>1, <1>2 DEF TurnSound, Running, TurnState
<1> QED BY <1>2, <1>3, MovesTo DEF r

\* Turn t goes on, or breaks off with nothing to return.
Rests(t) ==
  /\ turn[t].pc # "done" /\ turn'[t].conv = turn[t].conv
  /\ turn'[t].pc = "done" => turn'[t].result \notin Returned
  /\ turn'[t].pc \in Running => turn[t].pc \in Running

\* Turn t says nothing.
Silent(t) == Moves(t) /\ Rests(t) /\ UNCHANGED <<kind, stored, temp>>

\* Turn t says something, and if that is what it returns, it is done.
Speaks(t) ==
  /\ Moves(t) /\ turn'[t].conv = turn[t].conv /\ turn[t].conv \in Convs
  /\ turn[t].pc # "done"
  /\ UNCHANGED kind /\ CacheSound(temp')
  /\ \E role \in {"user", "tool", "part", "answer"} :
       /\ Stores(turn[t].conv, Chat!Message(t, role))
       /\ role \in {"tool", "part"} => Rests(t)
       /\ role = "user" => turn'[t].pc \in Running
       /\ role = "answer" => /\ turn[t].pc \in Running /\ turn'[t].pc = "done"
                             /\ turn'[t].result \in Returned

LEMMA Says ==
  ASSUME ChatInv, NEW t \in Actions, turn[t].pc \in Running,
         NEW role \in {"tool", "part", "answer"}, Chat!Say(t, role)
  PROVE  /\ Stores(turn[t].conv, Chat!Message(t, role)) /\ CacheSound(temp')
         /\ turn[t].conv \in Convs
<1>1. turn[t].conv \in Convs
  BY TurnFacts DEF TurnSound
<1>2. Chat!Message(t, role) \in Said
  BY DEF Chat!Message, Said
<1> QED BY <1>1, <1>2, Told DEF Chat!Say

\* A turn ends with what it says, if that answers.
LEMMA EndsSaying ==
  ASSUME ChatInv, NEW t \in Actions, turn[t].pc \in Running,
         NEW result \in Returned, Chat!Say(t, "answer"), UNCHANGED kind,
         result = "answer" => turn[t].pc = "ask" /\ ~Chat!Required(t),
         Chat!Set(t, Chat!Ended(t, result))
  PROVE  Speaks(t)
<1>1. turn[t] \in TurnState /\ turn[t].pc # "done"
  BY TurnFacts DEF Running
<1>2. Chat!Ended(t, result) \in TurnState /\ TurnSound(Chat!Ended(t, result))
  BY <1>1, EndsSound
<1>3. Moves(t) /\ turn'[t] = Chat!Ended(t, result)
  BY <1>2, MovesTo
<1>4. /\ turn'[t].pc = "done" /\ turn'[t].result = result
      /\ turn'[t].conv = turn[t].conv
  BY <1>1, <1>3 DEF Chat!Ended, TurnState
<1>5. /\ Stores(turn[t].conv, Chat!Message(t, "answer")) /\ CacheSound(temp')
      /\ turn[t].conv \in Convs
  BY Says
<1> QED BY <1>1, <1>3, <1>4, <1>5 DEF Speaks

\* A turn ends with nothing said of it as its answer.
LEMMA EndsMute ==
  ASSUME ChatInv, NEW t \in Actions, turn[t].pc # "done",
         NEW result \in {"error", "aborted", "crashed"},
         Chat!Set(t, Chat!Ended(t, result))
  PROVE  Moves(t) /\ Rests(t)
<1>1. turn[t] \in TurnState
  BY TurnFacts
<1>2. Chat!Ended(t, result) \in TurnState /\ TurnSound(Chat!Ended(t, result))
  BY EndsSound
<1>3. Moves(t) /\ turn'[t] = Chat!Ended(t, result)
  BY <1>2, MovesTo
<1>4. /\ turn'[t].pc = "done" /\ turn'[t].result = result
      /\ turn'[t].conv = turn[t].conv
  BY <1>1, <1>3 DEF Chat!Ended, TurnState
<1> QED BY <1>3, <1>4 DEF Rests, Returned, Running

\* The catalog is looked up, or that fails.
LEMMA LooksUp ==
  ASSUME ChatInv, NEW t \in Actions, Chat!LookUp(t) \/ Chat!LookUpFails(t)
  PROVE  Speaks(t)
<1> DEFINE old == turn[t]
<1>1. /\ old \in TurnState /\ TurnSound(old) /\ old.pc = "lookUp"
      /\ ReadCall \in Chat!Calls
  BY TurnFacts DEF Chat!LookUp, Chat!LookUpFails, Chat!Calls
<1>2. /\ old.memo \in [Chat!Calls -> {"none", "ok", "failed", "card"}]
      /\ old.ran \in [Chat!Calls -> Nat]
      /\ old.memo[ReadCall] = "none" /\ old.round = 0 /\ old.result = "none"
      /\ old.conv \in Convs
  BY <1>1 DEF TurnState, TurnSound, Running
<1>3. CASE Chat!LookUp(t)
  <2> DEFINE r == [turn[t] EXCEPT !.pc = "ask", !.memo[ReadCall] = "ok",
                                  !.ran[ReadCall] = @ + 1]
  <2>1. /\ r.ran = [old.ran EXCEPT ![ReadCall] = @ + 1]
        /\ r.memo = [old.memo EXCEPT ![ReadCall] = "ok"]
        /\ r.pc = "ask" /\ r.conv = old.conv /\ r.round = 0
        /\ r.about = old.about /\ r.result = "none"
    BY <1>1, <1>2 DEF TurnState
  <2>2. /\ r.ran \in [Chat!Calls -> Nat]
        /\ \A d \in Chat!Calls :
              /\ r.ran[d] <= 1
              /\ r.pc # "done" /\ r.memo[d] = "none" => r.ran[d] = 0
    <3> HIDE DEF r
    <3> QED BY <1>1, <1>2, <2>1, RanSound
  <2>3. r.memo \in [Chat!Calls -> {"none", "ok", "failed", "card"}]
        /\ r.memo[ReadCall] = "ok"
    BY <1>1, <1>2, <2>1
  <2>4. r \in TurnState
    BY <1>1, <2>2, <2>3 DEF TurnState, Running
  <2>5. Chat!Set(t, r) /\ Chat!Say(t, "tool") /\ UNCHANGED kind
    BY <1>3 DEF Chat!LookUp
  <2> HIDE DEF r
  <2>6. TurnSound(r)
    BY <1>2, <2>1, <2>2, <2>3 DEF TurnSound, Running
  <2>7. Moves(t) /\ turn'[t] = r
    BY <2>4, <2>5, <2>6, MovesTo
  <2>8. /\ Stores(turn[t].conv, Chat!Message(t, "tool")) /\ CacheSound(temp')
    BY <1>1, <2>5, Says DEF Running
  <2> QED BY <1>1, <1>2, <2>1, <2>5, <2>7, <2>8 DEF Speaks, Rests, Running
<1>4. CASE Chat!LookUpFails(t)
  <2> DEFINE r == Chat!Failed(t)
  <2>1. /\ r.ran = [old.ran EXCEPT ![ReadCall] = @ + 1] /\ r.memo = old.memo
        /\ r.pc = "done" /\ r.conv = old.conv /\ r.round = 0
        /\ r.about = old.about /\ r.result = "apology"
    BY <1>1, <1>2 DEF TurnState, Chat!Failed, Chat!Ended
  <2>2. /\ r.ran \in [Chat!Calls -> Nat]
        /\ \A d \in Chat!Calls : r.ran[d] <= 1
    <3> HIDE DEF r
    <3>1. turn[t].pc # "done"
      BY <1>1
    <3> QED BY <1>1, <1>2, <2>1, <3>1, RanSound
  <2>3. r \in TurnState
    BY <1>1, <2>2 DEF TurnState, Returned, Chat!Failed, Chat!Ended
  <2>4. Chat!Set(t, r) /\ Chat!Say(t, "answer") /\ UNCHANGED kind
    BY <1>4 DEF Chat!LookUpFails
  <2> HIDE DEF r
  <2>5. TurnSound(r)
    BY <1>2, <2>1, <2>2 DEF TurnSound, Running
  <2>6. Moves(t) /\ turn'[t] = r
    BY <2>3, <2>4, <2>5, MovesTo
  <2>7. /\ Stores(turn[t].conv, Chat!Message(t, "answer")) /\ CacheSound(temp')
    BY <1>1, <2>4, Says DEF Running
  <2> QED BY <1>1, <1>2, <2>1, <2>4, <2>6, <2>7 DEF Speaks, Running, Returned
<1> QED BY <1>3, <1>4

\* The model calls, answers, fails or is no longer asked.
LEMMA ModelMoves ==
  ASSUME ChatInv, NEW t \in Actions,
         \/ Chat!ModelCalls(t) \/ Chat!ModelAnswers(t) \/ Chat!ModelFails(t)
         \/ Chat!GivesUp(t)
  PROVE  Silent(t) \/ Speaks(t)
<1> DEFINE old == turn[t]
<1>1. /\ old \in TurnState /\ TurnSound(old) /\ old.pc = "ask"
      /\ old.pc \in Running /\ old.conv \in Convs /\ old.result = "none"
  BY TurnFacts
  DEF Chat!ModelCalls, Chat!ModelAnswers, Chat!ModelFails, Chat!GivesUp,
      Running, TurnSound
<1>2. CASE Chat!ModelCalls(t)
  <2>1. left.calls \in Nat
    BY DEF ChatInv, ChatTyped, Budget
  <2>0. PICK n \in 1..left.calls : \E queue \in [1..n -> Chat!Offered(t)] :
          Chat!Set(t, [old EXCEPT !.pc = "calls", !.queue = queue])
    BY <1>2 DEF Chat!ModelCalls
  <2>2. PICK queue \in [1..n -> Chat!Offered(t)] :
          Chat!Set(t, [old EXCEPT !.pc = "calls", !.queue = queue])
    BY <2>0
  <2> DEFINE r == [old EXCEPT !.pc = "calls", !.queue = queue]
  <2>3. old.about \in Chat!Abouts
    BY <1>1 DEF TurnState
  <2>4. /\ Chat!Offered(t) \subseteq Chat!Calls
        /\ old.about \in {"erp", "order"} => Chat!Offered(t) \subseteq {ReadCall, CardCall}
    BY <2>3 DEF Chat!Offered, Chat!Calls, Chat!Abouts, Chat!OfBusiness
  <2>5. queue \in Seq(Chat!Calls) /\ Len(queue) = n /\ n \in Nat \ {0}
    BY <2>1, <2>4
  <2>6. /\ r \in TurnState /\ r.pc = "calls" /\ r.queue = queue
        /\ r.conv = old.conv /\ r.round = old.round /\ r.about = old.about
        /\ r.memo = old.memo /\ r.ran = old.ran /\ r.result = old.result
    BY <1>1, <2>5 DEF TurnState, Running
  <2>7. old.round < MaxRounds
    BY <1>2 DEF Chat!ModelCalls, Chat!Bounded
  <2>8. /\ queue # <<>>
        /\ old.about \in {"erp", "order"} =>
             \A i \in DOMAIN queue : queue[i] \in {ReadCall, CardCall}
    BY <2>2, <2>4, <2>5
  <2> HIDE DEF r
  <2>9. TurnSound(r)
    BY <1>1, <2>6, <2>7, <2>8 DEF TurnSound, Running, Tried
  <2>10. Moves(t) /\ turn'[t] = r
    BY <2>2, <2>6, <2>9, MovesTo DEF r
  <2>11. UNCHANGED <<kind, stored, temp>>
    BY <1>2 DEF Chat!ModelCalls
  <2> QED BY <1>1, <2>6, <2>10, <2>11 DEF Silent, Rests, Running
<1>3. CASE Chat!ModelAnswers(t)
  BY <1>1, <1>3, EndsSaying DEF Chat!ModelAnswers, Returned
<1>4. CASE Chat!ModelFails(t)
  <2>1. /\ Chat!Set(t, Chat!Ended(t, "error")) /\ UNCHANGED kind
        /\ Chat!Say(t, "part") \/ UNCHANGED <<stored, temp>>
    BY <1>4 DEF Chat!ModelFails, Chat!Partial
  <2>2. Moves(t) /\ Rests(t)
    BY <1>1, <2>1, EndsMute
  <2>3. CASE UNCHANGED <<stored, temp>>
    BY <2>1, <2>2, <2>3 DEF Silent
  <2>4. CASE Chat!Say(t, "part")
    <3>1. Stores(turn[t].conv, Chat!Message(t, "part")) /\ CacheSound(temp')
      BY <1>1, <2>4, Says
    <3> QED BY <1>1, <2>1, <2>2, <3>1 DEF Speaks, Rests
  <2> QED BY <2>1, <2>3, <2>4
<1>5. CASE Chat!GivesUp(t)
  BY <1>1, <1>5, EndsSaying DEF Chat!GivesUp, Returned
<1> QED BY <1>2, <1>3, <1>4, <1>5

\* What the queue of a round leaves.
LEMMA QueueFacts ==
  ASSUME ChatInv, NEW t \in Actions, Chat!Calling(t)
  PROVE  /\ Chat!Call(t) \in Chat!Calls
         /\ Tail(turn[t].queue) \in Seq(Chat!Calls)
         /\ turn[t].about \in {"erp", "order"} =>
              /\ Chat!Call(t) \in {ReadCall, CardCall}
              /\ \A i \in DOMAIN Tail(turn[t].queue) :
                   Tail(turn[t].queue)[i] \in {ReadCall, CardCall}
<1> DEFINE queue == turn[t].queue
<1>1. /\ turn[t] \in TurnState /\ TurnSound(turn[t]) /\ turn[t].pc = "calls"
      /\ queue # <<>>
  BY TurnFacts DEF Chat!Calling
<1>2. queue \in Seq(Chat!Calls)
  BY <1>1 DEF TurnState
<1>3. turn[t].about \in {"erp", "order"} =>
        \A i \in DOMAIN queue : queue[i] \in {ReadCall, CardCall}
  BY <1>1 DEF TurnSound
<1> QED BY <1>1, <1>2, <1>3 DEF Chat!Call

\* A call is taken from the queue, and is run unless it was attempted.
LEMMA CallMoves ==
  ASSUME ChatInv, NEW t \in Actions,
         \/ Chat!CallAgain(t) \/ Chat!CallRuns(t) \/ Chat!CallFails(t)
         \/ Chat!CallPrepared(t)
  PROVE  Silent(t) \/ Speaks(t)
<1> DEFINE old == turn[t]
           c == Chat!Call(t)
           queue == Tail(old.queue)
<1>1. /\ old \in TurnState /\ TurnSound(old) /\ old.pc = "calls"
      /\ old.pc \in Running /\ old.conv \in Convs /\ old.result = "none"
      /\ c \in Chat!Calls /\ queue \in Seq(Chat!Calls) /\ UNCHANGED kind
      /\ Chat!Calling(t)
  BY TurnFacts, QueueFacts
  DEF Chat!CallAgain, Chat!CallRuns, Chat!CallFails, Chat!CallPrepared,
      Chat!Calling, Running, TurnSound
<1>2. /\ old.memo \in [Chat!Calls -> {"none", "ok", "failed", "card"}]
      /\ old.ran \in [Chat!Calls -> Nat] /\ old.cards \in Seq(Chat!Calls)
  BY <1>1 DEF TurnState
<1>3. old.about \in {"erp", "order"} =>
        /\ c \in {ReadCall, CardCall}
        /\ \A i \in DOMAIN queue : queue[i] \in {ReadCall, CardCall}
  BY <1>1, QueueFacts
<1>4. CASE Chat!CallAgain(t)
  <2> DEFINE r == [old EXCEPT !.queue = Tail(@)]
  <2>1. /\ r \in TurnState /\ r.pc = "calls" /\ r.queue = queue
        /\ r.conv = old.conv /\ r.round = old.round /\ r.about = old.about
        /\ r.memo = old.memo /\ r.ran = old.ran /\ r.result = old.result
    BY <1>1 DEF TurnState, Running
  <2>2. old.memo[c] # "none" /\ Chat!Set(t, r) /\ UNCHANGED <<stored, temp>>
    BY <1>4 DEF Chat!CallAgain, Chat!Attempted
  <2> HIDE DEF r, queue, c
  <2>3. TurnSound(r)
    BY <1>1, <1>3, <2>1, <2>2 DEF TurnSound, Running, Tried
  <2>4. Moves(t) /\ turn'[t] = r
    BY <2>1, <2>2, <2>3, MovesTo
  <2> QED BY <1>1, <2>1, <2>2, <2>4 DEF Silent, Rests, Running
<1>5. ASSUME NEW memo \in {"ok", "failed", "card"}, NEW cards \in Seq(Chat!Calls),
             ~Chat!Attempted(t),
             Chat!Set(t, [Chat!Called(t, memo) EXCEPT !.cards = cards])
      PROVE  Moves(t) /\ Rests(t)
  <2> DEFINE r == [Chat!Called(t, memo) EXCEPT !.cards = cards]
  <2>1. /\ r.ran = [old.ran EXCEPT ![c] = @ + 1]
        /\ r.memo = [old.memo EXCEPT ![c] = memo]
        /\ r.pc = "calls" /\ r.queue = queue
        /\ r.conv = old.conv /\ r.round = old.round /\ r.about = old.about
        /\ r.result = old.result
    BY <1>1, <1>2 DEF TurnState, Chat!Called
  <2>2. old.memo[c] = "none"
    BY <1>5 DEF Chat!Attempted
  <2>3. /\ r.ran \in [Chat!Calls -> Nat]
        /\ \A d \in Chat!Calls :
              /\ r.ran[d] <= 1
              /\ r.pc # "done" /\ r.memo[d] = "none" => r.ran[d] = 0
    <3> HIDE DEF r, c
    <3>1. \A d \in Chat!Calls :
            old.ran[d] <= 1 /\ (old.memo[d] = "none" => old.ran[d] = 0)
      BY <1>1 DEF TurnSound
    <3>2. r.ran[c] = 1 /\ r.memo[c] # "none"
      BY <1>1, <1>2, <1>5, <2>1, <2>2, <3>1
    <3>3. \A d \in Chat!Calls :
            d # c => r.ran[d] = old.ran[d] /\ r.memo[d] = old.memo[d]
      BY <1>2, <2>1
    <3>4. r.ran \in [Chat!Calls -> Nat]
      BY <1>1, <1>2, <2>1
    <3>5. ASSUME NEW d \in Chat!Calls
          PROVE  r.ran[d] <= 1 /\ (r.memo[d] = "none" => r.ran[d] = 0)
      <4>1. CASE d = c
        BY <3>2, <4>1
      <4>2. CASE d # c
        <5>1. r.ran[d] = old.ran[d] /\ r.memo[d] = old.memo[d]
          BY <3>3, <4>2
        <5> HIDE DEF old
        <5> QED BY <3>1, <5>1
      <4> QED BY <4>1, <4>2
    <3> QED BY <3>4, <3>5
  <2>4. r.memo \in [Chat!Calls -> {"none", "ok", "failed", "card"}]
        /\ r.memo[c] = memo /\ \A d \in Chat!Calls : d # c => r.memo[d] = old.memo[d]
    <3> HIDE DEF r, c
    <3> QED BY <1>1, <1>2, <2>1
  <2>5. r \in TurnState
    BY <1>1, <1>2, <2>3, <2>4 DEF TurnState, Chat!Called
  <2> HIDE DEF r, c, queue
  <2>6. TurnSound(r)
    BY <1>1, <1>3, <2>1, <2>2, <2>3, <2>4 DEF TurnSound, Running, Tried, Chat!Calls
  <2>7. Moves(t) /\ turn'[t] = r
    BY <1>5, <2>5, <2>6, MovesTo DEF r
  <2> QED BY <1>1, <2>1, <2>7 DEF Rests, Running
<1>6. CASE Chat!CallRuns(t)
  <2>1. Chat!Set(t, Chat!Called(t, "ok")) /\ ~Chat!Attempted(t) /\ Chat!Say(t, "tool")
    BY <1>6 DEF Chat!CallRuns
  <2>2. [Chat!Called(t, "ok") EXCEPT !.cards = old.cards] = Chat!Called(t, "ok")
    BY <1>1 DEF Chat!Called, TurnState
  <2>3. Moves(t) /\ Rests(t)
    BY <1>2, <1>5, <2>1, <2>2
  <2>4. Stores(turn[t].conv, Chat!Message(t, "tool")) /\ CacheSound(temp')
    BY <1>1, <2>1, Says
  <2> QED BY <1>1, <2>3, <2>4 DEF Speaks, Rests
<1>7. CASE Chat!CallFails(t)
  <2>1. Chat!Set(t, Chat!Called(t, "failed")) /\ ~Chat!Attempted(t)
        /\ UNCHANGED <<stored, temp>>
    BY <1>7 DEF Chat!CallFails
  <2>2. [Chat!Called(t, "failed") EXCEPT !.cards = old.cards] = Chat!Called(t, "failed")
    BY <1>1 DEF Chat!Called, TurnState
  <2>3. Moves(t) /\ Rests(t)
    BY <1>2, <1>5, <2>1, <2>2
  <2> QED BY <1>1, <2>1, <2>3 DEF Silent
<1>8. CASE Chat!CallPrepared(t)
  <2>1. /\ Chat!Set(t, [Chat!Called(t, "card") EXCEPT !.cards = Append(@, CardCall)])
        /\ ~Chat!Attempted(t) /\ UNCHANGED <<stored, temp>>
    BY <1>8 DEF Chat!CallPrepared
  <2>2. Chat!Called(t, "card").cards = old.cards
    BY <1>1 DEF Chat!Called, TurnState
  <2>3. Append(old.cards, CardCall) \in Seq(Chat!Calls)
    BY <1>2 DEF Chat!Calls
  <2>4. Chat!Set(t, [Chat!Called(t, "card") EXCEPT !.cards = Append(old.cards, CardCall)])
    BY <2>1, <2>2
  <2>5. Moves(t) /\ Rests(t)
    BY <1>5, <2>1, <2>3, <2>4
  <2> QED BY <1>1, <2>1, <2>5 DEF Silent
<1> QED BY <1>4, <1>6, <1>7, <1>8

\* The next round begins.
LEMMA RoundMoves ==
  ASSUME ChatInv, NEW t \in Actions, Chat!NextRound(t)
  PROVE  Silent(t)
<1> DEFINE old == turn[t]
           next == old.round + 1
           r == [old EXCEPT !.pc = "ask", !.round = next]
<1>1. /\ old \in TurnState /\ TurnSound(old) /\ old.pc = "calls"
      /\ old.queue = <<>> /\ Chat!Set(t, r) /\ UNCHANGED <<kind, stored, temp>>
  BY TurnFacts DEF Chat!NextRound
<1>2. old.round \in 0..MaxRounds /\ old.round < MaxRounds /\ MaxRounds \in Nat
  BY <1>1, ChatAssumption DEF TurnSound, TurnState, Chat!ChatTurnAssumption
<1>6. next \in 0..MaxRounds /\ next # 0
  BY <1>2
<1> HIDE DEF next
<1>3. /\ r \in TurnState /\ r.pc = "ask" /\ r.round = next
      /\ r.queue = <<>> /\ r.conv = old.conv /\ r.about = old.about
      /\ r.memo = old.memo /\ r.ran = old.ran /\ r.result = old.result
  BY <1>1, <1>6 DEF TurnState, Running
<1> HIDE DEF r
<1>4. TurnSound(r)
  BY <1>1, <1>6, <1>3 DEF TurnSound, Running, Tried
<1>5. Moves(t) /\ turn'[t] = r
  BY <1>1, <1>3, <1>4, MovesTo
<1> QED BY <1>1, <1>3, <1>5 DEF Silent, Rests, Running

\* The calls prepared are proposed, or the one is carried out.
LEMMA CardMoves ==
  ASSUME ChatInv, NEW t \in Actions, Chat!Propose(t) \/ Chat!SendAtOnce(t)
  PROVE  Speaks(t) /\ card' \in [Convs -> BOOLEAN]
<1>1. /\ turn[t] \in TurnState /\ TurnSound(turn[t]) /\ turn[t].pc = "calls"
      /\ turn[t].pc \in Running /\ turn[t].conv \in Convs /\ UNCHANGED kind
      /\ card \in [Convs -> BOOLEAN]
  BY TurnFacts
  DEF Chat!Propose, Chat!SendAtOnce, Chat!AllCalled, TurnSound, Running,
      ChatInv, ChatTyped
<1>2. CASE Chat!Propose(t)
  BY <1>1, <1>2, EndsSaying DEF Chat!Propose, Returned
<1>3. CASE Chat!SendAtOnce(t)
  <2>1. /\ Chat!Set(t, Chat!Ended(t, "sent"))
        /\ Chat!Appended(turn[t].conv, Chat!Message(t, "answer"), "unknown")
        /\ card' \in [Convs -> BOOLEAN]
    BY <1>1, <1>3 DEF Chat!SendAtOnce
  <2>2. Chat!Ended(t, "sent") \in TurnState /\ TurnSound(Chat!Ended(t, "sent"))
    BY <1>1, EndsSound DEF Returned
  <2>3. Moves(t) /\ turn'[t] = Chat!Ended(t, "sent")
    BY <2>1, <2>2, MovesTo
  <2>4. Chat!Message(t, "answer") \in Said
    BY DEF Chat!Message, Said
  <2>5. Stores(turn[t].conv, Chat!Message(t, "answer")) /\ CacheSound(temp')
    BY <1>1, <2>1, <2>4, Told
  <2> QED BY <1>1, <2>1, <2>3, <2>5 DEF Speaks, Chat!Ended, TurnState, Returned
<1> QED BY <1>2, <1>3

-----------------------------------------------------------------------------
(* A temporary conversation gets its place                                 *)

\* The cache without its old conversations, and with room for one more.
LEMMA AdmittedSound ==
  ASSUME CacheSound(temp), NEW c \in Convs, kind[c] = "temporary",
         NEW places \in Chat!Young(temp)
  PROVE  CacheSound(Chat!Admitted([i \in DOMAIN places |-> temp[places[i]]], c))
<1> DEFINE young == [i \in DOMAIN places |-> temp[places[i]]]
<1>1. temp \in Seq(Entry) /\ Len(temp) \in Nat /\ DOMAIN temp = 1..Len(temp)
  BY DEF CacheSound
<1>2. PICK n \in 0..Len(temp) : places \in [1..n -> DOMAIN temp]
  BY DEF Chat!Young
<1>3. \A i, j \in DOMAIN places : i < j => places[i] < places[j]
  BY DEF Chat!Young
<1>4. \A i \in 1..n : young[i] = temp[places[i]] /\ places[i] \in DOMAIN temp
  BY <1>2
<1>5. young \in Seq(Entry) /\ Len(young) = n /\ n \in Nat
  <2>1. young \in [1..n -> Entry]
    BY <1>1, <1>2
  <2>2. n \in Nat
    BY <1>1, <1>2
  <2> HIDE DEF young
  <2> QED BY <2>1, <2>2
<1> HIDE DEF young
<1>6. ASSUME NEW i \in 1..n, NEW j \in 1..n, young[i].conv = young[j].conv
      PROVE  i = j
  <2>0. /\ temp[places[i]].conv = temp[places[j]].conv
        /\ places[i] \in DOMAIN temp /\ places[j] \in DOMAIN temp
    BY <1>4, <1>6
  <2>1. places[i] = places[j]
    BY <2>0 DEF CacheSound
  <2>2. i \in Nat /\ j \in Nat /\ places[i] \in Nat
    BY <1>1, <1>2, <1>4
  <2> QED BY <1>2, <1>3, <2>1, <2>2
<1>7. CacheSound(young)
  <2>1. n <= Cap
    BY <1>1, <1>2, ChatAssumption DEF CacheSound, Chat!ChatTurnAssumption
  <2>2. ASSUME NEW i \in 1..n PROVE kind[young[i].conv] = "temporary"
    <3>1. young[i] = temp[places[i]] /\ places[i] \in DOMAIN temp
      BY <1>4
    <3>2. kind[temp[places[i]].conv] = "temporary"
      BY <3>1 DEF CacheSound
    <3> QED BY <3>1, <3>2
  <2> QED BY <1>5, <1>6, <2>1, <2>2 DEF CacheSound
<1>8. ASSUME ~\E i \in DOMAIN young : young[i].conv = c
      PROVE  CacheSound(Chat!Admitted(young, c))
  <2> DEFINE entry == [conv |-> c, old |-> FALSE, log |-> <<>>]
             rest == IF Len(young) >= Cap THEN Tail(young) ELSE young
  <2>1. entry \in Entry
    BY DEF Entry
  <2>2. Cap \in Nat \ {0}
    BY ChatAssumption DEF Chat!ChatTurnAssumption
  <2>3. /\ rest \in Seq(Entry) /\ Len(rest) < Cap /\ Len(rest) \in Nat
        /\ \A i, j \in 1..Len(rest) : rest[i].conv = rest[j].conv => i = j
        /\ \A i \in 1..Len(rest) :
             kind[rest[i].conv] = "temporary" /\ rest[i].conv # c
    <3>1. CASE Len(young) >= Cap
      <4>1. rest = Tail(young) /\ young # <<>>
        BY <1>5, <2>2, <3>1
      <4>2. /\ rest \in Seq(Entry) /\ Len(rest) = n - 1 /\ n - 1 \in Nat
            /\ \A i \in 1..(n - 1) : rest[i] = young[i + 1]
        BY <1>5, <4>1
      <4> HIDE DEF rest
      <4>3. \A i \in 1..(n - 1) : i + 1 \in 1..n /\ i \in Nat
        BY <1>5
      <4>4. ASSUME NEW i \in 1..(n - 1), NEW j \in 1..(n - 1),
                   rest[i].conv = rest[j].conv
            PROVE  i = j
        <5>1. young[i + 1].conv = young[j + 1].conv
          BY <4>2, <4>4
        <5>2. i + 1 = j + 1
          BY <1>6, <4>3, <5>1
        <5> QED BY <4>3, <5>2
      <4>5. ASSUME NEW i \in 1..(n - 1)
            PROVE  kind[rest[i].conv] = "temporary" /\ rest[i].conv # c
        <5>1. rest[i] = young[i + 1] /\ i + 1 \in DOMAIN young
          BY <1>5, <4>2, <4>3
        <5> QED BY <1>7, <1>8, <5>1 DEF CacheSound
      <4>6. n - 1 < Cap
        BY <1>5, <1>7, <2>2 DEF CacheSound
      <4> QED BY <4>2, <4>4, <4>5, <4>6
    <3>2. CASE ~(Len(young) >= Cap)
      BY <1>5, <1>6, <1>7, <1>8, <2>2, <3>2 DEF CacheSound
    <3> QED BY <3>1, <3>2
  <2>4. Chat!Admitted(young, c) = Append(rest, entry)
    BY <1>8 DEF Chat!Admitted
  <2> HIDE DEF rest, entry
  <2> DEFINE new == Append(rest, entry)
  <2>5. /\ new \in Seq(Entry) /\ Len(new) = Len(rest) + 1
        /\ \A i \in 1..Len(rest) : new[i] = rest[i]
        /\ new[Len(rest) + 1] = entry
    BY <2>1, <2>3
  <2>6. entry.conv = c
    BY DEF entry
  <2> HIDE DEF new
  <2> DEFINE m == Len(rest)
  <2>8. /\ m \in Nat /\ m + 1 \in Nat /\ m + 1 <= Cap
        /\ \A i \in 1..(m + 1) : i \in 1..m \/ i = m + 1
    BY <2>2, <2>3
  <2>9. ASSUME NEW i \in 1..(m + 1)
        PROVE  kind[new[i].conv] = "temporary"
    BY <2>3, <2>5, <2>6, <2>8
  <2>10. ASSUME NEW i \in 1..(m + 1), NEW j \in 1..(m + 1),
                new[i].conv = new[j].conv
         PROVE  i = j
    BY <2>3, <2>5, <2>6, <2>8, <2>10
  <2>11. DOMAIN new = 1..(m + 1)
    BY <2>5
  <2> HIDE DEF m
  <2>7. CacheSound(new)
    BY <2>5, <2>8, <2>9, <2>10, <2>11 DEF CacheSound, m
  <2> QED BY <2>4, <2>7 DEF new
<1> QED BY <1>7, <1>8 DEF Chat!Admitted, young

\* The user's message is said.
LEMMA EnterMoves ==
  ASSUME ChatInv, NEW t \in Actions, Chat!Enter(t)
  PROVE  Speaks(t)
<1> DEFINE old == turn[t]
           c == old.conv
           next == IF old.about = "stock" THEN "lookUp" ELSE "ask"
           r == [old EXCEPT !.pc = next]
<1>1. /\ old \in TurnState /\ TurnSound(old) /\ old.pc = "open" /\ c \in Convs
      /\ LogSound(t) /\ Chat!Set(t, r) /\ UNCHANGED kind
      /\ kind[c] \in {"durable", "temporary"} /\ CacheSound(temp)
  BY TurnFacts DEF Chat!Enter, TurnSound, ChatInv, ChatTyped, LogSound
<1>2. Chat!Message(t, "user") \in Said
  BY DEF Chat!Message, Said
<1>3. Stores(c, Chat!Message(t, "user")) /\ CacheSound(temp')
  <2>1. CASE kind[c] = "durable"
    <3>1. Chat!Appended(c, Chat!Message(t, "user"), "durable")
      BY <2>1 DEF Chat!Enter
    <3> HIDE DEF c
    <3> QED BY <1>1, <1>2, <2>1, <3>1, Told
  <2>2. CASE kind[c] = "temporary"
    <3>1. PICK places \in Chat!Young(temp) :
            temp' = Chat!Pushed(
                      Chat!Admitted([i \in DOMAIN places |-> temp[places[i]]], c),
                      c, Chat!Message(t, "user"))
      BY <2>2 DEF Chat!Enter
    <3>2. CacheSound(Chat!Admitted([i \in DOMAIN places |-> temp[places[i]]], c))
      BY <1>1, <2>2, AdmittedSound
    <3>3. CacheSound(temp')
      BY <1>1, <1>2, <3>1, <3>2, PushedSound
    <3>4. UNCHANGED stored
      BY <2>2 DEF Chat!Enter
    <3> QED BY <2>2, <3>3, <3>4 DEF Stores
  <2> QED BY <1>1, <2>1, <2>2
<1>4. /\ r \in TurnState /\ r.pc = next /\ next \in {"lookUp", "ask"}
      /\ r.conv = c /\ r.round = old.round /\ r.about = old.about
      /\ r.memo = old.memo /\ r.ran = old.ran /\ r.result = old.result
      /\ r.about = "stock" => next = "lookUp"
  BY <1>1 DEF TurnState, Running
<1> HIDE DEF r, next
<1>5. TurnSound(r)
  BY <1>1, <1>4 DEF TurnSound, Running, Tried
<1>6. Moves(t) /\ turn'[t] = r
  BY <1>1, <1>4, <1>5, MovesTo
<1> QED BY <1>1, <1>3, <1>4, <1>6 DEF Speaks, Running

-----------------------------------------------------------------------------
(* What the conversations keep                                             *)

LEMMA LogGrows ==
  ASSUME NEW u \in Actions, NEW log \in Seq(Said), NEW m \in Said
  PROVE  /\ m # Chat!Message(u, "answer") =>
              Chat!Answers(u, Append(log, m)) = Chat!Answers(u, log)
         /\ m = Chat!Message(u, "answer") =>
              Chat!Answers(u, Append(log, m)) = Chat!Answers(u, log) \cup {Len(log) + 1}
         /\ Chat!Questions(u, log) \subseteq Chat!Questions(u, Append(log, m))
         /\ m = Chat!Message(u, "user") =>
              Len(log) + 1 \in Chat!Questions(u, Append(log, m))
         /\ \A i \in Chat!Questions(u, log) : i < Len(log) + 1
<1> DEFINE new == Append(log, m)
           n == Len(log) + 1
<1>1. /\ DOMAIN log = 1..Len(log) /\ Len(log) \in Nat /\ DOMAIN new = 1..n
      /\ \A i \in 1..Len(log) : new[i] = log[i] /\ i < n /\ i \in 1..n
      /\ new[n] = m /\ \A i \in 1..n : i \in 1..Len(log) \/ i = n
      /\ n \notin 1..Len(log) /\ n \in 1..n
  OBVIOUS
<1> HIDE DEF new, n
<1>2. /\ m # Chat!Message(u, "answer") =>
           Chat!Answers(u, new) = Chat!Answers(u, log)
      /\ m = Chat!Message(u, "answer") =>
           Chat!Answers(u, new) = Chat!Answers(u, log) \cup {n}
  BY <1>1 DEF Chat!Answers
<1>3. /\ Chat!Questions(u, log) \subseteq Chat!Questions(u, new)
      /\ m = Chat!Message(u, "user") => n \in Chat!Questions(u, new)
      /\ \A i \in Chat!Questions(u, log) : i < n
  BY <1>1 DEF Chat!Questions
<1> QED BY <1>2, <1>3 DEF new, n

\* A message that is not an answer of u leaves u's messages.
LEMMA OthersStay ==
  ASSUME ChatInv, NEW u \in Actions, NEW c \in Convs, NEW m \in Said,
         Stores(c, m), m # Chat!Message(u, "answer"), NEW d \in Convs
  PROVE  /\ Chat!Answers(u, stored'[d]) = Chat!Answers(u, stored[d])
         /\ Chat!Questions(u, stored[d]) \subseteq Chat!Questions(u, stored'[d])
<1>1. stored \in [Convs -> Seq(Said)]
  BY DEF ChatInv, ChatTyped
<1>2. stored'[d] = stored[d] \/ stored'[d] = Append(stored[d], m)
  BY <1>1 DEF Stores
<1>3. stored[d] \in Seq(Said)
  BY <1>1
<1>4. /\ Chat!Answers(u, Append(stored[d], m)) = Chat!Answers(u, stored[d])
      /\ Chat!Questions(u, stored[d])
           \subseteq Chat!Questions(u, Append(stored[d], m))
  BY <1>3, LogGrows
<1> QED BY <1>2, <1>4

LEMMA StoredStays ==
  ASSUME ChatInv, NEW c \in Convs, NEW m \in Said, Stores(c, m), UNCHANGED kind
  PROVE  stored' \in [Convs -> Seq(Said)] /\ StoredSound'
<1>1. stored \in [Convs -> Seq(Said)] /\ StoredSound
  BY DEF ChatInv, ChatTyped
<1>2. Append(stored[c], m) \in Seq(Said)
  BY <1>1
<1> QED BY <1>1, <1>2 DEF Stores, StoredSound

\* What a turn that is r must have left in the log of its conversation.
Replies(u, r, known, log) ==
  r.pc = "done" =>
    IF known = "durable" /\ r.result \in Returned
    THEN \E q \in Chat!Questions(u, log), a \in Chat!Answers(u, log) :
           q < a /\ Chat!Answers(u, log) = {a}
    ELSE Chat!Answers(u, log) = {}

Answered(u) ==
  turn[u].conv # NoConv =>
    Replies(u, turn[u], kind[turn[u].conv], stored[turn[u].conv])

LEMMA AnsweredAll ==
  /\ Chat!AnswerStoredOnce <=> \A u \in Actions : Answered(u)
  /\ Chat!AnswerStoredOnce' <=> \A u \in Actions : Answered(u)'
BY DEF Chat!AnswerStoredOnce, Answered, Replies, Returned

\* Where no answer of u is added, what u has said stays sound, as long as u
\* rests or is not concerned.
LEMMA OthersKeep ==
  ASSUME ChatInv, NEW u \in Actions, UNCHANGED kind,
         \A d \in Convs :
           /\ Chat!Answers(u, stored'[d]) = Chat!Answers(u, stored[d])
           /\ Chat!Questions(u, stored[d]) \subseteq Chat!Questions(u, stored'[d]),
         \/ turn'[u] = turn[u]
         \/ turn'[u] \in TurnState /\ Rests(u)
  PROVE  LogSound(u)' /\ Answered(u)'
<1>1. turn[u] \in TurnState /\ LogSound(u) /\ Answered(u)
  BY AnsweredAll DEF ChatInv, ChatTyped
<1>2. turn'[u].conv = turn[u].conv /\ turn[u].conv \in Convs \cup {NoConv}
  BY <1>1 DEF Rests, TurnState
<1>3. LogSound(u)'
  <2>1. turn'[u].conv \in Convs => kind'[turn'[u].conv] # "none"
    BY <1>1, <1>2 DEF LogSound
  <2>2. turn'[u].pc # "done" =>
          \A d \in Convs : Chat!Answers(u, stored'[d]) = {}
    BY <1>1 DEF LogSound, Rests
  <2>3. ASSUME turn'[u].pc \in Running, kind'[turn'[u].conv] = "durable"
        PROVE  Chat!Questions(u, stored'[turn'[u].conv]) # {}
    <3>1. turn[u].pc \in Running /\ turn[u].conv \in Convs
      BY <1>1, <1>2, <2>3, TurnFacts DEF Rests, TurnSound, Running
    <3> QED BY <1>1, <1>2, <2>3, <3>1 DEF LogSound
  <2> QED BY <2>1, <2>2, <2>3 DEF LogSound, Running
<1>4. CASE turn'[u] = turn[u]
  <2> DEFINE c == turn[u].conv
  <2>1. ASSUME c \in Convs, Replies(u, turn[u], kind[c], stored[c])
        PROVE  Replies(u, turn[u], kind[c], stored'[c])
    <3>1. /\ Chat!Answers(u, stored'[c]) = Chat!Answers(u, stored[c])
          /\ Chat!Questions(u, stored[c]) \subseteq Chat!Questions(u, stored'[c])
      BY <2>1
    <3> QED BY <2>1, <3>1 DEF Replies
  <2>2. ASSUME turn'[u].conv # NoConv
        PROVE  Replies(u, turn'[u], kind'[turn'[u].conv], stored'[turn'[u].conv])
    <3>1. c \in Convs /\ turn'[u].conv = c
      BY <1>2, <2>2
    <3>2. Replies(u, turn[u], kind[c], stored[c])
      BY <1>1, <1>2, <2>2 DEF Answered
    <3>3. Replies(u, turn[u], kind[c], stored'[c])
      BY <2>1, <3>1, <3>2
    <3> HIDE DEF c
    <3> QED BY <1>4, <3>1, <3>3
  <2> QED BY <1>3, <2>2 DEF Answered
<1>5. CASE turn'[u] \in TurnState /\ Rests(u)
  <2>1. \A d \in Convs : Chat!Answers(u, stored'[d]) = {}
    BY <1>1, <1>5 DEF LogSound, Rests
  <2>2. turn'[u].pc = "done" => turn'[u].result \notin Returned
    BY <1>5 DEF Rests
  <2>3. ASSUME NEW known, NEW d \in Convs
        PROVE  Replies(u, turn'[u], known, stored'[d])
    BY <2>1, <2>2 DEF Replies
  <2>4. turn'[u].conv # NoConv => turn'[u].conv \in Convs
    BY <1>2
  <2> QED BY <1>3, <2>3, <2>4 DEF Answered
<1> QED BY <1>3, <1>4, <1>5

LEMMA MessageIs ==
  ASSUME NEW t \in Actions, NEW u \in Actions, NEW r, NEW s
  PROVE  Chat!Message(t, r) = Chat!Message(u, s) <=> t = u /\ r = s
BY DEF Chat!Message

\* A turn that speaks keeps what is stored of every turn sound.
LEMMA SpeaksKeeps ==
  ASSUME ChatInv, NEW t \in Actions, Speaks(t)
  PROVE  /\ stored' \in [Convs -> Seq(Said)] /\ StoredSound'
         /\ \A u \in Actions : LogSound(u)' /\ Answered(u)'
<1> DEFINE c == turn[t].conv
<1>1. /\ Moves(t) /\ turn'[t].conv = c /\ c \in Convs /\ UNCHANGED kind
      /\ turn[t].pc # "done" /\ turn'[t] \in TurnState
  BY DEF Speaks, Moves
<1>2. PICK role \in {"user", "tool", "part", "answer"} :
        /\ Stores(c, Chat!Message(t, role))
        /\ role \in {"tool", "part"} => Rests(t)
        /\ role = "user" => turn'[t].pc \in Running
        /\ role = "answer" => /\ turn[t].pc \in Running /\ turn'[t].pc = "done"
                              /\ turn'[t].result \in Returned
  BY DEF Speaks
<1> DEFINE m == Chat!Message(t, role)
<1>3. m \in Said
  BY DEF Chat!Message, Said
<1>4. stored' \in [Convs -> Seq(Said)] /\ StoredSound'
  BY <1>1, <1>2, <1>3, StoredStays
<1>5. ASSUME NEW u \in Actions, u # t PROVE LogSound(u)' /\ Answered(u)'
  <2>1. m # Chat!Message(u, "answer")
    BY <1>5, MessageIs
  <2>2. turn'[u] = turn[u]
    BY <1>1, <1>5 DEF Moves
  <2>3. \A d \in Convs :
          /\ Chat!Answers(u, stored'[d]) = Chat!Answers(u, stored[d])
          /\ Chat!Questions(u, stored[d]) \subseteq Chat!Questions(u, stored'[d])
    <3> HIDE DEF m, c
    <3> QED BY <1>1, <1>2, <1>3, <2>1, OthersStay DEF m
  <2> QED BY <1>1, <2>2, <2>3, OthersKeep
<1>6. LogSound(t)' /\ Answered(t)'
  <2>0. stored \in [Convs -> Seq(Said)] /\ LogSound(t) /\ kind[c] # "none"
        /\ stored[c] \in Seq(Said)
    BY <1>1 DEF ChatInv, ChatTyped, LogSound
  <2>1. CASE role \in {"tool", "part"}
    <3>1. m # Chat!Message(t, "answer")
      BY <2>1, MessageIs
    <3>2. \A d \in Convs :
            /\ Chat!Answers(t, stored'[d]) = Chat!Answers(t, stored[d])
            /\ Chat!Questions(t, stored[d]) \subseteq Chat!Questions(t, stored'[d])
      <4> HIDE DEF m, c
      <4> QED BY <1>1, <1>2, <1>3, <3>1, OthersStay DEF m
    <3> QED BY <1>1, <1>2, <2>1, <3>2, OthersKeep
  <2>2. CASE role = "user"
    <3>1. m # Chat!Message(t, "answer") /\ m = Chat!Message(t, "user")
      BY <2>2, MessageIs
    <3>2. ASSUME NEW d \in Convs PROVE Chat!Answers(t, stored'[d]) = {}
      <4>1. Chat!Answers(t, stored[d]) = {}
        BY <1>1, <2>0 DEF LogSound
      <4> HIDE DEF m, c
      <4> QED BY <1>1, <1>2, <1>3, <3>1, <4>1, OthersStay DEF m
    <3> HIDE DEF m
    <3>3. ASSUME kind[c] = "durable"
          PROVE  Chat!Questions(t, stored'[c]) # {}
      <4>1. stored'[c] = Append(stored[c], m)
        BY <1>1, <1>2, <2>0, <3>3 DEF Stores, m
      <4>2. Len(stored[c]) + 1 \in Chat!Questions(t, Append(stored[c], m))
        BY <1>3, <2>0, <3>1, LogGrows
      <4> QED BY <4>1, <4>2
    <3>4. turn'[t].pc # "done"
      BY <1>2, <2>2 DEF Running
    <3>5. Answered(t)'
      BY <3>4 DEF Answered, Replies
    <3>6. LogSound(t)'
      BY <1>1, <2>0, <3>2, <3>3, <3>4 DEF LogSound, Running
    <3> QED BY <3>5, <3>6
  <2>3. CASE role = "answer"
    <3>1. turn'[t].pc = "done" /\ turn'[t].result \in Returned
          /\ turn[t].pc \in Running
      BY <1>2, <2>3
    <3>2. LogSound(t)'
      BY <1>1, <2>0, <3>1 DEF LogSound, Running
    <3>3. Chat!Answers(t, stored[c]) = {}
      BY <1>1, <2>0 DEF LogSound
    <3>4. CASE kind[c] = "durable"
      <4> DEFINE a == Len(stored[c]) + 1
      <4>1. stored'[c] = Append(stored[c], m)
        BY <1>1, <1>2, <2>0, <3>4 DEF Stores
      <4>2. PICK q \in Chat!Questions(t, stored[c]) : TRUE
        BY <2>0, <3>1, <3>4 DEF LogSound
      <4>3. /\ Chat!Answers(t, stored'[c]) = {a}
            /\ q \in Chat!Questions(t, stored'[c]) /\ q < a
        <5>1. m = Chat!Message(t, "answer")
          BY <2>3
        <5> HIDE DEF m
        <5> QED BY <1>3, <2>0, <3>3, <4>1, <4>2, <5>1, LogGrows
      <4> HIDE DEF a
      <4>4. Replies(t, turn'[t], kind[c], stored'[c])
        BY <3>1, <3>4, <4>3 DEF Replies
      <4> QED BY <1>1, <3>2, <4>4 DEF Answered
    <3>5. CASE kind[c] # "durable"
      <4>1. stored' = stored
        BY <1>2, <3>5 DEF Stores
      <4>2. Replies(t, turn'[t], kind[c], stored'[c])
        BY <3>3, <3>5, <4>1 DEF Replies
      <4> QED BY <1>1, <3>2, <4>2 DEF Answered
    <3> QED BY <3>4, <3>5
  <2> QED BY <2>1, <2>2, <2>3
<1> QED BY <1>4, <1>5, <1>6

\* A turn that says nothing, or rests, does too.
LEMMA SilentKeeps ==
  ASSUME ChatInv, UNCHANGED <<kind, stored>>,
         turn' \in [Actions -> TurnState], NEW u \in Actions,
         turn'[u] = turn[u] \/ Rests(u)
  PROVE  LogSound(u)' /\ Answered(u)'
BY OthersKeep

LEMMA BudgetStays ==
  ASSUME left \in Budget
  PROVE  /\ \A k \in {"calls", "faults", "aborts", "settings", "hours", "restarts"} :
              Chat!Spend(k) => left' \in Budget
         /\ \A n \in 1..left.calls :
              left' = [left EXCEPT !.calls = @ - n] => left' \in Budget
<1>1. ASSUME NEW k \in {"calls", "faults", "aborts", "settings", "hours", "restarts"},
             Chat!Spend(k)
      PROVE  left' \in Budget
  <2> DEFINE rest == left[k] - 1
  <2>1. rest \in Nat /\ left' = [left EXCEPT ![k] = rest]
    BY <1>1 DEF Budget, Chat!Spend
  <2> HIDE DEF rest
  <2> QED BY <2>1 DEF Budget
<1>2. ASSUME NEW n \in 1..left.calls, left' = [left EXCEPT !.calls = @ - n]
      PROVE  left' \in Budget
  <2> DEFINE rest == left.calls - n
  <2>1. left.calls \in Nat
    BY DEF Budget
  <2>2. rest \in Nat /\ left' = [left EXCEPT !.calls = rest]
    BY <1>2, <2>1
  <2> HIDE DEF rest
  <2> QED BY <2>2 DEF Budget
<1> QED BY <1>1, <1>2

\* A conversation that is found has a kind, and one that is opened had none.
LEMMA ResolveKeeps ==
  ASSUME ChatInv, NEW t \in Actions, NEW c \in Convs,
         Chat!Continue(t, c) \/ Chat!OpenNew(t, c)
  PROVE  ChatInv'
<1>1. /\ turn[t].pc = "resolve" /\ UNCHANGED <<stored, temp, save, card, left>>
      /\ Chat!Set(t, [turn[t] EXCEPT !.pc = "open", !.conv = c])
  BY DEF Chat!Continue, Chat!OpenNew
<1>2. Moves(t) /\ turn'[t].pc = "open" /\ turn'[t].conv = c
  BY <1>1, ResolvesSound
<1>3. /\ kind' \in [Convs -> {"none", "durable", "temporary"}]
      /\ kind'[c] # "none"
      /\ \A d \in Convs : kind'[d] # kind[d] => kind[d] = "none"
  BY DEF Chat!Continue, Chat!OpenNew, Chat!Kind, ChatInv, ChatTyped
<1>4. ChatTyped'
  <2>1. ChatTyped
    BY DEF ChatInv
  <2> QED BY <1>1, <1>2, <1>3, <2>1 DEF ChatTyped, Moves, Budget, TurnState, Said,
             Running, Returned
<1>5. CacheSound(temp)'
  <2>1. CacheSound(temp) /\ temp' = temp
    BY <1>1 DEF ChatInv
  <2>2. \A i \in DOMAIN temp : temp[i].conv \in Convs
    <3>1. \A i \in DOMAIN temp : temp[i] \in Entry
      BY <2>1 DEF CacheSound
    <3> QED BY <3>1 DEF Entry
  <2>3. \A i \in DOMAIN temp : kind'[temp[i].conv] = "temporary"
    BY <1>3, <2>1, <2>2 DEF CacheSound
  <2> QED BY <2>1, <2>3 DEF CacheSound, Entry, Said
<1>6. StoredSound'
  BY <1>1, <1>3 DEF ChatInv, StoredSound
<1>7. ASSUME NEW u \in Actions PROVE LogSound(u)' /\ Answered(u)'
  <2>1. LogSound(u) /\ Answered(u) /\ turn[u] \in TurnState
    BY AnsweredAll DEF ChatInv, ChatTyped
  <2>2. CASE u = t
    <3>1. LogSound(u)'
      BY <1>1, <1>2, <1>3, <2>1, <2>2 DEF LogSound, Running
    <3>2. Answered(u)'
      BY <1>2, <2>2 DEF Answered, Replies
    <3> QED BY <3>1, <3>2
  <2>3. CASE u # t
    <3>1. turn'[u] = turn[u] /\ turn[u].conv \in Convs \cup {NoConv}
      BY <1>2, <2>1, <2>3 DEF Moves, TurnState
    <3>2. turn[u].conv \in Convs => kind'[turn[u].conv] = kind[turn[u].conv]
      BY <1>3, <2>1 DEF LogSound
    <3>3. turn[u].pc \in Running => turn[u].conv \in Convs
      BY TurnFacts DEF TurnSound
    <3>4. LogSound(u)'
      BY <1>1, <2>1, <3>1, <3>2, <3>3 DEF LogSound, Running
    <3>5. Answered(u)'
      BY <1>1, <2>1, <3>1, <3>2 DEF Answered
    <3> QED BY <3>4, <3>5
  <2> QED BY <2>2, <2>3
<1>8. (\A u \in Actions : TurnSound(turn[u]))'
  BY <1>2 DEF Moves
<1>9. Chat!AnswerStoredOnce'
  BY <1>7, AnsweredAll
<1> QED BY <1>4, <1>5, <1>6, <1>7, <1>8, <1>9 DEF ChatInv

\* A step in which the conversations keep their kinds.
LEMMA KeepsInv ==
  ASSUME ChatInv, UNCHANGED kind, CacheSound(temp'),
         stored' \in [Convs -> Seq(Said)], StoredSound',
         card' \in [Convs -> BOOLEAN], save' \in BOOLEAN, left' \in Budget,
         turn' \in [Actions -> TurnState],
         \A u \in Actions : /\ TurnSound(turn'[u])
                            /\ LogSound(u)' /\ Answered(u)'
  PROVE  ChatInv'
<1>1. ChatTyped'
  <2>1. kind' \in [Convs -> {"none", "durable", "temporary"}]
    BY DEF ChatInv, ChatTyped
  <2> QED BY <2>1 DEF ChatTyped, Budget, TurnState, Said, Running, Returned
<1>2. CacheSound(temp)'
  BY DEF CacheSound, Entry, Said
<1>3. Chat!AnswerStoredOnce'
  BY AnsweredAll
<1>4. (\A u \in Actions : TurnSound(turn[u]))'
  OBVIOUS
<1> QED BY <1>1, <1>2, <1>3, <1>4 DEF ChatInv

\* The step of a turn.
LEMMA TurnStep ==
  ASSUME ChatInv, NEW t \in Actions, Silent(t) \/ Speaks(t),
         card' \in [Convs -> BOOLEAN], UNCHANGED save, left' \in Budget
  PROVE  ChatInv'
<1>1. /\ ChatTyped /\ CacheSound(temp) /\ StoredSound
      /\ turn' \in [Actions -> TurnState] /\ UNCHANGED kind
      /\ \A u \in Actions : TurnSound(turn'[u])
      /\ \A u \in Actions : u # t => turn'[u] = turn[u]
  BY DEF ChatInv, Silent, Speaks, Moves
<1>2. save' \in BOOLEAN
  BY <1>1 DEF ChatTyped
<1>3. CASE Silent(t)
  <2>1. UNCHANGED <<stored, temp>> /\ Rests(t)
    BY <1>3 DEF Silent
  <2>2. \A u \in Actions : LogSound(u)' /\ Answered(u)'
    BY <1>1, <2>1, SilentKeeps
  <2>3. stored' \in [Convs -> Seq(Said)] /\ StoredSound' /\ CacheSound(temp')
    BY <1>1, <2>1 DEF ChatTyped, StoredSound
  <2> QED BY <1>1, <1>2, <2>2, <2>3, KeepsInv
<1>4. CASE Speaks(t)
  <2>1. CacheSound(temp')
    BY <1>4 DEF Speaks
  <2> QED BY <1>1, <1>2, <1>4, <2>1, SpeaksKeeps, KeepsInv
<1> QED BY <1>3, <1>4

\* What happens beside the turns.
LEMMA BesideStep ==
  ASSUME ChatInv,
         \/ \E c \in Convs : Chat!Confirm(c)
         \/ Chat!ChangesSetting \/ Chat!HourPasses \/ Chat!Restart
  PROVE  ChatInv'
<1>1. /\ ChatTyped /\ CacheSound(temp) /\ StoredSound
      /\ \A u \in Actions : TurnSound(turn[u])
      /\ left \in Budget /\ save \in BOOLEAN /\ card \in [Convs -> BOOLEAN]
      /\ turn \in [Actions -> TurnState] /\ stored \in [Convs -> Seq(Said)]
  BY DEF ChatInv, ChatTyped
<1>2. CASE \E c \in Convs : Chat!Confirm(c)
  <2>1. PICK c \in Convs : Chat!Confirm(c)
    BY <1>2
  <2> DEFINE m == [by |-> c, role |-> "outcome"]
  <2>2. m \in Said /\ \A u \in Actions : m # Chat!Message(u, "answer")
    BY DEF Said, Chat!Message
  <2>3. /\ Chat!Appended(c, m, "unknown") /\ card' \in [Convs -> BOOLEAN]
        /\ UNCHANGED <<kind, save, turn, left>>
    BY <1>1, <2>1 DEF Chat!Confirm
  <2> HIDE DEF m
  <2>4. Stores(c, m) /\ CacheSound(temp')
    BY <2>2, <2>3, Told
  <2>5. stored' \in [Convs -> Seq(Said)] /\ StoredSound'
    BY <2>2, <2>3, <2>4, StoredStays
  <2>6. ASSUME NEW u \in Actions PROVE LogSound(u)' /\ Answered(u)'
    <3>1. \A d \in Convs :
            /\ Chat!Answers(u, stored'[d]) = Chat!Answers(u, stored[d])
            /\ Chat!Questions(u, stored[d]) \subseteq Chat!Questions(u, stored'[d])
      BY <2>2, <2>4, OthersStay
    <3> QED BY <2>3, <3>1, OthersKeep
  <2> QED BY <1>1, <2>3, <2>4, <2>5, <2>6, KeepsInv
<1>3. ASSUME UNCHANGED <<kind, stored, card, turn>>, CacheSound(temp'),
             save' \in BOOLEAN, left' \in Budget
      PROVE  ChatInv'
  <2>1. \A u \in Actions : LogSound(u)' /\ Answered(u)'
    BY <1>1, <1>3, SilentKeeps
  <2>2. StoredSound'
    BY <1>1, <1>3 DEF StoredSound
  <2> QED BY <1>1, <1>3, <2>1, <2>2, KeepsInv
<1>4. CASE Chat!ChangesSetting
  <2>1. UNCHANGED <<kind, stored, card, turn, temp>> /\ save' \in BOOLEAN
    BY <1>1, <1>4 DEF Chat!ChangesSetting
  <2>2. left' \in Budget
    BY <1>1, <1>4, BudgetStays DEF Chat!ChangesSetting
  <2> QED BY <1>1, <1>3, <2>1, <2>2
<1>5. CASE Chat!HourPasses
  <2>1. UNCHANGED <<kind, stored, card, turn, save>>
    BY <1>5 DEF Chat!HourPasses
  <2>2. left' \in Budget
    BY <1>1, <1>5, BudgetStays DEF Chat!HourPasses
  <2>3. temp' = [i \in DOMAIN temp |-> [temp[i] EXCEPT !.old = TRUE]]
    BY <1>5 DEF Chat!HourPasses
  <2>4. temp \in Seq(Entry) /\ Len(temp) \in Nat /\ DOMAIN temp = 1..Len(temp)
    BY <1>1 DEF CacheSound
  <2>5. ASSUME NEW i \in DOMAIN temp
        PROVE  temp'[i] \in Entry /\ temp'[i].conv = temp[i].conv
    <3>1. temp[i] \in Entry
      BY <2>4
    <3> QED BY <2>3, <3>1 DEF Entry
  <2>6. temp' \in Seq(Entry) /\ Len(temp') = Len(temp) /\ DOMAIN temp' = DOMAIN temp
    <3>1. temp' = [i \in 1..Len(temp) |-> temp'[i]]
      BY <2>3, <2>4
    <3> QED BY <2>4, <2>5, <3>1
  <2>7. CacheSound(temp')
    BY <1>1, <2>5, <2>6 DEF CacheSound
  <2> QED BY <1>1, <1>3, <2>1, <2>2, <2>7
<1>6. CASE Chat!Restart
  <2>1. /\ UNCHANGED <<kind, stored, card, save>> /\ temp' = <<>>
        /\ turn' = [t \in Actions |->
                      IF turn[t].pc \in {"new", "done"} THEN turn[t]
                      ELSE Chat!Ended(t, "crashed")]
    BY <1>6 DEF Chat!Restart
  <2>2. left' \in Budget
    BY <1>1, <1>6, BudgetStays DEF Chat!Restart
  <2>3. CacheSound(temp')
    BY <2>1, ChatAssumption DEF CacheSound, Chat!ChatTurnAssumption
  <2>4. ASSUME NEW u \in Actions
        PROVE  /\ turn'[u] \in TurnState /\ TurnSound(turn'[u])
               /\ turn'[u] = turn[u] \/ Rests(u)
    <3>1. CASE turn[u].pc \in {"new", "done"}
      BY <1>1, <2>1, <3>1
    <3>2. CASE turn[u].pc \notin {"new", "done"}
      <4>1. turn'[u] = Chat!Ended(u, "crashed") /\ turn[u].pc # "done"
            /\ turn[u] \in TurnState
        BY <1>1, <2>1, <3>2
      <4>2. turn'[u] \in TurnState /\ TurnSound(turn'[u])
        BY <4>1, EndsSound
      <4>3. turn'[u].pc = "done" /\ turn'[u].result = "crashed"
            /\ turn'[u].conv = turn[u].conv
        BY <4>1 DEF Chat!Ended, TurnState
      <4> QED BY <4>1, <4>2, <4>3 DEF Rests, Returned, Running
    <3> QED BY <3>1, <3>2
  <2>5. turn' \in [Actions -> TurnState]
    <3>1. turn' = [u \in Actions |-> turn'[u]]
      BY <2>1
    <3> QED BY <2>4, <3>1
  <2>6. \A u \in Actions : LogSound(u)' /\ Answered(u)'
    BY <2>1, <2>4, <2>5, SilentKeeps
  <2>7. StoredSound' /\ stored' \in [Convs -> Seq(Said)] /\ save' \in BOOLEAN
        /\ card' \in [Convs -> BOOLEAN]
    BY <1>1, <2>1 DEF StoredSound
  <2> QED BY <2>1, <2>2, <2>3, <2>4, <2>5, <2>6, <2>7, KeepsInv
<1> QED BY <1>2, <1>4, <1>5, <1>6

LEMMA ChatStep == ChatInv /\ [Chat!Next]_chat => ChatInv'
<1> SUFFICES ASSUME ChatInv, [Chat!Next]_chat PROVE ChatInv'
  OBVIOUS
<1>1. left \in Budget /\ card \in [Convs -> BOOLEAN]
  BY DEF ChatInv, ChatTyped
<1>2. ASSUME NEW t \in Actions, Silent(t) \/ Speaks(t),
             UNCHANGED <<save, card, left>>
      PROVE  ChatInv'
  BY <1>1, <1>2, TurnStep
<1>3. ASSUME NEW t \in Actions, Chat!Step(t) \/ Chat!Aborts(t) PROVE ChatInv'
  <2>1. CASE \E c \in Convs : Chat!Continue(t, c) \/ Chat!OpenNew(t, c)
    BY <2>1, ResolveKeeps
  <2>2. CASE Chat!Enter(t)
    BY <1>2, <2>2, EnterMoves DEF Chat!Enter
  <2>3. CASE Chat!LookUp(t)
    BY <1>2, <2>3, LooksUp DEF Chat!LookUp
  <2>4. CASE Chat!LookUpFails(t)
    <3>1. UNCHANGED <<save, card>> /\ left' \in Budget
      BY <1>1, <2>4, BudgetStays DEF Chat!LookUpFails
    <3> QED BY <1>1, <2>4, <3>1, LooksUp, TurnStep
  <2>5. CASE Chat!ModelCalls(t)
    <3>1. UNCHANGED <<save, card>> /\ left' \in Budget
      BY <1>1, <2>5, BudgetStays DEF Chat!ModelCalls
    <3> QED BY <1>1, <2>5, <3>1, ModelMoves, TurnStep
  <2>6. CASE Chat!ModelAnswers(t)
    BY <1>2, <2>6, ModelMoves DEF Chat!ModelAnswers
  <2>7. CASE Chat!ModelFails(t)
    <3>1. UNCHANGED <<save, card>> /\ left' \in Budget
      BY <1>1, <2>7, BudgetStays DEF Chat!ModelFails
    <3> QED BY <1>1, <2>7, <3>1, ModelMoves, TurnStep
  <2>8. CASE Chat!GivesUp(t)
    BY <1>2, <2>8, ModelMoves DEF Chat!GivesUp
  <2>9. CASE Chat!CallAgain(t)
    BY <1>2, <2>9, CallMoves DEF Chat!CallAgain
  <2>10. CASE Chat!CallRuns(t)
    BY <1>2, <2>10, CallMoves DEF Chat!CallRuns
  <2>11. CASE Chat!CallFails(t)
    <3>1. UNCHANGED <<save, card>> /\ left' \in Budget
      BY <1>1, <2>11, BudgetStays DEF Chat!CallFails
    <3> QED BY <1>1, <2>11, <3>1, CallMoves, TurnStep
  <2>12. CASE Chat!CallPrepared(t)
    BY <1>2, <2>12, CallMoves DEF Chat!CallPrepared
  <2>13. CASE Chat!NextRound(t)
    BY <1>2, <2>13, RoundMoves DEF Chat!NextRound
  <2>14. CASE Chat!Propose(t) \/ Chat!SendAtOnce(t)
    <3>1. UNCHANGED <<save, left>>
      BY <2>14 DEF Chat!Propose, Chat!SendAtOnce
    <3> QED BY <1>1, <2>14, <3>1, CardMoves, TurnStep
  <2>15. CASE Chat!Aborts(t)
    <3>1. /\ UNCHANGED <<kind, stored, temp, save, card>> /\ left' \in Budget
          /\ Chat!Set(t, Chat!Ended(t, "aborted")) /\ turn[t].pc # "done"
      BY <1>1, <2>15, BudgetStays DEF Chat!Aborts, Chat!Calling
    <3>2. Silent(t)
      BY <3>1, EndsMute DEF Silent
    <3> QED BY <1>1, <3>1, <3>2, TurnStep
  <2> QED BY <1>3, <2>1, <2>2, <2>3, <2>4, <2>5, <2>6, <2>7, <2>8, <2>9, <2>10,
             <2>11, <2>12, <2>13, <2>14, <2>15 DEF Chat!Step
<1>4. ASSUME NEW t \in Actions, NEW about \in Chat!Abouts, NEW auto \in BOOLEAN,
             Chat!Begin(t, about, auto)
      PROVE  ChatInv'
  <2>1. UNCHANGED <<kind, stored, temp, save, card, left>> /\ turn[t].pc = "new"
    BY <1>4 DEF Chat!Begin
  <2>2. Moves(t) /\ turn'[t].pc = "resolve" /\ turn'[t].conv = turn[t].conv
    BY <1>4, BeginsSound
  <2>3. Silent(t)
    BY <2>1, <2>2 DEF Silent, Rests, Running
  <2> QED BY <1>2, <2>1, <2>3
<1>5. CASE UNCHANGED chat
  <2>1. UNCHANGED <<kind, stored, temp, save, card, turn, left>>
    BY <1>5 DEF chat
  <2>2. \A u \in Actions : LogSound(u)' /\ Answered(u)'
    BY <2>1, SilentKeeps DEF ChatInv, ChatTyped
  <2> QED BY <2>1, <2>2, KeepsInv DEF ChatInv, ChatTyped, StoredSound
<1>6. CASE Chat!Next
  BY <1>3, <1>4, <1>6, BesideStep DEF Chat!Next
<1> QED BY <1>5, <1>6

\* The invariant says more than what is checked.
LEMMA ChatPromises == ChatInv => ChatKept
<1> SUFFICES ASSUME ChatInv PROVE ChatKept
  OBVIOUS
<1>1. \A t \in Actions : turn[t] \in TurnState /\ TurnSound(turn[t])
  BY TurnFacts
<1>2. Chat!TypeOK
  BY <1>1 DEF Chat!TypeOK, ChatInv, ChatTyped, CacheSound, TurnState
<1>3. Chat!TemporaryNeverStored
  BY DEF ChatInv, StoredSound, Chat!TemporaryNeverStored
<1>4. Chat!RunsOnce /\ Chat!AnswersFromData
  BY <1>1 DEF Chat!RunsOnce, Chat!AnswersFromData, TurnSound, Tried
<1>5. Chat!AnswerStoredOnce
  BY DEF ChatInv
<1> QED BY <1>2, <1>3, <1>4, <1>5 DEF ChatKept

\* What the assistant's turns promise, for any number of turns, rounds and
\* conversations, and any cache: an answer is stored once and after its
\* question, no call runs twice, nothing temporary is stored, and no answer
\* about the business goes without its data (ai-agent.service.ts).
THEOREM TurnsAreKept == MCSpec => []ChatKept
<1>1. MCInit => ChatInv
  BY ChatInit DEF MCInit
<1>2. ChatInv /\ [MCNext]_<<part, vars, chat, memory>> => ChatInv'
  <2> SUFFICES ASSUME ChatInv, [MCNext]_<<part, vars, chat, memory>>
               PROVE  ChatInv'
    OBVIOUS
  <2>1. [Chat!Next]_chat
    BY DEF MCNext
  <2> QED BY <2>1, ChatStep
<1>3. ChatInv => ChatKept
  BY ChatPromises
<1> QED BY <1>1, <1>2, <1>3, PTL DEF MCSpec
===============================================================================
