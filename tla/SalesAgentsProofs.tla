-------------------------- MODULE SalesAgentsProofs --------------------------
(***************************************************************************)
(* Proofs about the sales agents for every set of messages and events and  *)
(* every bound: a chat keeps its turns (module SalesTurn), and so does the *)
(* composite of MCSalesAgents with the comments of an Instagram account    *)
(* and the messages of a WhatsApp number.                                  *)
(***************************************************************************)
EXTENDS MCSalesAgents, SequenceTheorems, TLAPS

\* Deliveries are numbered as they come in; s keeps that order, and all of s
\* came before all of t.
Ordered(s) == \A i, j \in DOMAIN s : i < j => s[i].number < s[j].number
Before(s, t) ==
  \A i \in DOMAIN s, j \in DOMAIN t : s[i].number < t[j].number
UpToNow(s) == \A i \in DOMAIN s : s[i].number <= delivered

\* What was answered came before the turns, and these before the receipts
\* still to be inserted; the turn that is answering was answered last.
InOrder ==
  /\ Ordered(answered) /\ Ordered(turns) /\ Ordered(reserving)
  /\ Before(answered, reserving) /\ Before(turns, reserving)
  /\ UpToNow(answered) /\ UpToNow(turns) /\ UpToNow(reserving)
  /\ \A k \in DOMAIN answered, i \in DOMAIN turns :
       /\ answered[k].number <= turns[i].number
       /\ turns[i].pc # "answering" => answered[k].number < turns[i].number

\* Only the first turn of the chain runs; the last one has the current
\* generation, and generations are as many as reservations that ended.
Chain ==
  /\ \A i \in DOMAIN turns :
       /\ i # 1 => turns[i].pc = "queued"
       /\ turns[i].pc = "debounce" => turns[i].message \in Fragments
  /\ turns # <<>> => /\ turns[Len(turns)].generation = generation
                     /\ newest = {turns[Len(turns)].message}
  /\ generation + Len(reserving) <= delivered
  /\ fragments \in Seq(Fragments)

\* While the receipts are in the database, a message that waits or was
\* answered has its receipt, waits once, and if complete was not answered
\* before.
Receipted ==
  receiptTable =>
    /\ \A i \in DOMAIN turns : turns[i].message \in receipts
    /\ \A k \in DOMAIN answered, m \in Complete :
         Contains(answered[k].batch, m) => m \in receipts
    /\ \A i, j \in DOMAIN turns : turns[i].message = turns[j].message => i = j
    /\ \A k \in DOMAIN answered, i \in DOMAIN turns :
         /\ turns[i].message \in Complete
         /\ Contains(answered[k].batch, turns[i].message)
         => turns[i].pc = "answering"

\* Buffered fragments have a turn before them that will take them, unless the
\* newest message takes none.
Owned ==
  fragments # <<>> =>
    \/ newest # {} /\ newest \subseteq Media
    \/ turns # <<>> /\ turns[Len(turns)].pc # "answering"

IInv == TypeOK /\ InOrder /\ Chain /\ Receipted /\ Owned /\ CompleteAnsweredOnce

-----------------------------------------------------------------------------
(* Sequences.                                                              *)

\* What is left of a sequence when its first element has gone.
LEMMA Shorter ==
  ASSUME NEW S, NEW s \in Seq(S), s # <<>>
  PROVE  /\ Tail(s) \in Seq(S) /\ Len(Tail(s)) = Len(s) - 1
         /\ DOMAIN Tail(s) = 1..Len(s) - 1 /\ DOMAIN s = 1..Len(s)
         /\ Len(s) \in Nat \ {0} /\ Head(s) = s[1] /\ s[1] \in S
         /\ \A i \in 1..Len(s) - 1 : Tail(s)[i] = s[i + 1]
         /\ RemoveAt(s, 1) = Tail(s)
<1>1. /\ Tail(s) \in Seq(S) /\ Len(Tail(s)) = Len(s) - 1
      /\ \A i \in 1..Len(Tail(s)) : Tail(s)[i] = s[i + 1]
  BY HeadTailProperties
<1>2. Len(s) \in Nat \ {0} /\ DOMAIN s = 1..Len(s) /\ s[1] \in S
  BY EmptySeq, LenProperties, ElementOfSeq
<1>3. DOMAIN Tail(s) = 1..Len(s) - 1
  BY <1>1, LenProperties
<1>4. RemoveAt(s, 1) = Tail(s)
  <2>1. SubSeq(s, 1, 0) = <<>>
    BY SubSeqEmpty
  <2>2. SubSeq(s, 2, Len(s)) = Tail(s)
    BY TailIsSubSeq
  <2>3. <<>> \o Tail(s) = Tail(s)
    BY <1>1, ConcatEmptySeq
  <2> QED BY <2>1, <2>2, <2>3 DEF RemoveAt
<1> QED BY <1>1, <1>2, <1>3, <1>4

\* What a sequence is when an element was put at its end.
LEMMA Longer ==
  ASSUME NEW S, NEW s \in Seq(S), NEW e \in S
  PROVE  /\ Append(s, e) \in Seq(S) /\ Append(s, e) # <<>>
         /\ Len(s) \in Nat /\ Len(Append(s, e)) = Len(s) + 1
         /\ DOMAIN s = 1..Len(s) /\ DOMAIN Append(s, e) = 1..Len(s) + 1
         /\ \A i \in 1..Len(s) : Append(s, e)[i] = s[i]
         /\ Append(s, e)[Len(s) + 1] = e
BY AppendProperties, LenProperties

\* What a sequence is when its first element was replaced.
LEMMA Replaced ==
  ASSUME NEW S, NEW s \in Seq(S), s # <<>>, NEW e \in S
  PROVE  LET r == [s EXCEPT ![1] = e] IN
         /\ r \in Seq(S) /\ r # <<>> /\ Len(r) = Len(s)
         /\ DOMAIN r = 1..Len(s) /\ DOMAIN s = 1..Len(s)
         /\ Len(s) \in Nat \ {0}
         /\ \A i \in 1..Len(s) : r[i] = IF i = 1 THEN e ELSE s[i]
<1>1. Len(s) \in Nat \ {0} /\ DOMAIN s = 1..Len(s)
  BY EmptySeq, LenProperties
<1>2. 1 \in 1..Len(s)
  BY <1>1
<1>3. /\ [s EXCEPT ![1] = e] \in Seq(S) /\ Len([s EXCEPT ![1] = e]) = Len(s)
      /\ \A j \in 1..Len(s) : [s EXCEPT ![1] = e][j] = IF j = 1 THEN e ELSE s[j]
  BY <1>2, ExceptSeq
<1>4. [s EXCEPT ![1] = e] # <<>>
  BY <1>1, <1>3, EmptySeq
<1>5. DOMAIN [s EXCEPT ![1] = e] = 1..Len(s)
  BY <1>3, LenProperties
<1> QED BY <1>1, <1>3, <1>4, <1>5

\* An empty sequence has an empty domain.
LEMMA Nothing == DOMAIN <<>> = {} /\ Len(<<>>) = 0 /\ \A S : <<>> \in Seq(S)
BY EmptySeq, LenProperties

\* An element put at the end of an ordered sequence, after all others.
LEMMA OrderedLonger ==
  ASSUME NEW s, NEW r, NEW n \in Nat, DOMAIN s = 1..n, DOMAIN r = 1..n + 1,
         \A i \in 1..n : r[i] = s[i],
         Ordered(s), \A i \in 1..n : s[i].number < r[n + 1].number
  PROVE  Ordered(r)
<1> SUFFICES ASSUME NEW i \in 1..n + 1, NEW j \in 1..n + 1, i < j
             PROVE  r[i].number < r[j].number
  BY DEF Ordered
<1>1. i \in 1..n
  OBVIOUS
<1>2. CASE j = n + 1
  BY <1>1, <1>2
<1>3. CASE j \in 1..n
  BY <1>1, <1>3 DEF Ordered
<1> QED BY <1>2, <1>3

\* An ordered sequence whose first element has gone.
LEMMA OrderedShorter ==
  ASSUME NEW s, NEW r, NEW n \in Nat, DOMAIN s = 1..n, DOMAIN r = 1..n - 1,
         \A i \in 1..n - 1 : r[i] = s[i + 1], Ordered(s)
  PROVE  Ordered(r)
<1> SUFFICES ASSUME NEW i \in 1..n - 1, NEW j \in 1..n - 1, i < j
             PROVE  r[i].number < r[j].number
  BY DEF Ordered
<1>1. i + 1 \in 1..n /\ j + 1 \in 1..n /\ i + 1 < j + 1
  OBVIOUS
<1>2. s[i + 1].number < s[j + 1].number
  BY <1>1 DEF Ordered
<1> QED BY <1>2

-----------------------------------------------------------------------------
(* The turns of a chat.                                                    *)

Delivery == [message : Messages, number : 1..MaxDeliveries]
Reply == [number : 1..MaxDeliveries, batch : Seq(Messages)]

\* An empty chat keeps everything.
LEMMA TurnsInit == Init => IInv
BY SalesTurnAssumption, Nothing
DEF Init, IInv, TypeOK, InOrder, Ordered, Before, UpToNow, Chain, Receipted,
    Owned, CompleteAnsweredOnce

\* The domains that the invariant speaks of, and what is in them.
LEMMA Domains ==
  ASSUME TypeOK
  PROVE  /\ DOMAIN turns = 1..Len(turns) /\ Len(turns) \in Nat
         /\ DOMAIN answered = 1..Len(answered) /\ Len(answered) \in Nat
         /\ DOMAIN reserving = 1..Len(reserving) /\ Len(reserving) \in Nat
         /\ (turns # <<>> <=> Len(turns) # 0)
         /\ (reserving # <<>> <=> Len(reserving) # 0)
         /\ \A i \in DOMAIN turns : turns[i] \in Turn /\ turns[i].number \in Nat
         /\ \A i \in DOMAIN answered :
              answered[i] \in Reply /\ answered[i].number \in Nat
         /\ \A i \in DOMAIN reserving :
              reserving[i] \in Delivery /\ reserving[i].number \in Nat
<1>1. /\ turns \in Seq(Turn) /\ answered \in Seq(Reply)
      /\ reserving \in Seq(Delivery)
  BY DEF TypeOK, Reply, Delivery
<1>2. /\ DOMAIN turns = 1..Len(turns) /\ Len(turns) \in Nat
      /\ DOMAIN answered = 1..Len(answered) /\ Len(answered) \in Nat
      /\ DOMAIN reserving = 1..Len(reserving) /\ Len(reserving) \in Nat
  BY <1>1, LenProperties
<1>3. /\ turns # <<>> <=> Len(turns) # 0
      /\ reserving # <<>> <=> Len(reserving) # 0
  BY <1>1, EmptySeq
<1>4. \A i \in DOMAIN turns : turns[i] \in Turn
  BY <1>1, <1>2, ElementOfSeq
<1>5. \A i \in DOMAIN answered : answered[i] \in Reply
  BY <1>1, <1>2, ElementOfSeq
<1>6. \A i \in DOMAIN reserving : reserving[i] \in Delivery
  BY <1>1, <1>2, ElementOfSeq
<1>7. /\ \A t \in Turn : t.number \in Nat
      /\ \A r \in Reply : r.number \in Nat
      /\ \A d \in Delivery : d.number \in Nat
  BY SalesTurnAssumption DEF Turn, Reply, Delivery
<1> QED BY <1>2, <1>3, <1>4, <1>5, <1>6, <1>7

\* A message that comes in is numbered after all others.
LEMMA DeliverKeeps == ASSUME IInv, NEW m \in Messages, Deliver(m) PROVE IInv'
<1> DEFINE d == [message |-> m, number |-> delivered + 1]
<1>t. TypeOK /\ delivered' \in 1..MaxDeliveries /\ delivered \in Nat
  BY SalesTurnAssumption DEF IInv, TypeOK, Deliver
<1>1. /\ d \in Delivery /\ reserving \in Seq(Delivery)
      /\ reserving' = Append(reserving, d)
  BY <1>t DEF Deliver, Delivery, TypeOK
<1> HIDE DEF d
<1>2. /\ reserving' \in Seq(Delivery) /\ Len(reserving') = Len(reserving) + 1
      /\ DOMAIN reserving' = 1..Len(reserving) + 1
      /\ DOMAIN reserving = 1..Len(reserving) /\ Len(reserving) \in Nat
      /\ \A i \in 1..Len(reserving) : reserving'[i] = reserving[i]
      /\ reserving'[Len(reserving) + 1] = d
  BY <1>1, Longer
<1>3. d.number = delivered + 1
  BY DEF d
<1>4. TypeOK'
  BY <1>t, <1>2 DEF TypeOK, Deliver, Delivery, Turn
<1>5. InOrder'
  <2>1. UNCHANGED <<turns, answered>> /\ delivered' = delivered + 1
    BY DEF Deliver
  <2>2. \A i \in DOMAIN reserving' :
          \/ i \in DOMAIN reserving /\ reserving'[i] = reserving[i]
          \/ reserving'[i].number = delivered + 1
    BY <1>2, <1>3
  <2>3. /\ \A i \in DOMAIN turns : turns[i].number <= delivered
        /\ \A i \in DOMAIN answered : answered[i].number <= delivered
        /\ \A i \in DOMAIN reserving : reserving[i].number <= delivered
    BY DEF IInv, InOrder, UpToNow
  <2>4. /\ \A i \in DOMAIN turns : turns[i].number \in Nat
        /\ \A i \in DOMAIN answered : answered[i].number \in Nat
        /\ \A i \in DOMAIN reserving : reserving[i].number \in Nat
    BY <1>t, Domains
  <2>5. Ordered(reserving)'
    <3>1. Ordered(reserving)
      BY DEF IInv, InOrder
    <3>2. \A i \in 1..Len(reserving) : reserving[i].number < delivered + 1
      BY <1>t, <1>2, <2>3, <2>4
    <3>3. Ordered(reserving')
      BY <1>2, <1>3, <3>1, <3>2, OrderedLonger
    <3> QED BY <3>3 DEF Ordered
  <2>6. Before(answered, reserving)' /\ Before(turns, reserving)'
    BY <1>t, <2>1, <2>2, <2>3, <2>4 DEF IInv, InOrder, Before
  <2>7. UpToNow(answered)' /\ UpToNow(turns)' /\ UpToNow(reserving)'
    BY <1>t, <2>1, <2>2, <2>3, <2>4 DEF UpToNow
  <2> QED BY <2>1, <2>5, <2>6, <2>7 DEF IInv, InOrder, Ordered
<1>6. Chain'
  BY <1>t, <1>2 DEF IInv, Chain, Deliver, TypeOK
<1>7. Receipted' /\ Owned' /\ CompleteAnsweredOnce'
  BY DEF IInv, Receipted, Owned, CompleteAnsweredOnce, Deliver
<1> QED BY <1>4, <1>5, <1>6, <1>7 DEF IInv

\* What the reservation chain is when its first delivery has left it.
LEMMA LeavesReserving ==
  ASSUME TypeOK, reserving # <<>>, reserving' = Tail(reserving)
  PROVE  /\ reserving' \in Seq(Delivery)
         /\ Len(reserving) \in Nat \ {0} /\ Len(reserving') = Len(reserving) - 1
         /\ DOMAIN reserving' = 1..Len(reserving) - 1
         /\ DOMAIN reserving = 1..Len(reserving)
         /\ \A i \in 1..Len(reserving) - 1 :
              /\ reserving'[i] = reserving[i + 1]
              /\ i + 1 \in DOMAIN reserving
<1>1. reserving \in Seq(Delivery)
  BY DEF TypeOK, Delivery
<1>2. /\ Tail(reserving) \in Seq(Delivery)
      /\ Len(Tail(reserving)) = Len(reserving) - 1
      /\ DOMAIN Tail(reserving) = 1..Len(reserving) - 1
      /\ DOMAIN reserving = 1..Len(reserving) /\ Len(reserving) \in Nat \ {0}
      /\ \A i \in 1..Len(reserving) - 1 : Tail(reserving)[i] = reserving[i + 1]
  BY <1>1, Shorter
<1>3. \A i \in 1..Len(reserving) - 1 : i + 1 \in DOMAIN reserving
  BY <1>2
<1> QED BY <1>2, <1>3

\* The order of the deliveries that are left.
LEMMA LeavesReservingInOrder ==
  ASSUME TypeOK, InOrder, reserving # <<>>, reserving' = Tail(reserving),
         UNCHANGED <<turns, answered, delivered>>
  PROVE  InOrder'
<1> USE LeavesReserving
<1>1. Ordered(reserving)'
  <2>1. Ordered(reserving)
    BY DEF InOrder
  <2>2. Ordered(reserving')
    BY <2>1, OrderedShorter
  <2> QED BY <2>2 DEF Ordered
<1>2. Before(answered, reserving)' /\ Before(turns, reserving)'
  BY DEF InOrder, Before
<1>3. UpToNow(answered)' /\ UpToNow(turns)' /\ UpToNow(reserving)'
  BY DEF InOrder, UpToNow
<1> QED BY <1>1, <1>2, <1>3 DEF InOrder, Ordered

\* A reservation that fails leaves the rest as it was.
LEMMA ReserveFailsKeeps == ASSUME IInv, ReserveFails PROVE IInv'
<1>1. /\ TypeOK /\ InOrder /\ reserving # <<>> /\ reserving' = Tail(reserving)
      /\ UNCHANGED <<receiptTable, receipts, fallback, generation, fragments,
                     turns, delivered, answered, newest, restarts>>
  BY DEF IInv, ReserveFails, history
<1>2. /\ reserving' \in Seq(Delivery)
      /\ Len(reserving) \in Nat \ {0} /\ Len(reserving') = Len(reserving) - 1
  BY <1>1, LeavesReserving
<1>3. TypeOK'
  BY <1>1, <1>2 DEF TypeOK, Delivery, Turn
<1>4. InOrder'
  BY <1>1, LeavesReservingInOrder
<1>5. Chain'
  BY <1>1, <1>2 DEF IInv, Chain, TypeOK
<1>6. Receipted' /\ Owned' /\ CompleteAnsweredOnce'
  BY <1>1 DEF IInv, Receipted, Owned, CompleteAnsweredOnce
<1> QED BY <1>3, <1>4, <1>5, <1>6 DEF IInv

\* What the turn chain is when its first turn has ended.
LEMMA EndsTurn ==
  ASSUME TypeOK, turns # <<>>, Ends
  PROVE  /\ turns' \in Seq(Turn)
         /\ Len(turns) \in Nat \ {0} /\ Len(turns') = Len(turns) - 1
         /\ DOMAIN turns' = 1..Len(turns) - 1 /\ DOMAIN turns = 1..Len(turns)
         /\ \A i \in 1..Len(turns) - 1 : /\ turns'[i] = turns[i + 1]
                                         /\ i + 1 \in DOMAIN turns
         /\ Head(turns) = turns[1] /\ turns[1] \in Turn
<1>1. turns \in Seq(Turn) /\ turns' = Tail(turns)
  BY DEF TypeOK, Ends
<1>2. /\ Tail(turns) \in Seq(Turn) /\ Len(Tail(turns)) = Len(turns) - 1
      /\ DOMAIN Tail(turns) = 1..Len(turns) - 1
      /\ DOMAIN turns = 1..Len(turns) /\ Len(turns) \in Nat \ {0}
      /\ Head(turns) = turns[1] /\ turns[1] \in Turn
      /\ \A i \in 1..Len(turns) - 1 : Tail(turns)[i] = turns[i + 1]
  BY <1>1, Shorter
<1>3. \A i \in 1..Len(turns) - 1 : i + 1 \in DOMAIN turns
  BY <1>2
<1> QED BY <1>1, <1>2, <1>3

\* What it is when its first turn has gone on to step p.
LEMMA SetsPc ==
  ASSUME TypeOK, turns # <<>>, NEW p \in {"queued", "debounce", "answering"},
         turns' = [turns EXCEPT ![1].pc = p]
  PROVE  /\ turns' \in Seq(Turn) /\ turns' # <<>>
         /\ Len(turns) \in Nat \ {0} /\ Len(turns') = Len(turns)
         /\ DOMAIN turns' = 1..Len(turns) /\ DOMAIN turns = 1..Len(turns)
         /\ \A i \in 1..Len(turns) :
              /\ turns'[i].message = turns[i].message
              /\ turns'[i].number = turns[i].number
              /\ turns'[i].generation = turns[i].generation
              /\ turns'[i].pc = IF i = 1 THEN p ELSE turns[i].pc
         /\ Head(turns) = turns[1] /\ turns[1] \in Turn
<1> DEFINE t == [turns[1] EXCEPT !.pc = p]
<1>1. turns \in Seq(Turn)
  BY DEF TypeOK
<1>2. turns[1] \in Turn /\ Head(turns) = turns[1]
  BY <1>1, Shorter
<1>3. /\ t \in Turn /\ t.pc = p /\ t.message = turns[1].message
      /\ t.number = turns[1].number /\ t.generation = turns[1].generation
  BY <1>2 DEF Turn
<1>4. turns' = [turns EXCEPT ![1] = t]
  OBVIOUS
<1> HIDE DEF t
<1>5. /\ turns' \in Seq(Turn) /\ turns' # <<>>
      /\ Len(turns) \in Nat \ {0} /\ Len(turns') = Len(turns)
      /\ DOMAIN turns' = 1..Len(turns) /\ DOMAIN turns = 1..Len(turns)
      /\ \A i \in 1..Len(turns) : turns'[i] = IF i = 1 THEN t ELSE turns[i]
  BY <1>1, <1>3, <1>4, Replaced
<1> QED BY <1>2, <1>3, <1>5

\* What was answered when the first turn has handed its batch over.
LEMMA HandsBatch ==
  ASSUME TypeOK, turns # <<>>, NEW batch \in Seq(Messages), Answers(batch)
  PROVE  /\ answered' \in Seq(Reply)
         /\ Len(answered) \in Nat /\ Len(answered') = Len(answered) + 1
         /\ DOMAIN answered' = 1..Len(answered) + 1
         /\ DOMAIN answered = 1..Len(answered)
         /\ \A i \in 1..Len(answered) : answered'[i] = answered[i]
         /\ answered'[Len(answered) + 1].number = turns[1].number
         /\ answered'[Len(answered) + 1].batch = batch
<1> DEFINE r == [number |-> turns[1].number, batch |-> batch]
<1>1. turns[1] \in Turn
  <2>1. turns \in Seq(Turn)
    BY DEF TypeOK
  <2> QED BY <2>1, Shorter
<1>2. answered \in Seq(Reply) /\ r \in Reply
  BY <1>1 DEF TypeOK, Reply, Turn
<1>3. /\ answered' = Append(answered, r)
      /\ r.number = turns[1].number /\ r.batch = batch
  BY DEF Answers
<1> HIDE DEF r
<1>4. /\ answered' \in Seq(Reply)
      /\ Len(answered) \in Nat /\ Len(answered') = Len(answered) + 1
      /\ DOMAIN answered' = 1..Len(answered) + 1
      /\ DOMAIN answered = 1..Len(answered)
      /\ \A i \in 1..Len(answered) : answered'[i] = answered[i]
      /\ answered'[Len(answered) + 1] = r
  BY <1>2, <1>3, Longer
<1> QED BY <1>3, <1>4

\* The order of the turns when the first one ends, ...
LEMMA EndsInOrder ==
  ASSUME TypeOK, InOrder, turns # <<>>, Ends,
         UNCHANGED <<answered, reserving, delivered>>
  PROVE  InOrder'
<1> USE EndsTurn
<1>1. Ordered(turns)'
  <2>1. Ordered(turns)
    BY DEF InOrder
  <2>2. Ordered(turns')
    BY <2>1, OrderedShorter
  <2> QED BY <2>2 DEF Ordered
<1>2. Before(answered, reserving)' /\ Before(turns, reserving)'
  BY DEF InOrder, Before
<1>3. UpToNow(answered)' /\ UpToNow(turns)' /\ UpToNow(reserving)'
  BY DEF InOrder, UpToNow
<1>4. \A k \in DOMAIN answered', i \in DOMAIN turns' :
        /\ answered'[k].number <= turns'[i].number
        /\ turns'[i].pc # "answering" => answered'[k].number < turns'[i].number
  BY DEF InOrder
<1> QED BY <1>1, <1>2, <1>3, <1>4 DEF InOrder, Ordered

\* ... when it waits for more fragments, ...
LEMMA WaitsInOrder ==
  ASSUME TypeOK, InOrder, turns # <<>>, turns[1].pc = "queued",
         turns' = [turns EXCEPT ![1].pc = "debounce"],
         UNCHANGED <<answered, reserving, delivered>>
  PROVE  InOrder'
<1>1. /\ DOMAIN turns' = 1..Len(turns) /\ DOMAIN turns = 1..Len(turns)
      /\ \A i \in 1..Len(turns) :
           /\ turns'[i].number = turns[i].number
           /\ turns'[i].pc = IF i = 1 THEN "debounce" ELSE turns[i].pc
  BY SetsPc
<1>2. Ordered(turns)' /\ UpToNow(turns)' /\ Before(turns, reserving)'
  BY <1>1 DEF InOrder, Ordered, UpToNow, Before
<1>3. \A k \in DOMAIN answered', i \in DOMAIN turns' :
        /\ answered'[k].number <= turns'[i].number
        /\ turns'[i].pc # "answering" => answered'[k].number < turns'[i].number
  BY <1>1 DEF InOrder
<1> QED BY <1>2, <1>3 DEF InOrder, Ordered, UpToNow, Before

\* ... and when it answers: it is answered last and the others come after it.
LEMMA AnswersInOrder ==
  ASSUME TypeOK, InOrder, turns # <<>>, turns[1].pc # "answering",
         NEW batch \in Seq(Messages), Answers(batch),
         UNCHANGED <<reserving, delivered>>
  PROVE  InOrder'
<1> DEFINE n == Len(answered)
           t == turns[1].number
<1>1. /\ DOMAIN turns' = 1..Len(turns) /\ DOMAIN turns = 1..Len(turns)
      /\ Len(turns) \in Nat \ {0}
      /\ \A i \in 1..Len(turns) :
           /\ turns'[i].number = turns[i].number
           /\ turns'[i].pc = IF i = 1 THEN "answering" ELSE turns[i].pc
  BY SetsPc DEF Answers
<1>2. /\ n \in Nat /\ DOMAIN answered' = 1..n + 1 /\ DOMAIN answered = 1..n
      /\ \A k \in 1..n : answered'[k] = answered[k]
      /\ answered'[n + 1].number = t
  BY HandsBatch
<1>3. /\ \A i \in DOMAIN turns : turns[i].number \in Nat
      /\ \A k \in DOMAIN answered : answered[k].number \in Nat
  BY Domains
<1>4. \A k \in DOMAIN answered : answered[k].number < t
  BY <1>1 DEF InOrder
<1> HIDE DEF n, t
<1>5. \A k \in DOMAIN answered' :
        \/ k \in DOMAIN answered /\ answered'[k] = answered[k]
        \/ answered'[k].number = t
  BY <1>2
<1>6. Ordered(answered)'
  <2>1. Ordered(answered) /\ answered'[n + 1].number = t
    BY <1>2 DEF InOrder
  <2>2. Ordered(answered')
    BY <1>2, <1>4, <2>1, OrderedLonger
  <2> QED BY <2>2 DEF Ordered
<1>7. Ordered(turns)' /\ Before(turns, reserving)' /\ UpToNow(turns)'
  <2>1. /\ DOMAIN turns' = DOMAIN turns
        /\ \A i \in DOMAIN turns : turns'[i].number = turns[i].number
    BY <1>1
  <2>2. Ordered(turns)'
    BY <2>1 DEF InOrder, Ordered
  <2>3. Before(turns, reserving)'
    BY <2>1 DEF InOrder, Before
  <2>4. UpToNow(turns)'
    BY <2>1 DEF InOrder, UpToNow
  <2> QED BY <2>2, <2>3, <2>4
<1>8. 1 \in DOMAIN turns /\ t = turns[1].number
  BY <1>1 DEF t
<1>9. Before(answered, reserving)'
  BY <1>5, <1>8 DEF InOrder, Before
<1>10. UpToNow(answered)'
  BY <1>5, <1>8 DEF InOrder, UpToNow
<1>11. ASSUME NEW k \in DOMAIN answered', NEW i \in DOMAIN turns'
       PROVE  /\ answered'[k].number <= turns'[i].number
              /\ turns'[i].pc # "answering" =>
                   answered'[k].number < turns'[i].number
  <2>1. turns'[i].number = turns[i].number /\ i \in DOMAIN turns
    BY <1>1
  <2>2. /\ t <= turns[i].number /\ t \in Nat /\ turns[i].number \in Nat
        /\ i # 1 => t < turns[i].number
    BY <1>1, <1>3, <1>8 DEF InOrder, Ordered
  <2>3. i = 1 => turns'[i].pc = "answering"
    BY <1>1
  <2>4. answered'[k].number \in Nat /\ answered'[k].number <= t
    BY <1>3, <1>4, <1>5, <1>8
  <2> QED BY <2>1, <2>2, <2>3, <2>4
<1> QED BY <1>6, <1>7, <1>9, <1>10, <1>11 DEF InOrder, Ordered, UpToNow

Others == <<receiptTable, receipts, fallback, reserving, generation, delivered,
            newest, restarts>>

\* A turn that has answered, or that a newer one has overtaken, ends.
LEMMA TurnEnds ==
  ASSUME IInv, turns # <<>>, Ends, UNCHANGED <<Others, fragments, answered>>,
         turns[1].pc = "answering" \/ ~Current(turns[1])
  PROVE  IInv'
<1>1. TypeOK /\ InOrder
  BY DEF IInv
<1>2. /\ turns' \in Seq(Turn) /\ Len(turns) \in Nat \ {0}
      /\ Len(turns') = Len(turns) - 1
      /\ DOMAIN turns' = 1..Len(turns) - 1 /\ DOMAIN turns = 1..Len(turns)
      /\ \A i \in 1..Len(turns) - 1 : /\ turns'[i] = turns[i + 1]
                                      /\ i + 1 \in DOMAIN turns
  BY <1>1, EndsTurn
<1>3. turns' # <<>> => /\ Len(turns) > 1
                       /\ turns'[Len(turns')] = turns[Len(turns)]
  <2>1. turns' # <<>> => Len(turns') # 0
    BY <1>2, EmptySeq
  <2> QED BY <1>2, <2>1
<1>4. Len(turns) > 1 => turns' # <<>>
  BY <1>2, EmptySeq
<1>5. TypeOK'
  BY <1>1, <1>2 DEF TypeOK, Others
<1>6. InOrder'
  BY <1>1, EndsInOrder DEF Others
<1>7. Chain'
  <2>1. \A i \in DOMAIN turns' : turns'[i].pc = "queued"
    BY <1>2, SMTT(20) DEF IInv, Chain
  <2>2. turns' # <<>> => /\ turns'[Len(turns')].generation = generation'
                         /\ newest' = {turns'[Len(turns')].message}
    BY <1>3 DEF IInv, Chain, Others
  <2>3. generation' + Len(reserving') <= delivered' /\ fragments' \in Seq(Fragments)
    BY DEF IInv, Chain, Others
  <2> QED BY <2>1, <2>2, <2>3 DEF Chain
<1>8. Receipted'
  <2> SUFFICES ASSUME receiptTable
               PROVE  Receipted'
    BY DEF Receipted, Others
  <2>1. \A i \in DOMAIN turns' : turns'[i].message \in receipts'
    BY <1>2 DEF IInv, Receipted, Others
  <2>2. ASSUME NEW i \in DOMAIN turns', NEW j \in DOMAIN turns',
               turns'[i].message = turns'[j].message
        PROVE  i = j
    <3>1. /\ i + 1 \in DOMAIN turns /\ turns'[i] = turns[i + 1]
          /\ j + 1 \in DOMAIN turns /\ turns'[j] = turns[j + 1]
          /\ i \in Int /\ j \in Int
      BY <1>2
    <3>2. i + 1 = j + 1
      BY <2>2, <3>1 DEF IInv, Receipted
    <3> QED BY <3>1, <3>2
  <2>3. ASSUME NEW k \in DOMAIN answered', NEW i \in DOMAIN turns',
               turns'[i].message \in Complete,
               Contains(answered'[k].batch, turns'[i].message)
        PROVE  turns'[i].pc = "answering"
    <3>1. i + 1 \in DOMAIN turns /\ turns'[i] = turns[i + 1]
      BY <1>2
    <3>2. k \in DOMAIN answered /\ Contains(answered[k].batch, turns[i + 1].message)
      BY <2>3, <3>1
    <3> QED BY <2>3, <3>1, <3>2 DEF IInv, Receipted
  <2> QED BY <2>1, <2>2, <2>3 DEF IInv, Receipted, Others
<1>9. Owned'
  <2>1. ASSUME fragments # <<>>, turns[Len(turns)].pc # "answering"
        PROVE  turns' # <<>> /\ turns'[Len(turns')].pc # "answering"
    <3>1. Len(turns) # 1
      BY <2>1 DEF IInv, Chain, Current
    <3> QED BY <1>2, <1>3, <1>4, <2>1, <3>1
  <2> QED BY <2>1 DEF IInv, Owned, Others
<1>10. CompleteAnsweredOnce'
  BY DEF IInv, CompleteAnsweredOnce, Others
<1> QED BY <1>5, <1>6, <1>7, <1>8, <1>9, <1>10 DEF IInv

\* A fragment that is the newest message waits for more of them.
LEMMA TurnWaits ==
  ASSUME IInv, turns # <<>>, turns[1].pc = "queued",
         turns[1].message \in Fragments,
         turns' = [turns EXCEPT ![1].pc = "debounce"],
         UNCHANGED <<Others, fragments, answered>>
  PROVE  IInv'
<1>1. TypeOK /\ InOrder
  BY DEF IInv
<1>2. /\ turns' \in Seq(Turn) /\ turns' # <<>>
      /\ Len(turns) \in Nat \ {0} /\ Len(turns') = Len(turns)
      /\ DOMAIN turns' = 1..Len(turns) /\ DOMAIN turns = 1..Len(turns)
      /\ \A i \in 1..Len(turns) :
           /\ turns'[i].message = turns[i].message
           /\ turns'[i].generation = turns[i].generation
           /\ turns'[i].pc = IF i = 1 THEN "debounce" ELSE turns[i].pc
  BY <1>1, SetsPc
<1>3. TypeOK'
  BY <1>1, <1>2 DEF TypeOK, Others
<1>4. InOrder'
  BY <1>1, WaitsInOrder DEF Others
<1>5. Chain'
  BY <1>2 DEF IInv, Chain, Others
<1>6. Receipted'
  <2> SUFFICES ASSUME receiptTable
               PROVE  Receipted'
    BY DEF Receipted, Others
  <2>1. \A i \in DOMAIN turns' : turns'[i].message \in receipts'
    BY <1>2 DEF IInv, Receipted, Others
  <2>2. \A i, j \in DOMAIN turns' :
          turns'[i].message = turns'[j].message => i = j
    BY <1>2 DEF IInv, Receipted
  <2>3. \A k \in DOMAIN answered', i \in DOMAIN turns' :
          turns'[i].message \in Complete /\ Contains(answered'[k].batch, turns'[i].message)
          => turns'[i].pc = "answering"
    BY <1>2 DEF IInv, Receipted
  <2> QED BY <2>1, <2>2, <2>3 DEF IInv, Receipted, Others
<1>7. Owned'
  BY <1>2 DEF IInv, Owned, Others
<1>8. CompleteAnsweredOnce'
  BY DEF IInv, CompleteAnsweredOnce, Others
<1> QED BY <1>3, <1>4, <1>5, <1>6, <1>7, <1>8 DEF IInv

\* A turn hands over a batch in which only its own message may be complete; a
\* voice or an image leaves the fragments where they are, others take them.
LEMMA TurnAnswers ==
  ASSUME IInv, turns # <<>>, turns[1].pc # "answering",
         NEW batch \in Seq(Messages), Answers(batch), UNCHANGED Others,
         \A m \in Complete : Contains(batch, m) => m = turns[1].message,
         \/ fragments' = <<>>
         \/ UNCHANGED fragments /\ turns[1].message \in Media
  PROVE  IInv'
<1>1. TypeOK /\ InOrder
  BY DEF IInv
<1>2. /\ turns' \in Seq(Turn) /\ turns' # <<>>
      /\ Len(turns) \in Nat \ {0} /\ Len(turns') = Len(turns)
      /\ DOMAIN turns' = 1..Len(turns) /\ DOMAIN turns = 1..Len(turns)
      /\ \A i \in 1..Len(turns) :
           /\ turns'[i].message = turns[i].message
           /\ turns'[i].generation = turns[i].generation
           /\ turns'[i].pc = IF i = 1 THEN "answering" ELSE turns[i].pc
  BY <1>1, SetsPc DEF Answers
<1>3. /\ answered' \in Seq(Reply)
      /\ \A k \in DOMAIN answered' :
           \/ k \in DOMAIN answered /\ answered'[k] = answered[k]
           \/ k = Len(answered) + 1 /\ answered'[k].batch = batch
  BY <1>1, HandsBatch
<1>4. TypeOK'
  <2>1. fragments' \in Seq(Messages) /\ Len(fragments') <= MaxBuffered
    <3>1. CASE fragments' = <<>>
      <4>1. 0 <= MaxBuffered
        BY SalesTurnAssumption
      <4> QED BY <3>1, <4>1, Nothing
    <3>2. CASE UNCHANGED fragments
      BY <1>1, <3>2 DEF TypeOK
    <3> QED BY <3>1, <3>2
  <2> QED BY <1>1, <1>2, <1>3, <2>1 DEF TypeOK, Others, Reply
<1>5. InOrder'
  BY <1>1, AnswersInOrder DEF Others
<1>6. Chain'
  <2>1. fragments' \in Seq(Fragments)
    <3>1. fragments \in Seq(Fragments) /\ <<>> \in Seq(Fragments)
      BY Nothing DEF IInv, Chain
    <3> QED BY <3>1
  <2>2. /\ \A i \in DOMAIN turns' : i # 1 => turns'[i].pc = "queued"
        /\ turns'[1].pc = "answering"
    <3>1. \A i \in DOMAIN turns : i # 1 => turns[i].pc = "queued"
      BY DEF IInv, Chain
    <3>2. \A i \in DOMAIN turns' : i # 1 => turns'[i].pc = "queued"
      BY <1>2, <3>1
    <3>3. 1 \in 1..Len(turns)
      BY <1>2
    <3> QED BY <1>2, <3>2, <3>3
  <2>3. /\ turns'[Len(turns')].generation = generation'
        /\ newest' = {turns'[Len(turns')].message}
    BY <1>2 DEF IInv, Chain, Others
  <2>4. generation' + Len(reserving') <= delivered'
    BY DEF IInv, Chain, Others
  <2>5. \A i \in DOMAIN turns' : turns'[i].pc # "debounce"
    BY <2>2
  <2> QED BY <2>1, <2>2, <2>3, <2>4, <2>5 DEF Chain
<1>7. ASSUME receiptTable, NEW k \in DOMAIN answered', NEW m \in Complete,
             Contains(answered'[k].batch, m)
      PROVE  \/ k \in DOMAIN answered /\ Contains(answered[k].batch, m)
             \/ k = Len(answered) + 1 /\ m = turns[1].message
  BY <1>3, <1>7
<1>8. ASSUME receiptTable, NEW k \in DOMAIN answered
      PROVE  ~(turns[1].message \in Complete /\ Contains(answered[k].batch, turns[1].message))
  BY <1>2, <1>8 DEF IInv, Receipted
<1>9. Receipted'
  <2> SUFFICES ASSUME receiptTable
               PROVE  Receipted'
    BY DEF Receipted, Others
  <2>1. \A i \in DOMAIN turns' : turns'[i].message \in receipts'
    BY <1>2 DEF IInv, Receipted, Others
  <2>2. \A i, j \in DOMAIN turns' :
          turns'[i].message = turns'[j].message => i = j
    BY <1>2 DEF IInv, Receipted
  <2>3. \A k \in DOMAIN answered', m \in Complete :
          Contains(answered'[k].batch, m) => m \in receipts'
    BY <1>2, <1>7 DEF IInv, Receipted, Others
  <2>4. ASSUME NEW k \in DOMAIN answered', NEW i \in DOMAIN turns',
               turns'[i].message \in Complete,
               Contains(answered'[k].batch, turns'[i].message)
        PROVE  turns'[i].pc = "answering"
    <3>1. i \in DOMAIN turns /\ turns'[i].message = turns[i].message
      BY <1>2
    <3>2. CASE k \in DOMAIN answered /\ Contains(answered[k].batch, turns[i].message)
      <4>1. turns[i].pc = "answering"
        BY <2>4, <3>1, <3>2 DEF IInv, Receipted
      <4>2. i = 1
        BY <3>1, <4>1 DEF IInv, Chain
      <4> QED BY <4>1, <4>2
    <3>3. CASE turns[i].message = turns[1].message
      <4>1. i = 1
        BY <1>2, <3>1, <3>3 DEF IInv, Receipted
      <4> QED BY <1>2, <4>1
    <3> QED BY <1>7, <2>4, <3>1, <3>2, <3>3
  <2> QED BY <2>1, <2>2, <2>3, <2>4 DEF Receipted
<1>10. CompleteAnsweredOnce'
  <2> SUFFICES ASSUME receiptTable, NEW k \in DOMAIN answered',
                      NEW l \in DOMAIN answered', NEW m \in Complete,
                      Contains(answered'[k].batch, m), Contains(answered'[l].batch, m)
               PROVE  k = l
    BY DEF CompleteAnsweredOnce, Others
  <2>1. /\ \/ k \in DOMAIN answered /\ Contains(answered[k].batch, m)
           \/ k = Len(answered) + 1 /\ m = turns[1].message
        /\ \/ l \in DOMAIN answered /\ Contains(answered[l].batch, m)
           \/ l = Len(answered) + 1 /\ m = turns[1].message
    BY <1>7
  <2>2. k \in DOMAIN answered /\ l \in DOMAIN answered
          /\ Contains(answered[k].batch, m) /\ Contains(answered[l].batch, m) => k = l
    BY DEF IInv, CompleteAnsweredOnce
  <2> QED BY <1>8, <2>1, <2>2
<1>11. Owned'
  <2> SUFFICES ASSUME fragments' # <<>>
               PROVE  Owned'
    BY DEF Owned
  <2>1. UNCHANGED fragments /\ turns[1].message \in Media
    OBVIOUS
  <2>2. CASE newest # {} /\ newest \subseteq Media
    BY <2>2 DEF Owned, Others
  <2>3. CASE turns[Len(turns)].pc # "answering"
    <3>1. CASE Len(turns) = 1
      <4>1. newest' = {turns[1].message}
        BY <3>1 DEF IInv, Chain, Others
      <4> QED BY <2>1, <4>1 DEF Owned
    <3>2. CASE Len(turns) # 1
      BY <1>2, <2>3, <3>2 DEF Owned
    <3> QED BY <3>1, <3>2
  <2> QED BY <2>1, <2>2, <2>3 DEF IInv, Owned
<1> QED BY <1>4, <1>5, <1>6, <1>9, <1>10, <1>11 DEF IInv

\* A turn starts.
LEMMA StartTurnKeeps == ASSUME IInv, StartTurn PROVE IInv'
<1> DEFINE t == turns[1]
<1>1. TypeOK /\ turns # <<>>
  BY DEF IInv, StartTurn
<1>2. Head(turns) = t /\ t \in Turn
  <2>1. turns \in Seq(Turn)
    BY <1>1 DEF TypeOK
  <2> QED BY <1>1, <2>1, Shorter
<1>3. t.pc = "queued" /\ UNCHANGED Others
  BY <1>2 DEF StartTurn, Others
<1>4. CASE HandsOver(t) /\ Ends /\ UNCHANGED <<fragments, answered>>
  BY <1>1, <1>3, <1>4, TurnEnds DEF HandsOver
<1>5. CASE /\ t.message \in Fragments
           /\ turns' = [turns EXCEPT ![1].pc = "debounce"]
           /\ UNCHANGED <<fragments, answered>>
  BY <1>1, <1>3, <1>5, TurnWaits
<1>6. CASE /\ t.message \in Texts /\ Answers(Append(fragments, t.message))
           /\ fragments' = <<>>
  <2> DEFINE b == Append(fragments, t.message)
  <2>1. fragments \in Seq(Fragments) /\ t.message \in Messages
    BY <1>2 DEF IInv, Chain, Turn
  <2>2. fragments \in Seq(Messages)
    BY <1>1 DEF TypeOK
  <2>3. /\ b \in Seq(Messages) /\ Len(b) = Len(fragments) + 1
        /\ Len(fragments) \in Nat
        /\ \A i \in 1..Len(fragments) : b[i] = fragments[i]
        /\ b[Len(fragments) + 1] = t.message
    BY <2>1, <2>2, Longer
  <2>4. \A i \in 1..Len(fragments) : fragments[i] \in Fragments
    BY <2>1, ElementOfSeq
  <2>5. \A m \in Complete : Contains(b, m) => m = t.message
    <3> SUFFICES ASSUME NEW m \in Complete, NEW i \in 1..Len(b), b[i] = m
                 PROVE  m = t.message
      BY DEF Contains
    <3>1. i \in 1..Len(fragments) \/ i = Len(fragments) + 1
      BY <2>3
    <3>2. m \notin Fragments
      BY SalesTurnAssumption
    <3> QED BY <2>3, <2>4, <3>1, <3>2
  <2>6. Answers(b)
    BY <1>6
  <2> HIDE DEF b
  <2> QED BY <1>1, <1>3, <1>6, <2>3, <2>5, <2>6, TurnAnswers
<1>7. CASE t.message \in Media /\ Answers(<<t.message>>) /\ UNCHANGED fragments
  <2> DEFINE b == <<t.message>>
  <2>1. b \in Seq(Messages) /\ \A m \in Complete : Contains(b, m) => m = t.message
    BY <1>2 DEF Contains, Turn
  <2>2. Answers(b)
    BY <1>7
  <2> HIDE DEF b
  <2> QED BY <1>1, <1>3, <1>7, <2>1, <2>2, TurnAnswers
<1> QED BY <1>2, <1>4, <1>5, <1>6, <1>7 DEF StartTurn

\* The wait of a fragment for more is over.
LEMMA DebouncedKeeps == ASSUME IInv, Debounced PROVE IInv'
<1> DEFINE t == turns[1]
           b == IF fragments = <<>> THEN <<t.message>> ELSE fragments
<1>1. TypeOK /\ turns # <<>>
  BY DEF IInv, Debounced
<1>2. Head(turns) = t /\ t \in Turn /\ 1 \in DOMAIN turns
  <2>1. turns \in Seq(Turn)
    BY <1>1 DEF TypeOK
  <2> QED BY <1>1, <2>1, Shorter
<1>3. t.pc = "debounce" /\ UNCHANGED Others
  BY <1>2 DEF Debounced, Others
<1>4. CASE HandsOver(t) /\ Ends /\ UNCHANGED <<fragments, answered>>
  BY <1>1, <1>3, <1>4, TurnEnds DEF HandsOver
<1>5. CASE Answers(b) /\ fragments' = <<>>
  <2>1. fragments \in Seq(Fragments) /\ t.message \in Fragments
    BY <1>2, <1>3 DEF IInv, Chain
  <2>2. b \in Seq(Fragments) /\ b \in Seq(Messages)
    BY <1>1, <1>2, <2>1 DEF TypeOK, Turn
  <2> HIDE DEF b
  <2>3. \A i \in 1..Len(b) : b[i] \in Fragments
    BY <2>2, ElementOfSeq
  <2>4. \A m \in Complete : Contains(b, m) => m = t.message
    BY <2>3, SalesTurnAssumption DEF Contains
  <2> QED BY <1>1, <1>3, <1>5, <2>2, <2>4, TurnAnswers
<1> QED BY <1>2, <1>4, <1>5 DEF Debounced

\* A delivery whose message has its receipt already ends there.
LEMMA ReserveAgain ==
  ASSUME IInv, Reserve, Duplicate(reserving[1].message)
  PROVE  IInv'
<1> DEFINE d == reserving[1]
<1>1. TypeOK /\ InOrder /\ reserving # <<>>
  BY DEF IInv, Reserve, Reservable
<1>2. reserving' = Tail(reserving)
  <2>1. reserving \in Seq(Delivery)
    BY <1>1 DEF TypeOK, Delivery
  <2> QED BY <1>1, <2>1, Shorter DEF Reserve, Reservable
<1>3. /\ UNCHANGED <<receiptTable, receipts, fallback, generation, newest>>
      /\ UNCHANGED <<turns, fragments, delivered, answered, restarts>>
  BY <1>1 DEF Reserve, Reservable, Duplicate, Counts
<1>4. /\ reserving' \in Seq(Delivery)
      /\ Len(reserving) \in Nat \ {0} /\ Len(reserving') = Len(reserving) - 1
  BY <1>1, <1>2, LeavesReserving
<1>5. TypeOK'
  BY <1>1, <1>3, <1>4 DEF TypeOK, Delivery, Turn
<1>6. InOrder'
  BY <1>1, <1>2, <1>3, LeavesReservingInOrder
<1>7. Chain'
  BY <1>1, <1>3, <1>4 DEF IInv, Chain, TypeOK
<1>8. Receipted' /\ Owned' /\ CompleteAnsweredOnce'
  BY <1>3 DEF IInv, Receipted, Owned, CompleteAnsweredOnce
<1> QED BY <1>5, <1>6, <1>7, <1>8 DEF IInv

\* The bucket takes one more fragment and never holds more than MaxBuffered.
LEMMA BucketKeeps ==
  ASSUME NEW S, fragments \in Seq(S), Len(fragments) <= MaxBuffered, NEW m \in S
  PROVE  Bucket(m) \in Seq(S) /\ Len(Bucket(m)) <= MaxBuffered
<1> DEFINE a == Append(fragments, m)
<1>1. a \in Seq(S) /\ a # <<>> /\ Len(a) = Len(fragments) + 1 /\ Len(fragments) \in Nat
  BY Longer
<1> HIDE DEF a
<1>2. Tail(a) \in Seq(S) /\ Len(Tail(a)) = Len(fragments)
  BY <1>1, Shorter
<1>3. MaxBuffered \in Nat
  BY SalesTurnAssumption
<1>4. Bucket(m) = IF Len(fragments) < MaxBuffered THEN a ELSE Tail(a)
  BY DEF Bucket, a
<1>5. CASE Len(fragments) < MaxBuffered
  BY <1>1, <1>3, <1>4, <1>5
<1>6. CASE ~(Len(fragments) < MaxBuffered)
  BY <1>2, <1>4, <1>6
<1> QED BY <1>5, <1>6

\* A new message gets its receipt and the next generation, and its turn enters
\* the chain behind all others.
LEMMA ReserveNew ==
  ASSUME IInv, Reserve, ~Duplicate(reserving[1].message)
  PROVE  IInv'
<1> DEFINE d == reserving[1]
           t == [message |-> d.message, number |-> d.number,
                 generation |-> generation + 1, pc |-> "queued"]
           n == Len(turns)
<1>1. TypeOK /\ InOrder /\ reserving # <<>>
  BY DEF IInv, Reserve, Reservable
<1>2. reserving' = Tail(reserving) /\ d \in Delivery
  <2>1. reserving \in Seq(Delivery)
    BY <1>1 DEF TypeOK, Delivery
  <2> QED BY <1>1, <2>1, Shorter DEF Reserve, Reservable
<1>3. /\ receipts' = IF receiptTable THEN receipts \cup {d.message} ELSE receipts
      /\ fallback' = IF receiptTable THEN fallback ELSE fallback \cup {d.message}
      /\ generation' = generation + 1 /\ newest' = {d.message}
      /\ turns' = Append(turns, t)
      /\ fragments' = IF d.message \in Fragments THEN Bucket(d.message) ELSE fragments
      /\ UNCHANGED <<receiptTable, delivered, answered, restarts>>
  BY <1>1 DEF Reserve, Reservable, Counts
<1>4. /\ reserving' \in Seq(Delivery)
      /\ Len(reserving) \in Nat \ {0} /\ Len(reserving') = Len(reserving) - 1
      /\ DOMAIN reserving' = 1..Len(reserving) - 1
      /\ DOMAIN reserving = 1..Len(reserving)
      /\ \A i \in 1..Len(reserving) - 1 :
           reserving'[i] = reserving[i + 1] /\ i + 1 \in DOMAIN reserving
  BY <1>1, <1>2, LeavesReserving
<1>5. generation + 1 \in 1..MaxDeliveries /\ generation' + Len(reserving') <= delivered'
  BY <1>1, <1>3, <1>4, SalesTurnAssumption DEF IInv, TypeOK, Chain
<1>6. /\ t \in Turn /\ t.number = d.number /\ t.message = d.message
      /\ t.generation = generation + 1 /\ t.pc = "queued"
  BY <1>2, <1>5 DEF Turn, Delivery
<1> HIDE DEF t
<1>7. /\ turns' \in Seq(Turn) /\ turns' # <<>>
      /\ n \in Nat /\ Len(turns') = n + 1
      /\ DOMAIN turns = 1..n /\ DOMAIN turns' = 1..n + 1
      /\ \A i \in 1..n : turns'[i] = turns[i]
      /\ turns'[n + 1] = t
  <2>1. turns \in Seq(Turn) /\ t \in Turn /\ turns' = Append(turns, t)
    BY <1>1, <1>3, <1>6 DEF TypeOK
  <2> QED BY <2>1, Longer
<1>8. \A i \in DOMAIN turns' : \/ i \in DOMAIN turns /\ turns'[i] = turns[i]
                               \/ i = n + 1 /\ turns'[i] = t
  BY <1>7
<1> HIDE DEF n
<1>9. /\ fragments' \in Seq(Fragments) /\ fragments' \in Seq(Messages)
      /\ Len(fragments') <= MaxBuffered
  <2>1. /\ fragments \in Seq(Fragments) /\ fragments \in Seq(Messages)
        /\ Len(fragments) <= MaxBuffered /\ d.message \in Messages
    BY <1>1, <1>2 DEF IInv, Chain, TypeOK, Delivery
  <2>2. d.message \in Fragments =>
          /\ Bucket(d.message) \in Seq(Fragments) /\ Bucket(d.message) \in Seq(Messages)
          /\ Len(Bucket(d.message)) <= MaxBuffered
    BY <2>1, BucketKeeps
  <2> QED BY <1>3, <2>1, <2>2
<1>10. TypeOK'
  <2>1. d.message \in Messages
    BY <1>2 DEF Delivery
  <2>2. receipts' \subseteq Messages /\ fallback' \subseteq Messages
    BY <1>1, <1>3, <2>1 DEF TypeOK
  <2>3. generation' \in 0..MaxDeliveries
    BY <1>3, <1>5
  <2>4. /\ receiptTable' \in BOOLEAN /\ delivered' \in 0..MaxDeliveries
        /\ answered' \in Seq([number : 1..MaxDeliveries, batch : Seq(Messages)])
        /\ restarts' \in 0..MaxRestarts
    BY <1>1, <1>3 DEF TypeOK
  <2>5. newest' \in SUBSET Messages
    BY <1>3, <2>1
  <2> QED BY <1>4, <1>7, <1>9, <2>2, <2>3, <2>4, <2>5 DEF TypeOK, Delivery
<1>11. InOrder'
  <2>1. 1 \in DOMAIN reserving
    BY <1>4
  <2>2. /\ \A i \in DOMAIN turns : turns[i].number < d.number
        /\ \A k \in DOMAIN answered : answered[k].number < d.number
        /\ d.number <= delivered
    BY <1>1, <2>1 DEF InOrder, Before, UpToNow
  <2>3. Ordered(turns)'
    <3>1. Ordered(turns) /\ \A i \in 1..n : turns[i].number < turns'[n + 1].number
      BY <1>1, <1>6, <1>7, <2>2 DEF InOrder
    <3>2. Ordered(turns')
      BY <1>7, <3>1, OrderedLonger
    <3> QED BY <3>2 DEF Ordered
  <2>4. Ordered(reserving)'
    <3>1. Ordered(reserving)
      BY <1>1 DEF InOrder
    <3>2. Ordered(reserving')
      BY <1>4, <3>1, OrderedShorter
    <3> QED BY <3>2 DEF Ordered
  <2>5. Before(answered, reserving)'
    BY <1>1, <1>3, <1>4 DEF InOrder, Before
  <2>6. Before(turns, reserving)'
    <3> SUFFICES ASSUME NEW i \in DOMAIN turns', NEW j \in DOMAIN reserving'
                 PROVE  turns'[i].number < reserving'[j].number
      BY DEF Before
    <3>1. /\ reserving'[j] = reserving[j + 1] /\ j + 1 \in DOMAIN reserving
          /\ 1 < j + 1
      BY <1>4
    <3>2. d.number < reserving[j + 1].number
      BY <1>1, <2>1, <3>1 DEF InOrder, Ordered
    <3>3. CASE i \in DOMAIN turns /\ turns'[i] = turns[i]
      BY <1>1, <3>1, <3>3 DEF InOrder, Before
    <3>4. CASE turns'[i] = t
      BY <1>6, <3>1, <3>2, <3>4
    <3> QED BY <1>8, <3>3, <3>4
  <2>7. UpToNow(answered)' /\ UpToNow(reserving)'
    BY <1>1, <1>3, <1>4 DEF InOrder, UpToNow
  <2>8. UpToNow(turns)'
    BY <1>1, <1>3, <1>6, <1>8, <2>2 DEF InOrder, UpToNow
  <2>9. ASSUME NEW k \in DOMAIN answered', NEW i \in DOMAIN turns'
        PROVE  /\ answered'[k].number <= turns'[i].number
               /\ turns'[i].pc # "answering" => answered'[k].number < turns'[i].number
    <3>1. k \in DOMAIN answered /\ answered'[k] = answered[k]
      BY <1>3
    <3>2. CASE i \in DOMAIN turns /\ turns'[i] = turns[i]
      BY <1>1, <3>1, <3>2 DEF InOrder
    <3>3. CASE turns'[i] = t
      <4>1. answered[k].number < d.number
        BY <2>2, <3>1
      <4>2. answered[k].number \in Nat /\ d.number \in Nat
        BY <1>1, <2>1, <3>1, Domains
      <4> QED BY <1>6, <3>1, <3>3, <4>1, <4>2
    <3> QED BY <1>8, <3>2, <3>3
  <2>10. Ordered(answered)'
    BY <1>1, <1>3 DEF InOrder, Ordered
  <2> QED BY <2>3, <2>4, <2>5, <2>6, <2>7, <2>8, <2>9, <2>10 DEF InOrder
<1>12. Chain'
  <2>1. \A i \in DOMAIN turns' :
          /\ i # 1 => turns'[i].pc = "queued"
          /\ turns'[i].pc = "debounce" => turns'[i].message \in Fragments
    BY <1>6, <1>8 DEF IInv, Chain
  <2>2. /\ turns'[Len(turns')].generation = generation'
        /\ newest' = {turns'[Len(turns')].message}
    BY <1>3, <1>6, <1>7
  <2> QED BY <1>5, <1>9, <2>1, <2>2 DEF Chain
<1>13. Receipted'
  <2> SUFFICES ASSUME receiptTable
               PROVE  Receipted'
    BY <1>3 DEF Receipted
  <2>1. d.message \notin receipts /\ receipts' = receipts \cup {d.message}
    BY <1>3 DEF Duplicate
  <2>2. /\ \A i \in DOMAIN turns : turns[i].message # d.message
        /\ \A k \in DOMAIN answered, m \in Complete :
             Contains(answered[k].batch, m) => m # d.message
    BY <2>1 DEF IInv, Receipted
  <2>3. \A i \in DOMAIN turns' : turns'[i].message \in receipts'
    BY <1>6, <1>8, <2>1 DEF IInv, Receipted
  <2>4. \A k \in DOMAIN answered', m \in Complete :
          Contains(answered'[k].batch, m) => m \in receipts'
    BY <1>3, <2>1 DEF IInv, Receipted
  <2>5. \A i, j \in DOMAIN turns' : turns'[i].message = turns'[j].message => i = j
    BY <1>6, <1>8, <2>2 DEF IInv, Receipted
  <2>6. ASSUME NEW k \in DOMAIN answered', NEW i \in DOMAIN turns',
               turns'[i].message \in Complete,
               Contains(answered'[k].batch, turns'[i].message)
        PROVE  turns'[i].pc = "answering"
    BY <1>3, <1>6, <1>8, <2>2, <2>6 DEF IInv, Receipted
  <2> QED BY <2>3, <2>4, <2>5, <2>6 DEF Receipted
<1>14. Owned'
  <2>1. turns' # <<>> /\ turns'[Len(turns')].pc = "queued"
    BY <1>6, <1>7
  <2>2. turns' # <<>> /\ turns'[Len(turns')].pc # "answering"
    BY <2>1
  <2> QED BY <2>2 DEF Owned
<1>15. CompleteAnsweredOnce'
  BY <1>3 DEF IInv, CompleteAnsweredOnce
<1> QED BY <1>10, <1>11, <1>12, <1>13, <1>14, <1>15 DEF IInv

\* A turn that has answered ends, whether the answer reached its customer.
LEMMA FinishTurnKeeps == ASSUME IInv, FinishTurn PROVE IInv'
<1>1. TypeOK /\ turns # <<>> /\ Ends
  BY DEF IInv, FinishTurn
<1>2. turns[1].pc = "answering"
  BY <1>1, EndsTurn DEF FinishTurn
<1>3. UNCHANGED <<Others, fragments, answered>>
  BY DEF FinishTurn, Others, history
<1> QED BY <1>1, <1>2, <1>3, TurnEnds

\* What is forgotten of an idle chat takes nothing from it.
LEMMA ForgetKeeps == ASSUME IInv, Forget PROVE IInv'
<1>1. /\ turns = <<>> /\ TypeOK
      /\ UNCHANGED <<receiptTable, receipts, reserving, turns, delivered,
                     answered, newest, restarts>>
      /\ generation' \in {0, generation} /\ fallback' \in {{}, fallback}
      /\ fragments' \in {<<>>, fragments}
  BY DEF Forget, history, IInv
<1>2. /\ fragments' \in Seq(Fragments) /\ fragments' \in Seq(Messages)
      /\ Len(fragments') <= MaxBuffered
  <2>1. 0 <= MaxBuffered
    BY SalesTurnAssumption
  <2>2. CASE fragments' = <<>>
    BY <2>1, <2>2, Nothing
  <2>3. CASE fragments' = fragments
    BY <1>1, <2>3 DEF IInv, Chain, TypeOK
  <2> QED BY <1>1, <2>2, <2>3
<1>3. TypeOK'
  BY <1>1, <1>2, SalesTurnAssumption DEF TypeOK, Turn
<1>4. InOrder'
  BY <1>1 DEF IInv, InOrder, Ordered, Before, UpToNow
<1>5. Chain'
  <2>1. generation' + Len(reserving') <= delivered'
    BY <1>1, Domains, SalesTurnAssumption DEF IInv, Chain, TypeOK
  <2> QED BY <1>1, <1>2, <2>1, Nothing DEF Chain
<1>6. Receipted' /\ CompleteAnsweredOnce' /\ Owned'
  BY <1>1 DEF IInv, Receipted, CompleteAnsweredOnce, Owned
<1> QED BY <1>3, <1>4, <1>5, <1>6 DEF IInv

\* After a restart the receipts and what was answered are all there is.
LEMMA RestartKeeps == ASSUME IInv, Restart PROVE IInv'
<1>1. /\ TypeOK /\ InOrder /\ restarts' \in 0..MaxRestarts
      /\ fallback' = {} /\ reserving' = <<>> /\ generation' = 0
      /\ fragments' = <<>> /\ turns' = <<>> /\ newest' = {}
      /\ UNCHANGED <<receiptTable, receipts, delivered, answered>>
  BY SalesTurnAssumption DEF IInv, TypeOK, Restart
<1>2. TypeOK'
  BY <1>1, Nothing, SalesTurnAssumption DEF TypeOK
<1>3. InOrder'
  BY <1>1, Nothing DEF InOrder, Ordered, Before, UpToNow
<1>4. Chain'
  BY <1>1, Nothing, SalesTurnAssumption DEF Chain, TypeOK
<1>5. Receipted' /\ Owned' /\ CompleteAnsweredOnce'
  BY <1>1, Nothing DEF IInv, Receipted, Owned, CompleteAnsweredOnce
<1> QED BY <1>2, <1>3, <1>4, <1>5 DEF IInv

\* Every step keeps the invariant.
LEMMA TurnsStep == ASSUME IInv, [Next]_vars PROVE IInv'
<1>1. ASSUME NEW m \in Messages, Deliver(m) PROVE IInv'
  BY <1>1, DeliverKeeps
<1>2. CASE Reserve
  BY <1>2, ReserveAgain, ReserveNew
<1>3. CASE ReserveFails
  BY <1>3, ReserveFailsKeeps
<1>4. CASE RunTurn
  BY <1>4, StartTurnKeeps, DebouncedKeeps, FinishTurnKeeps DEF RunTurn
<1>5. CASE Forget
  BY <1>5, ForgetKeeps
<1>6. CASE Restart
  BY <1>6, RestartKeeps
<1>7. CASE UNCHANGED vars
  BY <1>7 DEF vars, IInv, TypeOK, InOrder, Ordered, Before, UpToNow, Chain,
              Receipted, Owned, CompleteAnsweredOnce, Turn
<1> QED BY <1>1, <1>2, <1>3, <1>4, <1>5, <1>6, <1>7 DEF Next

\* The order of the deliveries, the chain, the receipts and the owner of the
\* buffered fragments are as the invariant says, in every reachable state.
THEOREM ChatInvariant == Spec => []IInv
<1>1. Init => IInv
  BY TurnsInit
<1>2. IInv /\ [Next]_vars => IInv'
  BY TurnsStep
<1> QED BY <1>1, <1>2, PTL DEF Spec

\* The invariant says what a chat keeps.
LEMMA ChatKeeps == ASSUME IInv PROVE TurnsKept
<1>1. AnsweredInIngressOrder
  <2> SUFFICES ASSUME NEW k \in 1..Len(answered) - 1
               PROVE  answered[k].number < answered[k + 1].number
    BY DEF AnsweredInIngressOrder
  <2>1. k \in DOMAIN answered /\ k + 1 \in DOMAIN answered /\ k < k + 1
    BY Domains DEF IInv
  <2> QED BY <2>1 DEF IInv, InOrder, Ordered
<1>2. FragmentsTakenOver
  BY DEF IInv, Owned, FragmentsTakenOver
<1> QED BY <1>1, <1>2 DEF IInv, TurnsKept

\* In a chat of any number of fragments, texts and media, delivered any number
\* of times, turns are answered in the order of their messages, a complete
\* message once at most, and no fragment is left behind
\* (sales-turn-coordinator.ts).
THEOREM ChatIsKept == Spec => []TurnsKept
BY ChatInvariant, ChatKeeps, PTL

-----------------------------------------------------------------------------
(* The comments of an Instagram account: two handlers never work on one    *)
(* event, no reply goes out twice without an excuse, and the poll cursor   *)
(* passes nothing that is to be retried.                                   *)

\* A handler at work has an event that was posted.
AtWork ==
  /\ \A w \in Instagram!Workers :
       IF worker[w].pc = "idle"
       THEN worker[w] = Instagram!Idle ELSE worker[w].event \in posted
  /\ poller.pc # "handle" => worker[Poller].pc = "idle"
  /\ poller.todo \subseteq posted

\* The receipt is the lock: who works on an event has it, alone.
Locked ==
  \A w \in Instagram!Workers, e \in Events :
    Instagram!Holds(w, e) =>
      e \in inbound /\ \A v \in Instagram!Workers : Instagram!Holds(v, e) => v = w

\* An event is settled for the cursor if a webhook had it when the poller came
\* by, or its receipt is there and nobody works on it who could take it away.
EventSettled(e) ==
  \/ e \in overtaken
  \/ e \in inbound /\ \A w \in Instagram!Workers : ~Instagram!Holds(w, e)

\* What is behind the cursor is settled; and so is, while no handler of the
\* tick failed, what the tick found and has dealt with.
CursorBehind ==
  /\ \A e \in behind : EventSettled(e)
  /\ poller.pc = "handle" /\ ~poller.failed =>
       \A e \in poller.started :
         \/ e \in poller.todo \/ EventSettled(e)
         \/ worker[Poller].pc # "idle" /\ worker[Poller].event = e

\* An attempt sends what the receipt of the automation does not have, one leg
\* after the other, and records each before the next.
Attempts ==
  \A w \in Instagram!Workers :
    LET e == worker[w].event IN
    /\ worker[w].pc \in {"legs", "record"} =>
         /\ worker[w].left \subseteq legs
         /\ e \notin excused => worker[w].left \cap recorded[e] = {}
    /\ worker[w].pc = "record" => worker[w].left # {}
    /\ worker[w].pc \in {"legs", "record"} =>
         worker[w].done \subseteq recorded[e]

\* A leg that was sent is recorded, or about to be; an event that was answered
\* keeps its receipt, and whoever has it is past the answer.
Known(e) ==
  /\ \A leg \in Instagram!Legs : <<e, leg>> \in sent.once =>
       \/ leg \in recorded[e]
       \/ \E w \in Instagram!Workers : /\ worker[w].event = e
                             /\ worker[w].pc = "record" /\ Instagram!Leg(w) = leg
  /\ \A w \in Instagram!Workers :
       worker[w].event = e /\ worker[w].pc = "record" =>
         <<e, Instagram!Leg(w)>> \in sent.once
  /\ <<e, "answer">> \in sent.once =>
       /\ e \in inbound
       /\ \A w \in Instagram!Workers : Instagram!Holds(w, e) => worker[w].pc = "wrapup"

SentIsKnown == \A e \in Events : e \notin excused => Known(e)

CommentsInv == /\ Instagram!TypeOK /\ AtWork /\ Locked /\ CursorBehind
        /\ Attempts /\ SentIsKnown /\ Instagram!NothingSentTwice

-----------------------------------------------------------------------------
\* Every step keeps the variables in their types.
LEMMA TypeStep ==
  ASSUME Instagram!InstagramDeliveryAssumption, Instagram!TypeOK, AtWork, Attempts,
    [Instagram!Next]_(Instagram!vars)
  PROVE  Instagram!TypeOK'
<1> USE DEF Instagram!InstagramDeliveryAssumption, Instagram!TypeOK, AtWork,
Instagram!WorkerState, Instagram!Legs,
           Instagram!Replies, Instagram!Workers
<1>1. ASSUME NEW e \in Events, Instagram!Post(e) PROVE Instagram!TypeOK'
  BY <1>1 DEF Instagram!Post, Instagram!replyVars, Instagram!history, Instagram!counts
<1>2. ASSUME NEW e \in Events, Instagram!BackoffOver(e) PROVE Instagram!TypeOK'
  BY <1>2 DEF Instagram!BackoffOver, Instagram!history, Instagram!counts
<1>3. ASSUME NEW w \in Webhooks, NEW e \in Events, Instagram!Webhook(w, e)
      PROVE Instagram!TypeOK'
  <2>1. /\ deliveries' \in 0..MaxCalls /\ failures' \in 0..MaxFailures
        /\ faults' \in 0..MaxFaults
    BY <1>3 DEF Instagram!Webhook, Instagram!Starts, Instagram!Idle,
        Instagram!replyVars, Instagram!history
  <2>2. worker' \in [Instagram!Workers -> Instagram!WorkerState]
    BY <1>3 DEF Instagram!Webhook, Instagram!Starts, Instagram!Idle,
        Instagram!replyVars, Instagram!history
  <2>3. sent' \in [once : SUBSET (Events \X Instagram!Replies),
                  again : SUBSET (Events \X Instagram!Replies)]
    BY <1>3 DEF Instagram!Webhook, Instagram!Starts, Instagram!Idle,
        Instagram!replyVars, Instagram!history
  <2> QED BY <1>3, <2>1, <2>2, <2>3 DEF Instagram!Webhook, Instagram!Starts,
  Instagram!Idle, Instagram!replyVars, Instagram!history
<1>4. CASE Instagram!TickStarts
  BY <1>4 DEF Instagram!TickStarts, Instagram!Resting, Instagram!replyVars,
      Instagram!history, Instagram!counts
<1>5. CASE Instagram!Lists
  BY <1>5 DEF Instagram!Lists, Instagram!Newer, Instagram!replyVars,
      Instagram!history, Instagram!counts
<1>6. ASSUME NEW e \in Events, Instagram!Polls(e) PROVE Instagram!TypeOK'
  BY <1>6 DEF Instagram!Polls, Instagram!Starts, Instagram!Idle, Instagram!Workers,
      Instagram!replyVars, Instagram!history, Instagram!counts
<1>7. CASE Instagram!TickEnds
  BY <1>7 DEF Instagram!TickEnds, Instagram!Advances, Instagram!Resting,
      Instagram!replyVars, Instagram!history, Instagram!counts
<1>8. CASE Instagram!ListFails
  BY <1>8 DEF Instagram!ListFails, Instagram!Failure, Instagram!Resting,
      Instagram!replyVars, Instagram!history, Instagram!counts
<1>9. ASSUME NEW w \in Instagram!Workers, Instagram!Reserve(w) PROVE Instagram!TypeOK'
  BY <1>9 DEF Instagram!Reserve, Instagram!Accepts, Instagram!Returns,
      Instagram!GoesTo, Instagram!Idle, Instagram!history, Instagram!counts
<1>10. ASSUME NEW w \in Instagram!Workers, Instagram!ReserveFails(w)
      PROVE Instagram!TypeOK'
  <2>1. /\ deliveries' \in 0..MaxCalls /\ failures' \in 0..MaxFailures
        /\ faults' \in 0..MaxFaults
    BY <1>10 DEF Instagram!ReserveFails, Instagram!Fault, Instagram!Returns,
        Instagram!Idle, Instagram!replyVars
  <2>2. worker' \in [Instagram!Workers -> Instagram!WorkerState]
    BY <1>10 DEF Instagram!ReserveFails, Instagram!Fault, Instagram!Returns,
        Instagram!Idle, Instagram!replyVars
  <2>3. sent' \in [once : SUBSET (Events \X Instagram!Replies),
                  again : SUBSET (Events \X Instagram!Replies)]
    BY <1>10 DEF Instagram!ReserveFails, Instagram!Fault, Instagram!Returns,
        Instagram!Idle, Instagram!replyVars
  <2> QED BY <1>10, <2>1, <2>2, <2>3 DEF Instagram!ReserveFails, Instagram!Fault,
  Instagram!Returns, Instagram!Idle, Instagram!replyVars
<1>11. ASSUME NEW w \in Instagram!Workers, Instagram!Blocked(w)
      PROVE Instagram!TypeOK'
  BY <1>11 DEF Instagram!Blocked, Instagram!Returns, Instagram!Idle,
      Instagram!replyVars, Instagram!counts
<1>12. ASSUME NEW w \in Instagram!Workers, Instagram!QuickMatch(w)
      PROVE Instagram!TypeOK'
  BY <1>12 DEF Instagram!QuickMatch, Instagram!Matched, Instagram!Missing,
      Instagram!Returns, Instagram!GoesTo, Instagram!Idle, Instagram!replyVars,
      Instagram!counts
<1>13. ASSUME NEW w \in Instagram!Workers, Instagram!SemanticMatch(w)
      PROVE Instagram!TypeOK'
  BY <1>13 DEF Instagram!SemanticMatch, Instagram!Matched, Instagram!Missing,
      Instagram!Returns, Instagram!GoesTo, Instagram!Idle, Instagram!replyVars,
      Instagram!counts
<1>14. ASSUME NEW w \in Instagram!Workers, Instagram!SendLeg(w)
      PROVE Instagram!TypeOK'
  <2>0. Instagram!Leg(w) \in Instagram!Replies /\ worker[w].event \in Events
    BY <1>14 DEF Instagram!Leg, Instagram!SendLeg
  <2>1. /\ deliveries' \in 0..MaxCalls /\ failures' \in 0..MaxFailures
        /\ faults' \in 0..MaxFaults
    BY <1>14 DEF Instagram!SendLeg, Instagram!Sends, Instagram!Skip,
        Instagram!Failure, Instagram!GoesTo, Instagram!replyVars
  <2>2. worker' \in [Instagram!Workers -> Instagram!WorkerState]
    BY <1>14 DEF Instagram!SendLeg, Instagram!Sends, Instagram!Skip,
        Instagram!Failure, Instagram!GoesTo, Instagram!replyVars
  <2>3. sent' \in [once : SUBSET (Events \X Instagram!Replies),
                  again : SUBSET (Events \X Instagram!Replies)]
    BY <1>14, <2>0 DEF Instagram!SendLeg, Instagram!Sends, Instagram!replyVars
  <2> QED BY <1>14, <2>1, <2>2, <2>3 DEF Instagram!SendLeg, Instagram!Sends,
  Instagram!Skip, Instagram!Failure, Instagram!GoesTo, Instagram!replyVars
<1>15. ASSUME NEW w \in Instagram!Workers, Instagram!RecordLeg(w)
      PROVE Instagram!TypeOK'
  <2>0. Instagram!Leg(w) \in legs /\ worker[w].event \in posted
    BY <1>15 DEF Instagram!Leg, Instagram!RecordLeg, Attempts
  <2>1. /\ deliveries' \in 0..MaxCalls /\ failures' \in 0..MaxFailures
        /\ faults' \in 0..MaxFaults
    BY <1>15 DEF Instagram!RecordLeg, Instagram!Skip, Instagram!Fault
  <2>2. worker' \in [Instagram!Workers -> Instagram!WorkerState]
    BY <1>15 DEF Instagram!RecordLeg, Instagram!Skip, Instagram!Fault
  <2>3. sent' \in [once : SUBSET (Events \X Instagram!Replies),
                  again : SUBSET (Events \X Instagram!Replies)]
    BY <1>15 DEF Instagram!RecordLeg, Instagram!Skip, Instagram!Fault
  <2> QED BY <1>15, <2>0, <2>1, <2>2, <2>3 DEF Instagram!RecordLeg, Instagram!Skip,
  Instagram!Fault
<1>16. ASSUME NEW w \in Instagram!Workers, Instagram!CloseAttempt(w)
      PROVE Instagram!TypeOK'
  BY <1>16 DEF Instagram!CloseAttempt, Instagram!Returns, Instagram!GoesTo,
      Instagram!Idle, Instagram!counts
<1>17. ASSUME NEW w \in Instagram!Workers, Instagram!Answer(w) PROVE Instagram!TypeOK'
  BY <1>17 DEF Instagram!Answer, Instagram!Sends, Instagram!Failure,
      Instagram!GoesTo, Instagram!replyVars
<1>18. ASSUME NEW w \in Instagram!Workers, Instagram!WrapUp(w) PROVE Instagram!TypeOK'
  BY <1>18 DEF Instagram!WrapUp, Instagram!Returns, Instagram!Idle,
      Instagram!replyVars, Instagram!counts
<1>19. ASSUME NEW w \in Instagram!Workers, Instagram!Release(w)
      PROVE Instagram!TypeOK'
  BY <1>19 DEF Instagram!Release, Instagram!Released, Instagram!Returns,
      Instagram!Idle, Instagram!history, Instagram!counts
<1>20. ASSUME NEW w \in Instagram!Workers, Instagram!DatabaseError(w)
      PROVE Instagram!TypeOK'
  <2>0. worker[w].event \in posted
    BY <1>20 DEF Instagram!DatabaseError
  <2>1. /\ deliveries' \in 0..MaxCalls /\ failures' \in 0..MaxFailures
        /\ faults' \in 0..MaxFaults
    BY <1>20 DEF Instagram!DatabaseError, Instagram!Fault, Instagram!Returns,
        Instagram!GoesTo, Instagram!Idle, Instagram!replyVars
  <2>2. worker' \in [Instagram!Workers -> Instagram!WorkerState]
    BY <1>20 DEF Instagram!DatabaseError, Instagram!Fault, Instagram!Returns,
        Instagram!GoesTo, Instagram!Idle, Instagram!replyVars
  <2>3. sent' \in [once : SUBSET (Events \X Instagram!Replies),
                  again : SUBSET (Events \X Instagram!Replies)]
    BY <1>20 DEF Instagram!DatabaseError, Instagram!Fault, Instagram!Returns,
        Instagram!GoesTo, Instagram!Idle, Instagram!replyVars
  <2>4. poller' \in [pc : {"idle", "list", "handle"}, started : SUBSET posted,
                    todo : SUBSET posted, failed : BOOLEAN]
    <3>1. poller' = poller \/ poller' = [poller EXCEPT !.failed = TRUE]
      BY <1>20 DEF Instagram!DatabaseError, Instagram!Returns
    <3> QED BY <3>1
  <2>5. /\ UNCHANGED <<rule, legs, posted, Instagram!replyVars, behind, finished,
                    overtaken>>
        /\ excused' = excused \cup {worker[w].event}
    BY <1>20 DEF Instagram!DatabaseError, Instagram!Fault
  <2> QED BY <2>0, <2>1, <2>2, <2>3, <2>4, <2>5 DEF Instagram!replyVars
<1>21. CASE Instagram!Crash
  <2>0. {worker[w].event : w \in Instagram!Workers} \ {NoEvent} \subseteq posted
    BY DEF Instagram!Idle
  <2>1. /\ deliveries' \in 0..MaxCalls /\ failures' \in 0..MaxFailures
        /\ faults' \in 0..MaxFaults
    BY <1>21 DEF Instagram!Crash, Instagram!Fault, Instagram!Idle,
        Instagram!Resting, Instagram!replyVars
  <2>2. worker' \in [Instagram!Workers -> Instagram!WorkerState]
    BY <1>21 DEF Instagram!Crash, Instagram!Fault, Instagram!Idle,
        Instagram!Resting, Instagram!replyVars
  <2>3. sent' \in [once : SUBSET (Events \X Instagram!Replies),
                  again : SUBSET (Events \X Instagram!Replies)]
    BY <1>21 DEF Instagram!Crash, Instagram!Fault, Instagram!Idle,
        Instagram!Resting, Instagram!replyVars
  <2> QED BY <1>21, <2>0, <2>1, <2>2, <2>3 DEF Instagram!Crash, Instagram!Fault,
  Instagram!Idle, Instagram!Resting, Instagram!replyVars
<1>22. CASE UNCHANGED Instagram!vars
  BY <1>22 DEF Instagram!vars, Instagram!replyVars, Instagram!history,
      Instagram!counts
<1> QED BY <1>1, <1>2, <1>3, <1>4, <1>5, <1>6, <1>7, <1>8, <1>9, <1>10,
           <1>11, <1>12, <1>13, <1>14, <1>15, <1>16, <1>17, <1>18, <1>19,
           <1>20, <1>21, <1>22
        DEF Instagram!Next, Instagram!Tick, Instagram!Handle

\* A handler goes on with its event or returns.
LEMMA StaysAtWork ==
  ASSUME Instagram!InstagramDeliveryAssumption, Instagram!TypeOK, AtWork,
         NEW w \in Instagram!Workers, worker[w].pc # "idle",
         \A v \in Instagram!Workers : v # w => worker'[v] = worker[v],
         \/ worker'[w] = Instagram!Idle
         \/ worker'[w].pc # "idle" /\ worker'[w].event = worker[w].event,
         poller'.pc = poller.pc, poller'.todo = poller.todo, posted' = posted
  PROVE  AtWork'
<1>1. Instagram!Idle.pc = "idle"
  BY DEF Instagram!Idle
<1>2. ASSUME NEW v \in Instagram!Workers
      PROVE  IF worker'[v].pc = "idle" THEN worker'[v] = Instagram!Idle
                                       ELSE worker'[v].event \in posted
  <2>1. CASE v # w
    BY <2>1 DEF AtWork
  <2>2. CASE v = w
    BY <1>1, <2>2 DEF AtWork
  <2> QED BY <2>1, <2>2
<1>3. poller.pc # "handle" => w # Poller /\ worker'[Poller].pc = "idle"
  BY DEF AtWork, Instagram!Workers
<1> QED BY <1>2, <1>3 DEF AtWork

\* Who is at work keeps an event that was posted.
LEMMA AtWorkStep ==
  ASSUME Instagram!InstagramDeliveryAssumption, Instagram!TypeOK, AtWork,
    [Instagram!Next]_(Instagram!vars)
  PROVE  AtWork'
<1> USE DEF Instagram!InstagramDeliveryAssumption, Instagram!TypeOK, AtWork,
Instagram!WorkerState, Instagram!Workers
<1>1. ASSUME NEW e \in Events, Instagram!Post(e) PROVE AtWork'
  BY <1>1 DEF Instagram!Post, Instagram!replyVars, Instagram!history, Instagram!counts
<1>2. ASSUME NEW e \in Events, Instagram!BackoffOver(e) PROVE AtWork'
  BY <1>2 DEF Instagram!BackoffOver, Instagram!history, Instagram!counts
<1>3. ASSUME NEW w \in Webhooks, NEW e \in Events, Instagram!Webhook(w, e)
      PROVE AtWork'
  BY <1>3 DEF Instagram!Webhook, Instagram!Starts, Instagram!Idle,
      Instagram!Workers, Instagram!replyVars, Instagram!history
<1>4. CASE Instagram!TickStarts
  BY <1>4 DEF Instagram!TickStarts, Instagram!Resting, Instagram!replyVars,
      Instagram!history, Instagram!counts
<1>5. CASE Instagram!Lists
  BY <1>5 DEF Instagram!Lists, Instagram!Newer, Instagram!replyVars,
      Instagram!history, Instagram!counts
<1>6. ASSUME NEW e \in Events, Instagram!Polls(e) PROVE AtWork'
  BY <1>6 DEF Instagram!Polls, Instagram!Starts, Instagram!Idle, Instagram!Workers,
      Instagram!replyVars, Instagram!history, Instagram!counts
<1>7. CASE Instagram!TickEnds
  BY <1>7 DEF Instagram!TickEnds, Instagram!Advances, Instagram!Resting,
      Instagram!replyVars, Instagram!history, Instagram!counts
<1>8. CASE Instagram!ListFails
  BY <1>8 DEF Instagram!ListFails, Instagram!Failure, Instagram!Resting,
      Instagram!replyVars, Instagram!history, Instagram!counts
<1>9. ASSUME NEW w \in Instagram!Workers, Instagram!Reserve(w) PROVE AtWork'
  <2>1. \A v \in Instagram!Workers : v # w => worker'[v] = worker[v]
    BY <1>9 DEF Instagram!Reserve, Instagram!Accepts, Instagram!Returns,
        Instagram!GoesTo, Instagram!history, Instagram!counts
  <2>2. \/ worker'[w] = Instagram!Idle
        \/ worker'[w].pc # "idle" /\ worker'[w].event = worker[w].event
    BY <1>9 DEF Instagram!Reserve, Instagram!Accepts, Instagram!Returns,
        Instagram!GoesTo, Instagram!history, Instagram!counts
  <2>3. poller'.pc = poller.pc /\ poller'.todo = poller.todo /\ posted' = posted
    BY <1>9 DEF Instagram!Reserve, Instagram!Accepts, Instagram!Returns,
        Instagram!GoesTo, Instagram!history, Instagram!counts
  <2>4. worker[w].pc # "idle"
    BY <1>9 DEF Instagram!Reserve, Instagram!Accepts, Instagram!Returns,
        Instagram!GoesTo, Instagram!history, Instagram!counts
  <2> QED BY <2>1, <2>2, <2>3, <2>4, StaysAtWork
<1>10. ASSUME NEW w \in Instagram!Workers, Instagram!ReserveFails(w) PROVE AtWork'
  BY <1>10 DEF Instagram!ReserveFails, Instagram!Fault, Instagram!Returns,
      Instagram!Idle, Instagram!replyVars
<1>11. ASSUME NEW w \in Instagram!Workers, Instagram!Blocked(w) PROVE AtWork'
  BY <1>11 DEF Instagram!Blocked, Instagram!Returns, Instagram!Idle,
      Instagram!replyVars, Instagram!counts
<1>12. ASSUME NEW w \in Instagram!Workers, Instagram!QuickMatch(w) PROVE AtWork'
  <2>1. \A v \in Instagram!Workers : v # w => worker'[v] = worker[v]
    BY <1>12 DEF Instagram!QuickMatch, Instagram!Matched, Instagram!Missing,
        Instagram!Returns, Instagram!GoesTo, Instagram!replyVars, Instagram!counts
  <2>2. \/ worker'[w] = Instagram!Idle
        \/ worker'[w].pc # "idle" /\ worker'[w].event = worker[w].event
    BY <1>12 DEF Instagram!QuickMatch, Instagram!Matched, Instagram!Missing,
        Instagram!Returns, Instagram!GoesTo, Instagram!replyVars, Instagram!counts
  <2>3. poller'.pc = poller.pc /\ poller'.todo = poller.todo /\ posted' = posted
    BY <1>12 DEF Instagram!QuickMatch, Instagram!Matched, Instagram!Missing,
        Instagram!Returns, Instagram!GoesTo, Instagram!replyVars, Instagram!counts
  <2>4. worker[w].pc # "idle"
    BY <1>12 DEF Instagram!QuickMatch, Instagram!Matched, Instagram!Missing,
        Instagram!Returns, Instagram!GoesTo, Instagram!replyVars, Instagram!counts
  <2> QED BY <2>1, <2>2, <2>3, <2>4, StaysAtWork
<1>13. ASSUME NEW w \in Instagram!Workers, Instagram!SemanticMatch(w) PROVE AtWork'
  <2>1. \A v \in Instagram!Workers : v # w => worker'[v] = worker[v]
    BY <1>13 DEF Instagram!SemanticMatch, Instagram!Matched, Instagram!Missing,
        Instagram!Returns, Instagram!GoesTo, Instagram!replyVars, Instagram!counts
  <2>2. \/ worker'[w] = Instagram!Idle
        \/ worker'[w].pc # "idle" /\ worker'[w].event = worker[w].event
    BY <1>13 DEF Instagram!SemanticMatch, Instagram!Matched, Instagram!Missing,
        Instagram!Returns, Instagram!GoesTo, Instagram!replyVars, Instagram!counts
  <2>3. poller'.pc = poller.pc /\ poller'.todo = poller.todo /\ posted' = posted
    BY <1>13 DEF Instagram!SemanticMatch, Instagram!Matched, Instagram!Missing,
        Instagram!Returns, Instagram!GoesTo, Instagram!replyVars, Instagram!counts
  <2>4. worker[w].pc # "idle"
    BY <1>13 DEF Instagram!SemanticMatch, Instagram!Matched, Instagram!Missing,
        Instagram!Returns, Instagram!GoesTo, Instagram!replyVars, Instagram!counts
  <2> QED BY <2>1, <2>2, <2>3, <2>4, StaysAtWork
<1>14. ASSUME NEW w \in Instagram!Workers, Instagram!SendLeg(w) PROVE AtWork'
  <2>1. \A v \in Instagram!Workers : v # w => worker'[v] = worker[v]
    BY <1>14 DEF Instagram!SendLeg, Instagram!Sends, Instagram!Skip,
        Instagram!Failure, Instagram!GoesTo, Instagram!replyVars
  <2>2. \/ worker'[w] = Instagram!Idle
        \/ worker'[w].pc # "idle" /\ worker'[w].event = worker[w].event
    BY <1>14 DEF Instagram!SendLeg, Instagram!Sends, Instagram!Skip,
        Instagram!Failure, Instagram!GoesTo, Instagram!replyVars
  <2>3. poller'.pc = poller.pc /\ poller'.todo = poller.todo /\ posted' = posted
    BY <1>14 DEF Instagram!SendLeg, Instagram!Sends, Instagram!Skip,
        Instagram!Failure, Instagram!GoesTo, Instagram!replyVars
  <2>4. worker[w].pc # "idle"
    BY <1>14 DEF Instagram!SendLeg, Instagram!Sends, Instagram!Skip,
        Instagram!Failure, Instagram!GoesTo, Instagram!replyVars
  <2> QED BY <2>1, <2>2, <2>3, <2>4, StaysAtWork
<1>15. ASSUME NEW w \in Instagram!Workers, Instagram!RecordLeg(w) PROVE AtWork'
  <2>1. \A v \in Instagram!Workers : v # w => worker'[v] = worker[v]
    BY <1>15 DEF Instagram!RecordLeg, Instagram!Skip, Instagram!Fault
  <2>2. \/ worker'[w] = Instagram!Idle
        \/ worker'[w].pc # "idle" /\ worker'[w].event = worker[w].event
    BY <1>15 DEF Instagram!RecordLeg, Instagram!Skip, Instagram!Fault
  <2>3. poller'.pc = poller.pc /\ poller'.todo = poller.todo /\ posted' = posted
    BY <1>15 DEF Instagram!RecordLeg, Instagram!Skip, Instagram!Fault
  <2>4. worker[w].pc # "idle"
    BY <1>15 DEF Instagram!RecordLeg, Instagram!Skip, Instagram!Fault
  <2> QED BY <2>1, <2>2, <2>3, <2>4, StaysAtWork
<1>16. ASSUME NEW w \in Instagram!Workers, Instagram!CloseAttempt(w) PROVE AtWork'
  <2>1. \A v \in Instagram!Workers : v # w => worker'[v] = worker[v]
    BY <1>16 DEF Instagram!CloseAttempt, Instagram!Returns, Instagram!GoesTo,
        Instagram!counts
  <2>2. \/ worker'[w] = Instagram!Idle
        \/ worker'[w].pc # "idle" /\ worker'[w].event = worker[w].event
    BY <1>16 DEF Instagram!CloseAttempt, Instagram!Returns, Instagram!GoesTo,
        Instagram!counts
  <2>3. poller'.pc = poller.pc /\ poller'.todo = poller.todo /\ posted' = posted
    BY <1>16 DEF Instagram!CloseAttempt, Instagram!Returns, Instagram!GoesTo,
        Instagram!counts
  <2>4. worker[w].pc # "idle"
    BY <1>16 DEF Instagram!CloseAttempt, Instagram!Returns, Instagram!GoesTo,
        Instagram!counts
  <2> QED BY <2>1, <2>2, <2>3, <2>4, StaysAtWork
<1>17. ASSUME NEW w \in Instagram!Workers, Instagram!Answer(w) PROVE AtWork'
  <2>1. \A v \in Instagram!Workers : v # w => worker'[v] = worker[v]
    BY <1>17 DEF Instagram!Answer, Instagram!Sends, Instagram!Failure,
        Instagram!GoesTo, Instagram!replyVars
  <2>2. \/ worker'[w] = Instagram!Idle
        \/ worker'[w].pc # "idle" /\ worker'[w].event = worker[w].event
    BY <1>17 DEF Instagram!Answer, Instagram!Sends, Instagram!Failure,
        Instagram!GoesTo, Instagram!replyVars
  <2>3. poller'.pc = poller.pc /\ poller'.todo = poller.todo /\ posted' = posted
    BY <1>17 DEF Instagram!Answer, Instagram!Sends, Instagram!Failure,
        Instagram!GoesTo, Instagram!replyVars
  <2>4. worker[w].pc # "idle"
    BY <1>17 DEF Instagram!Answer, Instagram!Sends, Instagram!Failure,
        Instagram!GoesTo, Instagram!replyVars
  <2> QED BY <2>1, <2>2, <2>3, <2>4, StaysAtWork
<1>18. ASSUME NEW w \in Instagram!Workers, Instagram!WrapUp(w) PROVE AtWork'
  BY <1>18 DEF Instagram!WrapUp, Instagram!Returns, Instagram!Idle,
      Instagram!replyVars, Instagram!counts
<1>19. ASSUME NEW w \in Instagram!Workers, Instagram!Release(w) PROVE AtWork'
  BY <1>19 DEF Instagram!Release, Instagram!Released, Instagram!Returns,
      Instagram!Idle, Instagram!history, Instagram!counts
<1>20. ASSUME NEW w \in Instagram!Workers, Instagram!DatabaseError(w) PROVE AtWork'
  <2>1. \A v \in Instagram!Workers : v # w => worker'[v] = worker[v]
    BY <1>20 DEF Instagram!DatabaseError, Instagram!Fault, Instagram!Returns,
        Instagram!GoesTo, Instagram!replyVars
  <2>2. \/ worker'[w] = Instagram!Idle
        \/ worker'[w].pc # "idle" /\ worker'[w].event = worker[w].event
    BY <1>20 DEF Instagram!DatabaseError, Instagram!Fault, Instagram!Returns,
        Instagram!GoesTo, Instagram!replyVars
  <2>3. poller'.pc = poller.pc /\ poller'.todo = poller.todo /\ posted' = posted
    BY <1>20 DEF Instagram!DatabaseError, Instagram!Fault, Instagram!Returns,
        Instagram!GoesTo, Instagram!replyVars
  <2>4. worker[w].pc # "idle"
    BY <1>20 DEF Instagram!DatabaseError, Instagram!Fault, Instagram!Returns,
        Instagram!GoesTo, Instagram!replyVars
  <2> QED BY <2>1, <2>2, <2>3, <2>4, StaysAtWork
<1>21. CASE Instagram!Crash
  BY <1>21 DEF Instagram!Crash, Instagram!Fault, Instagram!Idle, Instagram!Resting,
      Instagram!replyVars
<1>22. CASE UNCHANGED Instagram!vars
  BY <1>22 DEF Instagram!vars, Instagram!replyVars, Instagram!history,
      Instagram!counts
<1> QED BY <1>1, <1>2, <1>3, <1>4, <1>5, <1>6, <1>7, <1>8, <1>9, <1>10,
           <1>11, <1>12, <1>13, <1>14, <1>15, <1>16, <1>17, <1>18, <1>19,
           <1>20, <1>21, <1>22
        DEF Instagram!Next, Instagram!Tick, Instagram!Handle

\* Who works on an event has its receipt, and nobody else gets it.
LEMMA LockedStep ==
  ASSUME Instagram!InstagramDeliveryAssumption, Instagram!TypeOK, AtWork, Locked,
    [Instagram!Next]_(Instagram!vars)
  PROVE  Locked'
<1> USE DEF Instagram!InstagramDeliveryAssumption, Instagram!TypeOK, AtWork,
Instagram!WorkerState, Instagram!Workers,
           Instagram!Idle, Locked, Instagram!Holds
<1>1. ASSUME NEW e \in Events, Instagram!Post(e) PROVE Locked'
  BY <1>1 DEF Instagram!Post, Instagram!replyVars, Instagram!history, Instagram!counts
<1>2. ASSUME NEW e \in Events, Instagram!BackoffOver(e) PROVE Locked'
  BY <1>2 DEF Instagram!BackoffOver, Instagram!history, Instagram!counts
<1>3. ASSUME NEW w \in Webhooks, NEW e \in Events, Instagram!Webhook(w, e)
      PROVE Locked'
  BY <1>3 DEF Instagram!Webhook, Instagram!Starts, Instagram!Idle,
      Instagram!Workers, Instagram!replyVars, Instagram!history
<1>4. CASE Instagram!TickStarts
  BY <1>4 DEF Instagram!TickStarts, Instagram!Resting, Instagram!replyVars,
      Instagram!history, Instagram!counts
<1>5. CASE Instagram!Lists
  BY <1>5 DEF Instagram!Lists, Instagram!Newer, Instagram!replyVars,
      Instagram!history, Instagram!counts
<1>6. ASSUME NEW e \in Events, Instagram!Polls(e) PROVE Locked'
  BY <1>6 DEF Instagram!Polls, Instagram!Starts, Instagram!Idle, Instagram!Workers,
      Instagram!replyVars, Instagram!history, Instagram!counts
<1>7. CASE Instagram!TickEnds
  BY <1>7 DEF Instagram!TickEnds, Instagram!Advances, Instagram!Resting,
      Instagram!replyVars, Instagram!history, Instagram!counts
<1>8. CASE Instagram!ListFails
  BY <1>8 DEF Instagram!ListFails, Instagram!Failure, Instagram!Resting,
      Instagram!replyVars, Instagram!history, Instagram!counts
<1>9. ASSUME NEW w \in Instagram!Workers, Instagram!Reserve(w) PROVE Locked'
  BY <1>9 DEF Instagram!Reserve, Instagram!Accepts, Instagram!Returns,
      Instagram!GoesTo, Instagram!Idle, Instagram!history, Instagram!counts
<1>10. ASSUME NEW w \in Instagram!Workers, Instagram!ReserveFails(w) PROVE Locked'
  BY <1>10 DEF Instagram!ReserveFails, Instagram!Fault, Instagram!Returns,
      Instagram!Idle, Instagram!replyVars
<1>11. ASSUME NEW w \in Instagram!Workers, Instagram!Blocked(w) PROVE Locked'
  BY <1>11 DEF Instagram!Blocked, Instagram!Returns, Instagram!Idle,
      Instagram!replyVars, Instagram!counts
<1>12. ASSUME NEW w \in Instagram!Workers, Instagram!QuickMatch(w) PROVE Locked'
  BY <1>12 DEF Instagram!QuickMatch, Instagram!Matched, Instagram!Missing,
      Instagram!Returns, Instagram!GoesTo, Instagram!Idle, Instagram!replyVars,
      Instagram!counts
<1>13. ASSUME NEW w \in Instagram!Workers, Instagram!SemanticMatch(w) PROVE Locked'
  BY <1>13 DEF Instagram!SemanticMatch, Instagram!Matched, Instagram!Missing,
      Instagram!Returns, Instagram!GoesTo, Instagram!Idle, Instagram!replyVars,
      Instagram!counts
<1>14. ASSUME NEW w \in Instagram!Workers, Instagram!SendLeg(w) PROVE Locked'
  BY <1>14 DEF Instagram!SendLeg, Instagram!Sends, Instagram!Skip,
      Instagram!Failure, Instagram!GoesTo, Instagram!replyVars
<1>15. ASSUME NEW w \in Instagram!Workers, Instagram!RecordLeg(w) PROVE Locked'
  BY <1>15 DEF Instagram!RecordLeg, Instagram!Skip, Instagram!Fault
<1>16. ASSUME NEW w \in Instagram!Workers, Instagram!CloseAttempt(w) PROVE Locked'
  BY <1>16 DEF Instagram!CloseAttempt, Instagram!Returns, Instagram!GoesTo,
      Instagram!Idle, Instagram!counts
<1>17. ASSUME NEW w \in Instagram!Workers, Instagram!Answer(w) PROVE Locked'
  BY <1>17 DEF Instagram!Answer, Instagram!Sends, Instagram!Failure,
      Instagram!GoesTo, Instagram!replyVars
<1>18. ASSUME NEW w \in Instagram!Workers, Instagram!WrapUp(w) PROVE Locked'
  BY <1>18 DEF Instagram!WrapUp, Instagram!Returns, Instagram!Idle,
      Instagram!replyVars, Instagram!counts
<1>19. ASSUME NEW w \in Instagram!Workers, Instagram!Release(w) PROVE Locked'
  BY <1>19 DEF Instagram!Release, Instagram!Released, Instagram!Returns,
      Instagram!Idle, Instagram!history, Instagram!counts
<1>20. ASSUME NEW w \in Instagram!Workers, Instagram!DatabaseError(w) PROVE Locked'
  BY <1>20 DEF Instagram!DatabaseError, Instagram!Fault, Instagram!Returns,
      Instagram!GoesTo, Instagram!Idle, Instagram!replyVars
<1>21. CASE Instagram!Crash
  BY <1>21 DEF Instagram!Crash, Instagram!Fault, Instagram!Idle, Instagram!Resting,
      Instagram!replyVars
<1>22. CASE UNCHANGED Instagram!vars
  BY <1>22 DEF Instagram!vars, Instagram!replyVars, Instagram!history,
      Instagram!counts
<1> QED BY <1>1, <1>2, <1>3, <1>4, <1>5, <1>6, <1>7, <1>8, <1>9, <1>10,
           <1>11, <1>12, <1>13, <1>14, <1>15, <1>16, <1>17, <1>18, <1>19,
           <1>20, <1>21, <1>22
        DEF Instagram!Next, Instagram!Tick, Instagram!Handle

\* An attempt goes on with the legs its automation has not recorded.
LEMMA AttemptsStep ==
  ASSUME Instagram!InstagramDeliveryAssumption, Instagram!TypeOK, AtWork, Locked,
    Attempts,
         [Instagram!Next]_(Instagram!vars)
  PROVE  Attempts'
<1> USE DEF Instagram!InstagramDeliveryAssumption, Instagram!TypeOK, AtWork,
Instagram!WorkerState, Instagram!Workers,
           Instagram!Idle, Locked, Instagram!Holds, Attempts
<1>1. ASSUME NEW e \in Events, Instagram!Post(e) PROVE Attempts'
  BY <1>1 DEF Instagram!Post, Instagram!replyVars, Instagram!history, Instagram!counts
<1>2. ASSUME NEW e \in Events, Instagram!BackoffOver(e) PROVE Attempts'
  BY <1>2 DEF Instagram!BackoffOver, Instagram!history, Instagram!counts
<1>3. ASSUME NEW w \in Webhooks, NEW e \in Events, Instagram!Webhook(w, e)
      PROVE Attempts'
  BY <1>3 DEF Instagram!Webhook, Instagram!Starts, Instagram!Idle,
      Instagram!Workers, Instagram!replyVars, Instagram!history
<1>4. CASE Instagram!TickStarts
  BY <1>4 DEF Instagram!TickStarts, Instagram!Resting, Instagram!replyVars,
      Instagram!history, Instagram!counts
<1>5. CASE Instagram!Lists
  BY <1>5 DEF Instagram!Lists, Instagram!Newer, Instagram!replyVars,
      Instagram!history, Instagram!counts
<1>6. ASSUME NEW e \in Events, Instagram!Polls(e) PROVE Attempts'
  BY <1>6 DEF Instagram!Polls, Instagram!Starts, Instagram!Idle, Instagram!Workers,
      Instagram!replyVars, Instagram!history, Instagram!counts
<1>7. CASE Instagram!TickEnds
  BY <1>7 DEF Instagram!TickEnds, Instagram!Advances, Instagram!Resting,
      Instagram!replyVars, Instagram!history, Instagram!counts
<1>8. CASE Instagram!ListFails
  BY <1>8 DEF Instagram!ListFails, Instagram!Failure, Instagram!Resting,
      Instagram!replyVars, Instagram!history, Instagram!counts
<1>9. ASSUME NEW w \in Instagram!Workers, Instagram!Reserve(w) PROVE Attempts'
  BY <1>9 DEF Instagram!Reserve, Instagram!Accepts, Instagram!Returns,
      Instagram!GoesTo, Instagram!Idle, Instagram!history, Instagram!counts
<1>10. ASSUME NEW w \in Instagram!Workers, Instagram!ReserveFails(w) PROVE Attempts'
  BY <1>10 DEF Instagram!ReserveFails, Instagram!Fault, Instagram!Returns,
      Instagram!Idle, Instagram!replyVars
<1>11. ASSUME NEW w \in Instagram!Workers, Instagram!Blocked(w) PROVE Attempts'
  BY <1>11 DEF Instagram!Blocked, Instagram!Returns, Instagram!Idle,
      Instagram!replyVars, Instagram!counts
<1>12. ASSUME NEW w \in Instagram!Workers, Instagram!QuickMatch(w) PROVE Attempts'
  BY <1>12 DEF Instagram!QuickMatch, Instagram!Matched, Instagram!Missing,
      Instagram!Returns, Instagram!GoesTo, Instagram!Idle, Instagram!replyVars,
      Instagram!counts
<1>13. ASSUME NEW w \in Instagram!Workers, Instagram!SemanticMatch(w) PROVE Attempts'
  BY <1>13 DEF Instagram!SemanticMatch, Instagram!Matched, Instagram!Missing,
      Instagram!Returns, Instagram!GoesTo, Instagram!Idle, Instagram!replyVars,
      Instagram!counts
<1>14. ASSUME NEW w \in Instagram!Workers, Instagram!SendLeg(w) PROVE Attempts'
  BY <1>14 DEF Instagram!SendLeg, Instagram!Sends, Instagram!Skip,
      Instagram!Failure, Instagram!GoesTo, Instagram!replyVars
<1>15. ASSUME NEW w \in Instagram!Workers, Instagram!RecordLeg(w) PROVE Attempts'
  BY <1>15 DEF Instagram!RecordLeg, Instagram!Skip, Instagram!Fault
<1>16. ASSUME NEW w \in Instagram!Workers, Instagram!CloseAttempt(w) PROVE Attempts'
  BY <1>16 DEF Instagram!CloseAttempt, Instagram!Returns, Instagram!GoesTo,
      Instagram!Idle, Instagram!counts
<1>17. ASSUME NEW w \in Instagram!Workers, Instagram!Answer(w) PROVE Attempts'
  BY <1>17 DEF Instagram!Answer, Instagram!Sends, Instagram!Failure,
      Instagram!GoesTo, Instagram!replyVars
<1>18. ASSUME NEW w \in Instagram!Workers, Instagram!WrapUp(w) PROVE Attempts'
  BY <1>18 DEF Instagram!WrapUp, Instagram!Returns, Instagram!Idle,
      Instagram!replyVars, Instagram!counts
<1>19. ASSUME NEW w \in Instagram!Workers, Instagram!Release(w) PROVE Attempts'
  BY <1>19 DEF Instagram!Release, Instagram!Released, Instagram!Returns,
      Instagram!Idle, Instagram!history, Instagram!counts
<1>20. ASSUME NEW w \in Instagram!Workers, Instagram!DatabaseError(w) PROVE Attempts'
  BY <1>20 DEF Instagram!DatabaseError, Instagram!Fault, Instagram!Returns,
      Instagram!GoesTo, Instagram!Idle, Instagram!replyVars
<1>21. CASE Instagram!Crash
  BY <1>21 DEF Instagram!Crash, Instagram!Fault, Instagram!Idle, Instagram!Resting,
      Instagram!replyVars
<1>22. CASE UNCHANGED Instagram!vars
  BY <1>22 DEF Instagram!vars, Instagram!replyVars, Instagram!history,
      Instagram!counts
<1> QED BY <1>1, <1>2, <1>3, <1>4, <1>5, <1>6, <1>7, <1>8, <1>9, <1>10,
           <1>11, <1>12, <1>13, <1>14, <1>15, <1>16, <1>17, <1>18, <1>19,
           <1>20, <1>21, <1>22
        DEF Instagram!Next, Instagram!Tick, Instagram!Handle

\* What falls behind the cursor is settled, and stays so.
LEMMA CursorStep ==
  ASSUME Instagram!InstagramDeliveryAssumption, Instagram!TypeOK, AtWork, Locked,
    CursorBehind,
         [Instagram!Next]_(Instagram!vars)
  PROVE  CursorBehind'
<1> USE DEF Instagram!InstagramDeliveryAssumption, Instagram!TypeOK, AtWork,
Instagram!WorkerState, Instagram!Workers,
           Instagram!Idle, Locked, Instagram!Holds, CursorBehind, EventSettled
<1>1. ASSUME NEW e \in Events, Instagram!Post(e) PROVE CursorBehind'
  BY <1>1 DEF Instagram!Post, Instagram!replyVars, Instagram!history, Instagram!counts
<1>2. ASSUME NEW e \in Events, Instagram!BackoffOver(e) PROVE CursorBehind'
  BY <1>2 DEF Instagram!BackoffOver, Instagram!history, Instagram!counts
<1>3. ASSUME NEW w \in Webhooks, NEW e \in Events, Instagram!Webhook(w, e)
      PROVE CursorBehind'
  BY <1>3 DEF Instagram!Webhook, Instagram!Starts, Instagram!Idle,
      Instagram!Workers, Instagram!replyVars, Instagram!history
<1>4. CASE Instagram!TickStarts
  BY <1>4 DEF Instagram!TickStarts, Instagram!Resting, Instagram!replyVars,
      Instagram!history, Instagram!counts
<1>5. CASE Instagram!Lists
  BY <1>5 DEF Instagram!Lists, Instagram!Newer, Instagram!replyVars,
      Instagram!history, Instagram!counts
<1>6. ASSUME NEW e \in Events, Instagram!Polls(e) PROVE CursorBehind'
  BY <1>6 DEF Instagram!Polls, Instagram!Starts, Instagram!Idle, Instagram!Workers,
      Instagram!replyVars, Instagram!history, Instagram!counts
<1>7. CASE Instagram!TickEnds
  BY <1>7 DEF Instagram!TickEnds, Instagram!Advances, Instagram!Resting,
      Instagram!replyVars, Instagram!history, Instagram!counts
<1>8. CASE Instagram!ListFails
  BY <1>8 DEF Instagram!ListFails, Instagram!Failure, Instagram!Resting,
      Instagram!replyVars, Instagram!history, Instagram!counts
<1>9. ASSUME NEW w \in Instagram!Workers, Instagram!Reserve(w) PROVE CursorBehind'
  BY <1>9 DEF Instagram!Reserve, Instagram!Accepts, Instagram!Returns,
      Instagram!GoesTo, Instagram!Idle, Instagram!history, Instagram!counts
<1>10. ASSUME NEW w \in Instagram!Workers, Instagram!ReserveFails(w)
      PROVE CursorBehind'
  BY <1>10 DEF Instagram!ReserveFails, Instagram!Fault, Instagram!Returns,
      Instagram!Idle, Instagram!replyVars
<1>11. ASSUME NEW w \in Instagram!Workers, Instagram!Blocked(w) PROVE CursorBehind'
  BY <1>11 DEF Instagram!Blocked, Instagram!Returns, Instagram!Idle,
      Instagram!replyVars, Instagram!counts
<1>12. ASSUME NEW w \in Instagram!Workers, Instagram!QuickMatch(w) PROVE CursorBehind'
  BY <1>12 DEF Instagram!QuickMatch, Instagram!Matched, Instagram!Missing,
      Instagram!Returns, Instagram!GoesTo, Instagram!Idle, Instagram!replyVars,
      Instagram!counts
<1>13. ASSUME NEW w \in Instagram!Workers, Instagram!SemanticMatch(w)
      PROVE CursorBehind'
  BY <1>13 DEF Instagram!SemanticMatch, Instagram!Matched, Instagram!Missing,
      Instagram!Returns, Instagram!GoesTo, Instagram!Idle, Instagram!replyVars,
      Instagram!counts
<1>14. ASSUME NEW w \in Instagram!Workers, Instagram!SendLeg(w) PROVE CursorBehind'
  BY <1>14 DEF Instagram!SendLeg, Instagram!Sends, Instagram!Skip,
      Instagram!Failure, Instagram!GoesTo, Instagram!replyVars
<1>15. ASSUME NEW w \in Instagram!Workers, Instagram!RecordLeg(w) PROVE CursorBehind'
  BY <1>15 DEF Instagram!RecordLeg, Instagram!Skip, Instagram!Fault
<1>16. ASSUME NEW w \in Instagram!Workers, Instagram!CloseAttempt(w)
      PROVE CursorBehind'
  BY <1>16 DEF Instagram!CloseAttempt, Instagram!Returns, Instagram!GoesTo,
      Instagram!Idle, Instagram!counts
<1>17. ASSUME NEW w \in Instagram!Workers, Instagram!Answer(w) PROVE CursorBehind'
  BY <1>17 DEF Instagram!Answer, Instagram!Sends, Instagram!Failure,
      Instagram!GoesTo, Instagram!replyVars
<1>18. ASSUME NEW w \in Instagram!Workers, Instagram!WrapUp(w) PROVE CursorBehind'
  BY <1>18 DEF Instagram!WrapUp, Instagram!Returns, Instagram!Idle,
      Instagram!replyVars, Instagram!counts
<1>19. ASSUME NEW w \in Instagram!Workers, Instagram!Release(w) PROVE CursorBehind'
  BY <1>19 DEF Instagram!Release, Instagram!Released, Instagram!Returns,
      Instagram!Idle, Instagram!history, Instagram!counts
<1>20. ASSUME NEW w \in Instagram!Workers, Instagram!DatabaseError(w)
      PROVE CursorBehind'
  BY <1>20 DEF Instagram!DatabaseError, Instagram!Fault, Instagram!Returns,
      Instagram!GoesTo, Instagram!Idle, Instagram!replyVars
<1>21. CASE Instagram!Crash
  BY <1>21 DEF Instagram!Crash, Instagram!Fault, Instagram!Idle, Instagram!Resting,
      Instagram!replyVars
<1>22. CASE UNCHANGED Instagram!vars
  BY <1>22 DEF Instagram!vars, Instagram!replyVars, Instagram!history,
      Instagram!counts
<1> QED BY <1>1, <1>2, <1>3, <1>4, <1>5, <1>6, <1>7, <1>8, <1>9, <1>10,
           <1>11, <1>12, <1>13, <1>14, <1>15, <1>16, <1>17, <1>18, <1>19,
           <1>20, <1>21, <1>22
        DEF Instagram!Next, Instagram!Tick, Instagram!Handle

\* A handler that moves without a leg to record leaves what is known.
LEMMA KnownStays ==
  ASSUME SentIsKnown, NEW w \in Instagram!Workers,
         worker[w].pc # "record", worker'[w].pc # "record",
         \A v \in Instagram!Workers : v # w => worker'[v] = worker[v],
         \A e \in Events : Instagram!Holds(w, e)' /\ e \notin excused' =>
                             Instagram!Holds(w, e) /\ worker[w].pc # "wrapup",
         UNCHANGED <<sent, recorded, inbound>>, excused \subseteq excused'
  PROVE  SentIsKnown'
<1> SUFFICES ASSUME NEW e \in Events, e \notin excused' PROVE Known(e)'
  BY DEF SentIsKnown
<1>1. e \notin excused
  OBVIOUS
<1>2. \A v \in Instagram!Workers : v # w => Instagram!Leg(v)' = Instagram!Leg(v)
  BY DEF Instagram!Leg
<1>3. \A v \in Instagram!Workers : v # w =>
        (Instagram!Holds(v, e)' <=> Instagram!Holds(v, e))
  BY DEF Instagram!Holds
<1> QED BY <1>1, <1>2, <1>3 DEF SentIsKnown, Known

\* A leg that goes out is about to be recorded, or excused.
LEMMA SendLegKnown ==
  ASSUME Instagram!InstagramDeliveryAssumption, Instagram!TypeOK, AtWork, Locked,
    Attempts, SentIsKnown,
         NEW w \in Instagram!Workers, Instagram!SendLeg(w)
  PROVE  SentIsKnown'
<1> DEFINE f == worker[w].event
<1>1. /\ f \in Events /\ Instagram!Leg(w) \in Instagram!Legs
      /\ Instagram!Leg(w) # "answer"
      /\ worker[w].pc = "legs" /\ Instagram!Holds(w, f)
  BY DEF Instagram!SendLeg, AtWork, Instagram!TypeOK, Instagram!WorkerState,
      Instagram!Leg, Instagram!Legs, Instagram!Holds
<1>2. /\ \A v \in Instagram!Workers : v # w => worker'[v] = worker[v]
      /\ worker'[w].event = f /\ worker'[w].pc \in {"legs", "record"}
      /\ worker'[w].pc = "record" => /\ worker'[w].left = worker[w].left
                                     /\ <<f, Instagram!Leg(w)>> \in sent'.once
      /\ worker'[w].pc = "legs" => f \in excused' \/ sent' = sent
  BY DEF Instagram!SendLeg, Instagram!Sends, Instagram!Skip, Instagram!Failure,
      Instagram!GoesTo, Instagram!replyVars, Instagram!TypeOK,
      Instagram!WorkerState, Instagram!Legs, Instagram!Replies
<1>3. /\ sent.once \subseteq sent'.once
      /\ sent'.once \subseteq sent.once \cup {<<f, Instagram!Leg(w)>>}
      /\ UNCHANGED <<recorded, inbound>> /\ excused \subseteq excused'
  BY DEF Instagram!SendLeg, Instagram!Sends, Instagram!Skip, Instagram!Failure,
      Instagram!GoesTo, Instagram!replyVars, Instagram!TypeOK
<1>4. worker'[w].pc = "record" => Instagram!Leg(w)' = Instagram!Leg(w)
  BY <1>2 DEF Instagram!Leg
<1>5. \A v \in Instagram!Workers : v # w =>
        /\ Instagram!Leg(v)' = Instagram!Leg(v)
         /\ \A e \in Events : Instagram!Holds(v, e)' <=> Instagram!Holds(v, e)
  BY <1>2 DEF Instagram!Leg, Instagram!Holds
<1> SUFFICES ASSUME NEW e \in Events, e \notin excused' PROVE Known(e)'
  BY DEF SentIsKnown
<1>6. Known(e)
  BY <1>3 DEF SentIsKnown
<1>7. CASE e # f
  BY <1>2, <1>3, <1>5, <1>6, <1>7 DEF Known, Instagram!Holds
<1>8. CASE e = f
  <2>1. \A v \in Instagram!Workers : Instagram!Holds(v, e) => v = w
    BY <1>1, <1>8 DEF Locked
  <2>2. \A v \in Instagram!Workers : worker[v].event = e => worker[v].pc # "record"
    BY <1>1, <2>1 DEF Instagram!Holds
  <2>3. \A leg \in Instagram!Legs : <<e, leg>> \in sent.once => leg \in recorded[e]
    BY <1>6, <2>2 DEF Known
  <2>4. <<e, "answer">> \notin sent.once
    BY <1>1, <1>6, <1>8 DEF Known
  <2>5. <<e, "answer">> \notin sent'.once
    BY <1>1, <1>3, <1>8, <2>4
  <2>6. \A v \in Instagram!Workers : worker'[v].event = e /\ worker'[v].pc = "record" =>
          v = w /\ <<e, Instagram!Leg(v)'>> \in sent'.once
    BY <1>2, <1>4, <1>8, <2>2
  <2>7. ASSUME NEW leg \in Instagram!Legs, <<e, leg>> \in sent'.once
        PROVE  \/ leg \in recorded'[e]
               \/ /\ worker'[w].event = e /\ worker'[w].pc = "record"
                  /\ Instagram!Leg(w)' = leg
    <3>1. CASE <<e, leg>> \in sent.once
      BY <1>3, <2>3, <3>1
    <3>2. CASE <<e, leg>> \notin sent.once
      BY <1>2, <1>3, <1>4, <1>8, <2>7, <3>2
    <3> QED BY <3>1, <3>2
  <2> QED BY <2>5, <2>6, <2>7 DEF Known
<1> QED BY <1>7, <1>8

\* What was sent is recorded, about to be, or excused.
LEMMA KnownStep ==
  ASSUME Instagram!InstagramDeliveryAssumption, Instagram!TypeOK, AtWork, Locked,
    Attempts,
         SentIsKnown, [Instagram!Next]_(Instagram!vars)
  PROVE  SentIsKnown'
<1> USE DEF Instagram!InstagramDeliveryAssumption, Instagram!TypeOK, AtWork,
Instagram!WorkerState, Instagram!Workers,
           Instagram!Idle, Locked, Instagram!Holds, Attempts, SentIsKnown, Known,
           Instagram!Leg, Instagram!Legs,
           Instagram!Replies
<1>1. ASSUME NEW e \in Events, Instagram!Post(e) PROVE SentIsKnown'
  BY <1>1 DEF Instagram!Post, Instagram!replyVars, Instagram!history, Instagram!counts
<1>2. ASSUME NEW e \in Events, Instagram!BackoffOver(e) PROVE SentIsKnown'
  BY <1>2 DEF Instagram!BackoffOver, Instagram!history, Instagram!counts
<1>3. ASSUME NEW w \in Webhooks, NEW e \in Events, Instagram!Webhook(w, e)
      PROVE SentIsKnown'
  BY <1>3 DEF Instagram!Webhook, Instagram!Starts, Instagram!Idle,
      Instagram!Workers, Instagram!replyVars, Instagram!history
<1>4. CASE Instagram!TickStarts
  BY <1>4 DEF Instagram!TickStarts, Instagram!Resting, Instagram!replyVars,
      Instagram!history, Instagram!counts
<1>5. CASE Instagram!Lists
  BY <1>5 DEF Instagram!Lists, Instagram!Newer, Instagram!replyVars,
      Instagram!history, Instagram!counts
<1>6. ASSUME NEW e \in Events, Instagram!Polls(e) PROVE SentIsKnown'
  BY <1>6 DEF Instagram!Polls, Instagram!Starts, Instagram!Idle, Instagram!Workers,
      Instagram!replyVars, Instagram!history, Instagram!counts
<1>7. CASE Instagram!TickEnds
  BY <1>7 DEF Instagram!TickEnds, Instagram!Advances, Instagram!Resting,
      Instagram!replyVars, Instagram!history, Instagram!counts
<1>8. CASE Instagram!ListFails
  BY <1>8 DEF Instagram!ListFails, Instagram!Failure, Instagram!Resting,
      Instagram!replyVars, Instagram!history, Instagram!counts
<1>9. ASSUME NEW w \in Instagram!Workers, Instagram!Reserve(w) PROVE SentIsKnown'
  BY <1>9, SMTT(20) DEF Instagram!Reserve, Instagram!Accepts, Instagram!Returns,
      Instagram!GoesTo, Instagram!Idle, Instagram!history, Instagram!counts
<1>10. ASSUME NEW w \in Instagram!Workers, Instagram!ReserveFails(w)
      PROVE SentIsKnown'
  BY <1>10, SMTT(20) DEF Instagram!ReserveFails, Instagram!Fault,
      Instagram!Returns, Instagram!Idle, Instagram!replyVars
<1>11. ASSUME NEW w \in Instagram!Workers, Instagram!Blocked(w) PROVE SentIsKnown'
  BY <1>11, SMTT(20) DEF Instagram!Blocked, Instagram!Returns, Instagram!Idle,
      Instagram!replyVars, Instagram!counts
<1>12. ASSUME NEW w \in Instagram!Workers, Instagram!QuickMatch(w) PROVE SentIsKnown'
  <2>1. worker[w].pc # "record" /\ worker'[w].pc # "record"
    BY <1>12 DEF Instagram!QuickMatch, Instagram!Matched, Instagram!Missing,
        Instagram!Returns, Instagram!GoesTo, Instagram!Idle, Instagram!replyVars,
        Instagram!counts
  <2>2. \A v \in Instagram!Workers : v # w => worker'[v] = worker[v]
    BY <1>12 DEF Instagram!QuickMatch, Instagram!Matched, Instagram!Missing,
        Instagram!Returns, Instagram!GoesTo, Instagram!Idle, Instagram!replyVars,
        Instagram!counts
  <2>3. \A e \in Events : Instagram!Holds(w, e)' /\ e \notin excused' =>
                          Instagram!Holds(w, e) /\ worker[w].pc # "wrapup"
    BY <1>12 DEF Instagram!QuickMatch, Instagram!Matched, Instagram!Missing,
        Instagram!Returns, Instagram!GoesTo, Instagram!Idle, Instagram!replyVars,
        Instagram!counts
  <2>4. UNCHANGED <<sent, recorded, inbound>> /\ excused \subseteq excused'
    BY <1>12 DEF Instagram!QuickMatch, Instagram!Matched, Instagram!Missing,
        Instagram!Returns, Instagram!GoesTo, Instagram!Idle, Instagram!replyVars,
        Instagram!counts
  <2> QED BY <2>1, <2>2, <2>3, <2>4, KnownStays
<1>13. ASSUME NEW w \in Instagram!Workers, Instagram!SemanticMatch(w)
      PROVE SentIsKnown'
  <2>1. worker[w].pc # "record" /\ worker'[w].pc # "record"
    BY <1>13 DEF Instagram!SemanticMatch, Instagram!Matched, Instagram!Missing,
        Instagram!Returns, Instagram!GoesTo, Instagram!Idle, Instagram!replyVars,
        Instagram!counts
  <2>2. \A v \in Instagram!Workers : v # w => worker'[v] = worker[v]
    BY <1>13 DEF Instagram!SemanticMatch, Instagram!Matched, Instagram!Missing,
        Instagram!Returns, Instagram!GoesTo, Instagram!Idle, Instagram!replyVars,
        Instagram!counts
  <2>3. \A e \in Events : Instagram!Holds(w, e)' /\ e \notin excused' =>
                          Instagram!Holds(w, e) /\ worker[w].pc # "wrapup"
    BY <1>13 DEF Instagram!SemanticMatch, Instagram!Matched, Instagram!Missing,
        Instagram!Returns, Instagram!GoesTo, Instagram!Idle, Instagram!replyVars,
        Instagram!counts
  <2>4. UNCHANGED <<sent, recorded, inbound>> /\ excused \subseteq excused'
    BY <1>13 DEF Instagram!SemanticMatch, Instagram!Matched, Instagram!Missing,
        Instagram!Returns, Instagram!GoesTo, Instagram!Idle, Instagram!replyVars,
        Instagram!counts
  <2> QED BY <2>1, <2>2, <2>3, <2>4, KnownStays
<1>14. ASSUME NEW w \in Instagram!Workers, Instagram!SendLeg(w) PROVE SentIsKnown'
  BY <1>14, SendLegKnown
<1>15. ASSUME NEW w \in Instagram!Workers, Instagram!RecordLeg(w) PROVE SentIsKnown'
  BY <1>15, SMTT(20) DEF Instagram!RecordLeg, Instagram!Skip, Instagram!Fault
<1>16. ASSUME NEW w \in Instagram!Workers, Instagram!CloseAttempt(w)
      PROVE SentIsKnown'
  BY <1>16, SMTT(20) DEF Instagram!CloseAttempt, Instagram!Returns,
      Instagram!GoesTo, Instagram!Idle, Instagram!counts
<1>17. ASSUME NEW w \in Instagram!Workers, Instagram!Answer(w) PROVE SentIsKnown'
  <2> DEFINE f == worker[w].event
  <2>1. f \in Events /\ worker[w].pc = "answer" /\ Instagram!Holds(w, f)
    BY <1>17 DEF Instagram!Answer
  <2>2. /\ \A v \in Instagram!Workers : v # w => worker'[v] = worker[v]
        /\ worker'[w].event = f /\ worker'[w].pc \in {"wrapup", "release"}
        /\ worker'[w].pc = "release" => f \in excused' \/ sent' = sent
    BY <1>17 DEF Instagram!Answer, Instagram!Sends, Instagram!Failure,
        Instagram!GoesTo, Instagram!replyVars
  <2>3. /\ sent.once \subseteq sent'.once
        /\ sent'.once \subseteq sent.once \cup {<<f, "answer">>}
        /\ UNCHANGED <<recorded, inbound>> /\ excused \subseteq excused'
    BY <1>17 DEF Instagram!Answer, Instagram!Sends, Instagram!Failure,
        Instagram!GoesTo, Instagram!replyVars
  <2> QED BY <2>1, <2>2, <2>3, SMTT(20)
<1>18. ASSUME NEW w \in Instagram!Workers, Instagram!WrapUp(w) PROVE SentIsKnown'
  BY <1>18, SMTT(20) DEF Instagram!WrapUp, Instagram!Returns, Instagram!Idle,
      Instagram!replyVars, Instagram!counts
<1>19. ASSUME NEW w \in Instagram!Workers, Instagram!Release(w) PROVE SentIsKnown'
  BY <1>19 DEF Instagram!Release, Instagram!Released, Instagram!Returns,
      Instagram!Idle, Instagram!history, Instagram!counts
<1>20. ASSUME NEW w \in Instagram!Workers, Instagram!DatabaseError(w)
      PROVE SentIsKnown'
  <2>1. worker[w].pc # "record" /\ worker'[w].pc # "record"
    BY <1>20 DEF Instagram!DatabaseError, Instagram!Fault, Instagram!Returns,
        Instagram!GoesTo, Instagram!Idle, Instagram!replyVars
  <2>2. \A v \in Instagram!Workers : v # w => worker'[v] = worker[v]
    BY <1>20 DEF Instagram!DatabaseError, Instagram!Fault, Instagram!Returns,
        Instagram!GoesTo, Instagram!Idle, Instagram!replyVars
  <2>3. \A e \in Events : Instagram!Holds(w, e)' /\ e \notin excused' =>
                          Instagram!Holds(w, e) /\ worker[w].pc # "wrapup"
    BY <1>20 DEF Instagram!DatabaseError, Instagram!Fault, Instagram!Returns,
        Instagram!GoesTo, Instagram!Idle, Instagram!replyVars
  <2>4. UNCHANGED <<sent, recorded, inbound>> /\ excused \subseteq excused'
    BY <1>20 DEF Instagram!DatabaseError, Instagram!Fault, Instagram!Returns,
        Instagram!GoesTo, Instagram!Idle, Instagram!replyVars
  <2> QED BY <2>1, <2>2, <2>3, <2>4, KnownStays
<1>21. CASE Instagram!Crash
  BY <1>21, SMTT(20) DEF Instagram!Crash, Instagram!Fault, Instagram!Idle,
      Instagram!Resting, Instagram!replyVars
<1>22. CASE UNCHANGED Instagram!vars
  BY <1>22 DEF Instagram!vars, Instagram!replyVars, Instagram!history,
      Instagram!counts
<1> QED BY <1>1, <1>2, <1>3, <1>4, <1>5, <1>6, <1>7, <1>8, <1>9, <1>10, ZenonT(40),
           <1>11, <1>12, <1>13, <1>14, <1>15, <1>16, <1>17, <1>18, <1>19,
           <1>20, <1>21, <1>22
        DEF Instagram!Next, Instagram!Tick, Instagram!Handle

\* What a handler is about to send did not go out before.
LEMMA NotYetSent ==
  ASSUME Instagram!TypeOK, Locked, Attempts, SentIsKnown,
    NEW w \in Instagram!Workers, NEW e \in Events,
         worker[w].event = e, e \notin excused
  PROVE  /\ worker[w].pc = "legs" /\ worker[w].left # {} =>
              <<e, Instagram!Leg(w)>> \notin sent.once
         /\ worker[w].pc = "answer" => <<e, "answer">> \notin sent.once
<1>1. ASSUME worker[w].pc = "legs", worker[w].left # {}
      PROVE  <<e, Instagram!Leg(w)>> \notin sent.once
  <2>1. Instagram!Holds(w, e)
    BY <1>1 DEF Instagram!Holds
  <2>2. Instagram!Leg(w) \in worker[w].left /\ Instagram!Leg(w) \in Instagram!Legs
    <3>1. worker[w].left \subseteq Instagram!Legs
      BY DEF Instagram!TypeOK, Instagram!WorkerState
    <3> QED BY <1>1, <3>1 DEF Instagram!Leg, Instagram!Legs
  <2>3. Instagram!Leg(w) \notin recorded[e]
    BY <1>1, <2>2 DEF Attempts
  <2>4. ASSUME NEW v \in Instagram!Workers, worker[v].event = e, worker[v].pc = "record"
        PROVE  FALSE
    <3>1. Instagram!Holds(v, e)
      BY <2>4 DEF Instagram!Holds
    <3> QED BY <1>1, <2>1, <2>4, <3>1 DEF Locked
  <2> QED BY <2>2, <2>3, <2>4 DEF SentIsKnown, Known
<1>2. ASSUME worker[w].pc = "answer"
      PROVE  <<e, "answer">> \notin sent.once
  <2>1. Instagram!Holds(w, e)
    BY <1>2 DEF Instagram!Holds
  <2> QED BY <1>2, <2>1 DEF SentIsKnown, Known
<1> QED BY <1>1, <1>2

\* Nothing is sent twice.
LEMMA TwiceStep ==
  ASSUME Instagram!InstagramDeliveryAssumption, Instagram!TypeOK, AtWork, Locked,
    Attempts,
         SentIsKnown, Instagram!NothingSentTwice, [Instagram!Next]_(Instagram!vars)
  PROVE  Instagram!NothingSentTwice'
<1> USE DEF Instagram!InstagramDeliveryAssumption, Instagram!TypeOK, AtWork,
Instagram!WorkerState, Instagram!Workers,
           Instagram!Idle, Locked, Instagram!Holds, Attempts, SentIsKnown, Known,
           Instagram!NothingSentTwice, Instagram!Leg, Instagram!Legs,
           Instagram!Replies
<1>1. ASSUME NEW e \in Events, Instagram!Post(e) PROVE Instagram!NothingSentTwice'
  BY <1>1 DEF Instagram!Post, Instagram!replyVars, Instagram!history, Instagram!counts
<1>2. ASSUME NEW e \in Events, Instagram!BackoffOver(e)
      PROVE Instagram!NothingSentTwice'
  BY <1>2 DEF Instagram!BackoffOver, Instagram!history, Instagram!counts
<1>3. ASSUME NEW w \in Webhooks, NEW e \in Events, Instagram!Webhook(w, e)
      PROVE Instagram!NothingSentTwice'
  BY <1>3 DEF Instagram!Webhook, Instagram!Starts, Instagram!Idle,
      Instagram!Workers, Instagram!replyVars, Instagram!history
<1>4. CASE Instagram!TickStarts
  BY <1>4 DEF Instagram!TickStarts, Instagram!Resting, Instagram!replyVars,
      Instagram!history, Instagram!counts
<1>5. CASE Instagram!Lists
  BY <1>5 DEF Instagram!Lists, Instagram!Newer, Instagram!replyVars,
      Instagram!history, Instagram!counts
<1>6. ASSUME NEW e \in Events, Instagram!Polls(e) PROVE Instagram!NothingSentTwice'
  BY <1>6 DEF Instagram!Polls, Instagram!Starts, Instagram!Idle, Instagram!Workers,
      Instagram!replyVars, Instagram!history, Instagram!counts
<1>7. CASE Instagram!TickEnds
  BY <1>7 DEF Instagram!TickEnds, Instagram!Advances, Instagram!Resting,
      Instagram!replyVars, Instagram!history, Instagram!counts
<1>8. CASE Instagram!ListFails
  BY <1>8 DEF Instagram!ListFails, Instagram!Failure, Instagram!Resting,
      Instagram!replyVars, Instagram!history, Instagram!counts
<1>9. ASSUME NEW w \in Instagram!Workers, Instagram!Reserve(w)
      PROVE Instagram!NothingSentTwice'
  BY <1>9 DEF Instagram!Reserve, Instagram!Accepts, Instagram!Returns,
      Instagram!GoesTo, Instagram!Idle, Instagram!history, Instagram!counts
<1>10. ASSUME NEW w \in Instagram!Workers, Instagram!ReserveFails(w)
      PROVE Instagram!NothingSentTwice'
  BY <1>10 DEF Instagram!ReserveFails, Instagram!Fault, Instagram!Returns,
      Instagram!Idle, Instagram!replyVars
<1>11. ASSUME NEW w \in Instagram!Workers, Instagram!Blocked(w)
      PROVE Instagram!NothingSentTwice'
  BY <1>11 DEF Instagram!Blocked, Instagram!Returns, Instagram!Idle,
      Instagram!replyVars, Instagram!counts
<1>12. ASSUME NEW w \in Instagram!Workers, Instagram!QuickMatch(w)
      PROVE Instagram!NothingSentTwice'
  BY <1>12 DEF Instagram!QuickMatch, Instagram!Matched, Instagram!Missing,
      Instagram!Returns, Instagram!GoesTo, Instagram!Idle, Instagram!replyVars,
      Instagram!counts
<1>13. ASSUME NEW w \in Instagram!Workers, Instagram!SemanticMatch(w)
      PROVE Instagram!NothingSentTwice'
  BY <1>13 DEF Instagram!SemanticMatch, Instagram!Matched, Instagram!Missing,
      Instagram!Returns, Instagram!GoesTo, Instagram!Idle, Instagram!replyVars,
      Instagram!counts
<1>14. ASSUME NEW w \in Instagram!Workers, Instagram!SendLeg(w)
      PROVE Instagram!NothingSentTwice'
  <2> DEFINE f == worker[w].event
  <2>1. f \in Events /\ worker[w].pc = "legs" /\ Instagram!Holds(w, f)
    BY <1>14 DEF Instagram!SendLeg
  <2>3. f \notin excused => <<f, Instagram!Leg(w)>> \notin sent.once
    BY <1>14, <2>1, NotYetSent, ZenonT(40) DEF Instagram!SendLeg
  <2>4. /\ \/ sent'.again = sent.again
           \/ /\ <<f, Instagram!Leg(w)>> \in sent.once
              /\ sent'.again = sent.again \cup {<<f, Instagram!Leg(w)>>}
        /\ excused \subseteq excused'
    BY <1>14 DEF Instagram!SendLeg, Instagram!Sends, Instagram!Skip,
        Instagram!Failure, Instagram!GoesTo, Instagram!replyVars
  <2> QED BY <2>3, <2>4
<1>15. ASSUME NEW w \in Instagram!Workers, Instagram!RecordLeg(w)
      PROVE Instagram!NothingSentTwice'
  BY <1>15 DEF Instagram!RecordLeg, Instagram!Skip, Instagram!Fault
<1>16. ASSUME NEW w \in Instagram!Workers, Instagram!CloseAttempt(w)
      PROVE Instagram!NothingSentTwice'
  BY <1>16 DEF Instagram!CloseAttempt, Instagram!Returns, Instagram!GoesTo,
      Instagram!Idle, Instagram!counts
<1>17. ASSUME NEW w \in Instagram!Workers, Instagram!Answer(w)
      PROVE Instagram!NothingSentTwice'
  <2> DEFINE f == worker[w].event
  <2>1. f \in Events /\ worker[w].pc = "answer" /\ Instagram!Holds(w, f)
    BY <1>17 DEF Instagram!Answer
  <2>2. f \notin excused => <<f, "answer">> \notin sent.once
    BY <2>1, NotYetSent
  <2>3. /\ \/ sent'.again = sent.again
           \/ /\ <<f, "answer">> \in sent.once
              /\ sent'.again = sent.again \cup {<<f, "answer">>}
        /\ excused \subseteq excused'
    BY <1>17 DEF Instagram!Answer, Instagram!Sends, Instagram!Failure,
        Instagram!GoesTo, Instagram!replyVars
  <2> QED BY <2>2, <2>3
<1>18. ASSUME NEW w \in Instagram!Workers, Instagram!WrapUp(w)
      PROVE Instagram!NothingSentTwice'
  BY <1>18 DEF Instagram!WrapUp, Instagram!Returns, Instagram!Idle,
      Instagram!replyVars, Instagram!counts
<1>19. ASSUME NEW w \in Instagram!Workers, Instagram!Release(w)
      PROVE Instagram!NothingSentTwice'
  BY <1>19 DEF Instagram!Release, Instagram!Released, Instagram!Returns,
      Instagram!Idle, Instagram!history, Instagram!counts
<1>20. ASSUME NEW w \in Instagram!Workers, Instagram!DatabaseError(w)
      PROVE Instagram!NothingSentTwice'
  BY <1>20 DEF Instagram!DatabaseError, Instagram!Fault, Instagram!Returns,
      Instagram!GoesTo, Instagram!Idle, Instagram!replyVars
<1>21. CASE Instagram!Crash
  BY <1>21 DEF Instagram!Crash, Instagram!Fault, Instagram!Idle, Instagram!Resting,
      Instagram!replyVars
<1>22. CASE UNCHANGED Instagram!vars
  BY <1>22 DEF Instagram!vars, Instagram!replyVars, Instagram!history,
      Instagram!counts
<1> QED BY <1>1, <1>2, <1>3, <1>4, <1>5, <1>6, <1>7, <1>8, <1>9, <1>10,
           <1>11, <1>12, <1>13, <1>14, <1>15, <1>16, <1>17, <1>18, <1>19,
           <1>20, <1>21, <1>22
        DEF Instagram!Next, Instagram!Tick, Instagram!Handle

-----------------------------------------------------------------------------
\* Nothing is posted in the beginning.
LEMMA CommentsInit == ASSUME Instagram!InstagramDeliveryAssumption,
Instagram!Init PROVE CommentsInv
<1>1. Instagram!TypeOK
  BY DEF Instagram!InstagramDeliveryAssumption, Instagram!Init, Instagram!TypeOK,
      Instagram!WorkerState, Instagram!Workers, Instagram!Idle,
         Instagram!Resting
<1>2. AtWork /\ Locked /\ CursorBehind /\ Attempts
  BY DEF Instagram!InstagramDeliveryAssumption, Instagram!Init, AtWork, Locked,
      Instagram!Holds, CursorBehind,
         Attempts, Instagram!Workers, Instagram!Idle, Instagram!Resting
<1>3. SentIsKnown /\ Instagram!NothingSentTwice
  BY DEF Instagram!Init, SentIsKnown, Known, Instagram!Holds,
      Instagram!NothingSentTwice, Instagram!Workers, Instagram!Idle
<1> QED BY <1>1, <1>2, <1>3 DEF CommentsInv

\* Every step keeps the invariant.
LEMMA CommentsStep ==
  ASSUME Instagram!InstagramDeliveryAssumption, CommentsInv,
    [Instagram!Next]_(Instagram!vars) PROVE CommentsInv'
BY TypeStep, AtWorkStep, LockedStep, CursorStep, AttemptsStep, KnownStep, TwiceStep
DEF CommentsInv

\* What the invariant promises.
LEMMA CommentsPromise ==
  ASSUME CommentsInv
  PROVE  /\ Instagram!TypeOK /\ Instagram!NothingSentTwice
         /\ Instagram!ExclusivelyHandled /\ Instagram!CursorLosesNone
<1>1. Instagram!ExclusivelyHandled
  BY DEF CommentsInv, Locked, Instagram!ExclusivelyHandled
<1>2. Instagram!CursorLosesNone
  BY DEF CommentsInv, Instagram!TypeOK, CursorBehind, EventSettled,
      Instagram!CursorLosesNone
<1> QED BY <1>1, <1>2 DEF CommentsInv

\* The inductive invariant of the deliveries: handlers and their receipts, the
\* cursor, the attempts and what was sent of each event.
THEOREM CommentsInvariant ==
  ASSUME Instagram!InstagramDeliveryAssumption PROVE Instagram!Spec => []CommentsInv
<1>1. Instagram!Init => CommentsInv
  BY CommentsInit
<1>2. CommentsInv /\ [Instagram!Next]_(Instagram!vars) => CommentsInv'
  BY CommentsStep
<1> QED BY <1>1, <1>2, PTL DEF Instagram!Spec

\* A step of the agents is a step of the comments or leaves them alone, ...
LEMMA StepOfComments == [MCNext]_parts => [Instagram!Next]_(Instagram!vars)
<1>1. ASSUME UNCHANGED instagram PROVE UNCHANGED Instagram!vars
  BY <1>1 DEF instagram, Instagram!vars, Instagram!replyVars, Instagram!history,
     Instagram!counts
<1>2. CASE OfComments(Instagram!Next)
  BY <1>2 DEF OfComments
<1>3. CASE OfChat(Next) \/ OfInbox(WhatsApp!Next) \/ UNCHANGED parts
  BY <1>1, <1>3 DEF OfChat, OfInbox, parts
<1> QED BY <1>2, <1>3 DEF MCNext

\* ... and so it is with the chat.
LEMMA StepOfChat == [MCNext]_parts => [Next]_vars
<1>1. CASE OfChat(Next)
  BY <1>1 DEF OfChat
<1>2. CASE \/ OfComments(Instagram!Next) \/ OfInbox(WhatsApp!Next)
           \/ UNCHANGED parts
  BY <1>2 DEF OfComments, OfInbox, parts
<1> QED BY <1>1, <1>2 DEF MCNext

\* While the agents run side by side, the comments of an account are answered
\* by one handler at a time and none twice, and the poll cursor passes none
\* that is to be retried (instagram-sales-agent.service.ts).
THEOREM CommentsAreKept == MCSpec => []CommentsKept
<1>1. MCInit => Instagram!Init
  BY DEF MCInit
<1>2. Instagram!Spec => []CommentsInv
  BY CommentsAssumption, CommentsInvariant
<1>3. CommentsInv => CommentsKept
  BY CommentsPromise DEF CommentsKept
<1> QED BY <1>1, <1>2, <1>3, StepOfComments, PTL DEF MCSpec, Instagram!Spec

\* While the agents run side by side, the chats keep what they keep alone.
THEOREM ChatIsKeptAmongAgents == MCSpec => []TurnsKept
<1>1. MCInit => Init
  BY DEF MCInit
<1> QED BY <1>1, StepOfChat, ChatIsKept, PTL DEF MCSpec, Spec
-----------------------------------------------------------------------------
(* A WhatsApp number.  Before a message that is being answered every one   *)
(* has ended, so one turn of the customer runs at a time, and what it read *)
(* of the session is what the session still holds when it saves.           *)

Notices == {"", "limit", "apology", "tooLong"}
RowType == [there : {TRUE}, number : Numbers, token : 1..MaxTokens,
            status : {"CONNECTED", "DEGRADED", "ERROR"}, subscribed : BOOLEAN,
            fresh : BOOLEAN, enabled : BOOLEAN, voice : BOOLEAN]
LinkType == [pc : {"hook", "save"}, number : Numbers, token : 1..MaxTokens,
             good : BOOLEAN]
TestType == [pc : {"hook", "write", "note"}, conn : RowType, new : RowType]
TurnType == [pc : {"new", "queued", "ignored", "media", "think", "answer",
                   "tell", "done"},
             state : SUBSET Inbound, word : Notices,
             replies : SUBSET (Notices \cup {"answer"}), excused : BOOLEAN]

LinkTyped ==
  /\ row = WhatsApp!NoRow \/ row \in RowType
  /\ hooked \subseteq Numbers /\ dead \subseteq 1..MaxTokens
  /\ linking = WhatsApp!NoLink \/ linking \in LinkType
  /\ tester \in [Testers -> TestType \cup {WhatsApp!NoTest}]
TurnsTyped == turn \in [Inbound -> TurnType] /\ known \subseteq Inbound
LeftTyped == left \in [WhatsApp!Kinds -> Nat] /\ left["links"] <= MaxTokens

Chained ==
  \A m, before \in Inbound : before < m =>
    /\ turn[m].pc # "new" => turn[before].pc # "new"
    /\ WhatsApp!Underway(m) => turn[before].pc \in {"ignored", "done"}

\* What a turn read is still so, and what it will answer it has saved.
Remembered ==
  \A m \in Inbound :
    /\ turn[m].pc \in {"media", "think"} => turn[m].state = known
    /\ turn[m].pc = "answer" \/ "answer" \in turn[m].replies => m \in known

InboxInv == /\ LinkTyped /\ TurnsTyped /\ LeftTyped
            /\ Chained /\ Remembered /\ WhatsApp!SilenceExplained

LEMMA Blanks ==
  /\ WhatsApp!NoRow' = WhatsApp!NoRow /\ WhatsApp!NoLink' = WhatsApp!NoLink
  /\ WhatsApp!NoTest' = WhatsApp!NoTest
BY DEF WhatsApp!NoRow, WhatsApp!NoLink, WhatsApp!NoTest

LEMMA InboxInit == WhatsApp!Init => InboxInv
<1> SUFFICES ASSUME WhatsApp!Init PROVE InboxInv
  OBVIOUS
<1> USE InboxAssumption DEF WhatsApp!WhatsAppAssumption, WhatsApp!Init
<1>1. LinkTyped
  BY DEF LinkTyped
<1>2. WhatsApp!NewTurn \in TurnType /\ WhatsApp!NewTurn.pc = "new"
      /\ WhatsApp!NewTurn.replies = {}
  BY DEF WhatsApp!NewTurn, TurnType, Notices
<1>3. TurnsTyped
  BY <1>2 DEF TurnsTyped
<1>4. LeftTyped
  BY DEF LeftTyped
<1>5. Chained /\ Remembered /\ WhatsApp!SilenceExplained
  BY <1>2 DEF Chained, WhatsApp!Underway, Remembered, WhatsApp!SilenceExplained
<1> QED BY <1>1, <1>3, <1>4, <1>5 DEF InboxInv

LEMMA Spent ==
  ASSUME LeftTyped, NEW kind \in WhatsApp!Kinds, WhatsApp!Spend(kind)
  PROVE  /\ LeftTyped' /\ left["links"] \in 0..MaxTokens
         /\ kind = "links" => left["links"] # 0
BY InboxAssumption DEF WhatsApp!WhatsAppAssumption, LeftTyped, WhatsApp!Spend,
   WhatsApp!Kinds

\* Linking, and what the user and Meta do, leave the turns as they are.
LinkSteps ==
  \/ \E n \in Numbers : WhatsApp!Connect(n) \/ WhatsApp!Unhooks(n)
  \/ WhatsApp!ConnectFails \/ WhatsApp!Hook \/ WhatsApp!HookFails
  \/ WhatsApp!SaveConnection \/ WhatsApp!UpdateSettings \/ WhatsApp!Disconnect
  \/ WhatsApp!Ages \/ WhatsApp!Dies

LEMMA LinkStep ==
  ASSUME InboxInv, LinkSteps
  PROVE  LinkTyped' /\ LeftTyped' /\ UNCHANGED <<turn, known>>
<1> USE InboxAssumption DEF WhatsApp!WhatsAppAssumption, InboxInv
<1>1. LeftTyped' /\ UNCHANGED <<turn, known>>
  BY Spent DEF LinkSteps, WhatsApp!Connect, WhatsApp!Unhooks, WhatsApp!ConnectFails,
     WhatsApp!Hook, WhatsApp!HookFails, WhatsApp!SaveConnection,
     WhatsApp!UpdateSettings, WhatsApp!Disconnect, WhatsApp!Ages, WhatsApp!Dies,
     LeftTyped, WhatsApp!Kinds
<1> SUFFICES LinkTyped'
  BY <1>1
<1>2. CASE \E n \in Numbers : WhatsApp!Connect(n)
  <2>1. PICK n \in Numbers :
          /\ linking' = [pc |-> "hook", number |-> n,
                         token |-> MaxTokens - left["links"] + 1, good |-> TRUE]
          /\ WhatsApp!Spend("links") /\ UNCHANGED <<row, dead, hooked, tester>>
    BY <1>2, Zenon DEF WhatsApp!Connect, WhatsApp!Tokens
  <2>2. left["links"] \in 1..MaxTokens
    BY <2>1, Spent DEF WhatsApp!Kinds
  <2>3. linking' \in LinkType
    BY <2>1, <2>2 DEF LinkType
  <2> QED BY <2>1, <2>3, Blanks DEF LinkTyped
<1>3. CASE \E n \in Numbers : WhatsApp!Unhooks(n)
  BY <1>3, Blanks DEF WhatsApp!Unhooks, LinkTyped
<1>4. CASE WhatsApp!ConnectFails \/ WhatsApp!Hook \/ WhatsApp!HookFails
  <2>1. linking \in LinkType
    BY <1>4 DEF LinkTyped, WhatsApp!NoLink, WhatsApp!ConnectFails, WhatsApp!Hook,
       WhatsApp!HookFails
  <2>2. /\ linking' = WhatsApp!NoLink \/ linking' \in LinkType
        /\ hooked' \subseteq Numbers /\ UNCHANGED <<row, dead, tester>>
    BY <1>4, <2>1 DEF LinkTyped, LinkType, WhatsApp!ConnectFails, WhatsApp!Hook,
       WhatsApp!HookFails
  <2> QED BY <2>2, Blanks DEF LinkTyped
<1>5. CASE WhatsApp!SaveConnection
  <2>1. linking \in LinkType
    BY <1>5 DEF LinkTyped, WhatsApp!NoLink, WhatsApp!SaveConnection
  <2>2. row' \in RowType
    <3>1. (row.there => row.voice) \in BOOLEAN
      OBVIOUS
    <3> QED BY <1>5, <2>1, <3>1 DEF WhatsApp!SaveConnection, WhatsApp!StatusOf,
              LinkType, RowType
  <2> QED BY <1>5, <2>2, Blanks DEF LinkTyped, WhatsApp!SaveConnection
<1>6. CASE WhatsApp!UpdateSettings \/ WhatsApp!Disconnect \/ WhatsApp!Ages
  <2>1. row \in RowType /\ UNCHANGED <<hooked, dead, linking, tester>>
    BY <1>6 DEF LinkTyped, WhatsApp!NoRow, WhatsApp!UpdateSettings,
       WhatsApp!Disconnect, WhatsApp!Ages
  <2>2. row' = WhatsApp!NoRow \/ row' \in RowType
    BY <1>6, <2>1 DEF RowType, WhatsApp!UpdateSettings, WhatsApp!Disconnect,
       WhatsApp!Ages
  <2> QED BY <2>1, <2>2, Blanks DEF LinkTyped
<1>7. CASE WhatsApp!Dies
  <2>1. row \in RowType
    BY <1>7 DEF LinkTyped, WhatsApp!NoRow, WhatsApp!Dies
  <2> QED BY <1>7, <2>1, Blanks DEF LinkTyped, RowType, WhatsApp!Dies
<1> QED BY <1>1, <1>2, <1>3, <1>4, <1>5, <1>6, <1>7 DEF LinkSteps

\* A test writes into the row as it is by then, and the turns rest.
LEMMA TestStep ==
  ASSUME InboxInv, NEW t \in Testers, WhatsApp!Testing(t)
  PROVE  LinkTyped' /\ LeftTyped' /\ UNCHANGED <<turn, known>>
<1> USE InboxAssumption DEF WhatsApp!WhatsAppAssumption, InboxInv
<1>1. LeftTyped' /\ UNCHANGED <<turn, known>>
  BY Spent DEF WhatsApp!Testing, WhatsApp!StartTest, WhatsApp!Wanted,
     WhatsApp!TestRefused, WhatsApp!TestUnavailable, WhatsApp!TestHooks,
     WhatsApp!TestHookFails, WhatsApp!WriteTest, WhatsApp!NoteFailure,
     LeftTyped, WhatsApp!Kinds
<1> SUFFICES LinkTyped'
  BY <1>1
<1>2. UNCHANGED <<dead, linking>>
  BY DEF WhatsApp!Testing, WhatsApp!StartTest,
     WhatsApp!TestRefused, WhatsApp!TestUnavailable, WhatsApp!TestHooks,
     WhatsApp!TestHookFails, WhatsApp!WriteTest, WhatsApp!NoteFailure
<1>3. CASE WhatsApp!StartTest(t)
  <2>1. row \in RowType
    BY <1>3 DEF WhatsApp!StartTest, WhatsApp!Wanted, WhatsApp!Stale, WhatsApp!Active,
       LinkTyped, WhatsApp!NoRow
  <2>2. [pc |-> "hook", conn |-> row, new |-> row] \in TestType
    BY <2>1 DEF TestType
  <2> QED BY <1>2, <1>3, <2>2, Blanks DEF WhatsApp!StartTest, WhatsApp!SetT, LinkTyped
<1>4. CASE \/ WhatsApp!TestRefused(t) \/ WhatsApp!TestUnavailable(t)
           \/ WhatsApp!TestHooks(t) \/ WhatsApp!TestHookFails(t)
  <2>1. tester[t] \in TestType /\ UNCHANGED row
    BY <1>4 DEF LinkTyped, WhatsApp!NoTest, WhatsApp!TestRefused,
       WhatsApp!TestUnavailable, WhatsApp!TestHooks, WhatsApp!TestHookFails
  <2>2. ASSUME NEW pc \in {"write", "note"},
               NEW s \in {"CONNECTED", "DEGRADED", "ERROR"}
        PROVE  /\ WhatsApp!Result(t, pc, s) \in TestType
               /\ \A b \in BOOLEAN :
                    [WhatsApp!Result(t, pc, s) EXCEPT !.new.subscribed = b] \in TestType
    BY <2>1 DEF WhatsApp!Result, TestType, RowType
  <2>3. tester' \in [Testers -> TestType \cup {WhatsApp!NoTest}]
    <3>1. PICK q \in TestType : tester' = [tester EXCEPT ![t] = q]
      BY <1>4, <2>2 DEF WhatsApp!TestRefused,
         WhatsApp!TestUnavailable, WhatsApp!TestHooks, WhatsApp!TestHookFails,
         WhatsApp!SetT
    <3> QED BY <3>1 DEF LinkTyped
  <2>4. hooked' \subseteq Numbers
    BY <1>4, <2>1 DEF LinkTyped, TestType, RowType, WhatsApp!TestRefused,
       WhatsApp!TestUnavailable, WhatsApp!TestHooks, WhatsApp!TestHookFails,
       WhatsApp!Subscribed
  <2> QED BY <1>2, <2>1, <2>3, <2>4, Blanks DEF LinkTyped
<1>5. CASE WhatsApp!WriteTest(t) \/ WhatsApp!NoteFailure(t)
  <2>1. tester[t] \in TestType /\ UNCHANGED hooked
    BY <1>5 DEF LinkTyped, WhatsApp!NoTest, WhatsApp!WriteTest, WhatsApp!NoteFailure
  <2>2. row' = WhatsApp!NoRow \/ row' \in RowType
    <3>1. CASE row.there
      <4>1. row \in RowType
        BY <3>1 DEF LinkTyped, WhatsApp!NoRow
      <4>2. PICK s \in {"CONNECTED", "DEGRADED", "ERROR"}, b \in BOOLEAN :
              s = tester[t].new.status /\ b = tester[t].new.subscribed
        BY <2>1 DEF TestType, RowType
      <4>3. \/ row' = [row EXCEPT !.status = s, !.subscribed = b, !.fresh = TRUE]
            \/ row' = [row EXCEPT !.status = s]
        BY <1>5, <3>1, <4>2, Zenon DEF WhatsApp!WriteTest, WhatsApp!NoteFailure
      <4>4. row' \in RowType
        BY <4>1, <4>3 DEF RowType
      <4> QED BY <4>4
    <3>2. CASE ~row.there
      BY <1>5, <3>2 DEF LinkTyped, WhatsApp!WriteTest, WhatsApp!NoteFailure, RowType
    <3> QED BY <3>1, <3>2
  <2>3. tester' \in [Testers -> TestType \cup {WhatsApp!NoTest}]
    BY <1>5 DEF LinkTyped, WhatsApp!WriteTest, WhatsApp!NoteFailure, WhatsApp!SetT
  <2> QED BY <1>2, <2>1, <2>2, <2>3, Blanks DEF LinkTyped
<1> QED BY <1>1, <1>3, <1>4, <1>5 DEF WhatsApp!Testing

\* A message goes from one stand to the next: what it may come from and to.
Goes(m, new, after) ==
  /\ new \in TurnType /\ WhatsApp!SetM(m, new) /\ known' = after
  /\ turn[m].pc # "new" => new.pc # "new"
  /\ new.pc \in {"media", "think", "answer", "tell"} =>
       \A before \in Inbound : before < m => turn[before].pc \in {"ignored", "done"}
  /\ new.pc \in {"media", "think"} => new.state = known /\ after = known
  /\ known \subseteq after /\ after \subseteq Inbound
  /\ known # after => WhatsApp!Underway(m)
  /\ new.pc = "answer" \/ "answer" \in new.replies => m \in after
  /\ new.pc = "done" /\ new.replies = {} => new.excused
  /\ turn[m].pc = "new" => \A before \in Inbound : before < m => turn[before].pc # "new"
  /\ turn[m].pc \in {"ignored", "done"} => new.pc \in {"ignored", "done"}

Proceeds(m) == \E new, after : Goes(m, new, after)

LEMMA TurnGoes ==
  ASSUME InboxInv, NEW m \in Inbound, NEW new, NEW after, Goes(m, new, after)
  PROVE  TurnsTyped' /\ Chained' /\ Remembered' /\ WhatsApp!SilenceExplained'
<1> USE InboxAssumption DEF WhatsApp!WhatsAppAssumption, InboxInv
<1>1. /\ turn' \in [Inbound -> TurnType] /\ turn'[m] = new
      /\ \A o \in Inbound \ {m} : turn'[o] = turn[o]
  BY DEF Goes, WhatsApp!SetM, TurnsTyped
<1>2. TurnsTyped'
  BY <1>1 DEF Goes, TurnsTyped
<1>3. Chained'
  <2> SUFFICES ASSUME NEW a \in Inbound, NEW b \in Inbound, b < a
               PROVE  /\ turn'[a].pc # "new" => turn'[b].pc # "new"
                      /\ WhatsApp!Underway(a)' => turn'[b].pc \in {"ignored", "done"}
    BY DEF Chained
  <2>1. b # a
    BY DEF WhatsApp!WhatsAppAssumption
  <2> QED BY <1>1, <2>1 DEF Chained, WhatsApp!Underway, Goes
<1>4. ASSUME NEW o \in Inbound \ {m}, turn[o].pc \in {"media", "think"},
             known # known'
      PROVE  FALSE
  <2>1. WhatsApp!Underway(m) /\ WhatsApp!Underway(o) /\ (o < m \/ m < o)
    BY <1>4 DEF Goes, WhatsApp!Underway
  <2> QED BY <2>1 DEF Chained, WhatsApp!Underway
<1>5. Remembered'
  BY <1>1, <1>4 DEF Remembered, Goes
<1>6. WhatsApp!SilenceExplained'
  BY <1>1 DEF WhatsApp!SilenceExplained, Goes
<1> QED BY <1>2, <1>3, <1>5, <1>6

\* A turn that runs, or is about to, is where it may run.
LEMMA Runs ==
  ASSUME InboxInv, NEW m \in Inbound, WhatsApp!Underway(m) \/ WhatsApp!MayRun(m)
  PROVE  /\ turn[m] \in TurnType /\ turn[m].pc \notin {"new", "ignored", "done"}
         /\ \A before \in Inbound : before < m =>
              turn[before].pc \in {"ignored", "done"}
BY DEF InboxInv, Chained, TurnsTyped, WhatsApp!Underway, WhatsApp!MayRun, WhatsApp!Ended

LEMMA Tells ==
  ASSUME InboxInv, NEW m \in Inbound, NEW what \in Notices,
         turn[m].pc \in {"media", "think", "answer"} \/ WhatsApp!MayRun(m),
         WhatsApp!Tells(m, what), known' = known
  PROVE  Proceeds(m)
<1> DEFINE new == [turn[m] EXCEPT !.pc = "tell", !.word = what]
<1>1. /\ turn[m] \in TurnType /\ turn[m].pc \notin {"new", "ignored", "done"}
      /\ \A before \in Inbound : before < m =>
           turn[before].pc \in {"ignored", "done"}
  BY Runs DEF WhatsApp!Underway
<1>2. /\ new \in TurnType /\ new.pc = "tell" /\ new.replies = turn[m].replies
  BY <1>1 DEF TurnType
<1>3. WhatsApp!SetM(m, new)
  BY DEF WhatsApp!Tells
<1> HIDE DEF new
<1>4. known \subseteq Inbound /\ ("answer" \in turn[m].replies => m \in known)
  BY DEF InboxInv, TurnsTyped, Remembered
<1>5. Goes(m, new, known)
  BY <1>1, <1>2, <1>3, <1>4 DEF Goes
<1> QED BY <1>5 DEF Proceeds

LEMMA Excuses ==
  ASSUME InboxInv, NEW m \in Inbound, WhatsApp!Underway(m) \/ WhatsApp!MayRun(m),
         WhatsApp!SetM(m, WhatsApp!Excused(m)), known' = known
  PROVE  Proceeds(m)
<1> DEFINE new == WhatsApp!Excused(m)
<1>1. turn[m] \in TurnType /\ turn[m].pc \notin {"new", "ignored", "done"}
  BY Runs
<1>2. /\ new \in TurnType /\ new.pc = "done" /\ new.replies = turn[m].replies
      /\ new.excused
  BY <1>1 DEF TurnType, WhatsApp!Excused, WhatsApp!Done
<1> HIDE DEF new
<1>3. known \subseteq Inbound /\ ("answer" \in turn[m].replies => m \in known)
  BY DEF InboxInv, TurnsTyped, Remembered
<1>4. Goes(m, new, known)
  BY <1>1, <1>2, <1>3 DEF Goes, new
<1> QED BY <1>4 DEF Proceeds

LEMMA IsTold ==
  ASSUME InboxInv, NEW m \in Inbound, WhatsApp!Underway(m),
         NEW what \in Notices \cup {"answer"},
         what = "answer" => m \in known,
         WhatsApp!SetM(m, WhatsApp!Told(m, what)), known' = known
  PROVE  Proceeds(m)
<1> DEFINE new == WhatsApp!Told(m, what)
<1>1. turn[m] \in TurnType /\ turn[m].pc \notin {"new", "ignored", "done"}
  BY Runs
<1>2. /\ new \in TurnType /\ new.pc = "done"
      /\ new.replies = turn[m].replies \cup {what}
  BY <1>1 DEF TurnType, WhatsApp!Told, WhatsApp!Done
<1> HIDE DEF new
<1>3. known \subseteq Inbound /\ ("answer" \in turn[m].replies => m \in known)
  BY DEF InboxInv, TurnsTyped, Remembered
<1>4. Goes(m, new, known)
  BY <1>1, <1>2, <1>3 DEF Goes, new
<1> QED BY <1>4 DEF Proceeds

\* Every step of a message is such a going.
LEMMA AnsweringGoes ==
  ASSUME InboxInv, NEW m \in Inbound, WhatsApp!Answering(m)
  PROVE  Proceeds(m)
<1> USE InboxAssumption DEF WhatsApp!WhatsAppAssumption
<1>1. turn[m] \in TurnType /\ known \subseteq Inbound
  BY DEF InboxInv, TurnsTyped
<1>2. "answer" \in turn[m].replies \/ turn[m].pc = "answer" => m \in known
  BY DEF InboxInv, Remembered
<1>3. \A pc \in {"queued", "ignored", "think", "answer"} :
        /\ [turn[m] EXCEPT !.pc = pc] \in TurnType
        /\ [turn[m] EXCEPT !.pc = pc].pc = pc
        /\ [turn[m] EXCEPT !.pc = pc].state = turn[m].state
        /\ [turn[m] EXCEPT !.pc = pc].replies = turn[m].replies
  BY <1>1 DEF TurnType
<1>4. CASE \E n \in Numbers : WhatsApp!Arrives(m, n)
  <2>1. PICK pc \in {"queued", "ignored"} :
          /\ WhatsApp!SetM(m, [turn[m] EXCEPT !.pc = pc]) /\ known' = known
          /\ turn[m].pc = "new"
          /\ \A before \in Inbound : before < m => turn[before].pc # "new"
    BY <1>4 DEF WhatsApp!Arrives
  <2> DEFINE new == [turn[m] EXCEPT !.pc = pc]
  <2>2. /\ new \in TurnType /\ new.pc = pc /\ new.replies = turn[m].replies
        /\ WhatsApp!SetM(m, new)
    BY <1>3, <2>1
  <2> HIDE DEF new
  <2>3. Goes(m, new, known)
    BY <1>1, <1>2, <2>1, <2>2 DEF Goes
  <2> QED BY <2>3 DEF Proceeds
<1>5. CASE WhatsApp!Limited(m)
  BY <1>5, Tells DEF WhatsApp!Limited, Notices
<1>6. CASE WhatsApp!Begin(m)
  <2>1. WhatsApp!MayRun(m) /\ known' = known
    BY <1>6 DEF WhatsApp!Begin
  <2>2. CASE WhatsApp!Silent(m)
    BY <1>6, <2>1, <2>2, Excuses DEF WhatsApp!Begin
  <2>3. CASE ~WhatsApp!Silent(m)
    <3> DEFINE new == [turn[m] EXCEPT !.pc = "media", !.state = known]
    <3>1. /\ new \in TurnType /\ new.pc = "media" /\ new.state = known
          /\ new.replies = turn[m].replies
      BY <1>1 DEF TurnType
    <3>2. WhatsApp!SetM(m, new)
      BY <1>6, <2>3 DEF WhatsApp!Begin
    <3> HIDE DEF new
    <3>3. Goes(m, new, known)
      BY <1>1, <1>2, <2>1, <3>1, <3>2, Runs DEF Goes
    <3> QED BY <3>3 DEF Proceeds
  <2> QED BY <2>2, <2>3
<1>7. CASE \/ WhatsApp!TooLong(m) \/ WhatsApp!ChatFails(m)
           \/ WhatsApp!MediaFails(m) /\ KindOf[m] = "voice"
           \/ WhatsApp!Answer(m) /\ ~WhatsApp!Reaches
  BY <1>7, Tells DEF WhatsApp!TooLong, WhatsApp!ChatFails, WhatsApp!MediaFails,
     WhatsApp!Answer, WhatsApp!Failed, Notices
<1>8. CASE \/ WhatsApp!Understand(m)
           \/ WhatsApp!MediaFails(m) /\ KindOf[m] # "voice"
  <2> DEFINE new == [turn[m] EXCEPT !.pc = "think"]
  <2>1. turn[m].pc = "media" /\ WhatsApp!SetM(m, new) /\ known' = known
    BY <1>8 DEF WhatsApp!Understand, WhatsApp!MediaFails
  <2>2. /\ new \in TurnType /\ new.pc = "think" /\ new.state = turn[m].state
        /\ new.replies = turn[m].replies
    BY <1>3
  <2> HIDE DEF new
  <2>3. turn[m].state = known
    BY <2>1 DEF InboxInv, Remembered
  <2>4. Goes(m, new, known)
    BY <1>1, <1>2, <2>1, <2>2, <2>3, Runs DEF Goes, WhatsApp!Underway
  <2> QED BY <2>4 DEF Proceeds
<1>9. CASE WhatsApp!Chat(m)
  <2> DEFINE new == [turn[m] EXCEPT !.pc = "answer"]
             after == known \cup {m}
  <2>1. /\ turn[m].pc = "think" /\ WhatsApp!SetM(m, new)
        /\ known' = turn[m].state \cup {m}
    BY <1>9 DEF WhatsApp!Chat
  <2>2. /\ new \in TurnType /\ new.pc = "answer" /\ new.replies = turn[m].replies
    BY <1>3
  <2> HIDE DEF new
  <2>3. known' = after
    BY <2>1 DEF InboxInv, Remembered
  <2>4. Goes(m, new, after)
    BY <1>1, <1>2, <2>1, <2>2, <2>3, Runs DEF Goes, WhatsApp!Underway
  <2> QED BY <2>4 DEF Proceeds
<1>10. CASE WhatsApp!Answer(m) /\ WhatsApp!Reaches
  BY <1>2, <1>10, IsTold DEF WhatsApp!Answer, WhatsApp!Underway
<1>11. CASE WhatsApp!AnswerFails(m)
  <2>1. PICK gone \in SUBSET {"answer"} :
          WhatsApp!SetM(m, [turn[m] EXCEPT !.pc = "tell", !.word = "apology",
                                           !.replies = gone])
    BY <1>11 DEF WhatsApp!AnswerFails
  <2>2. turn[m].pc = "answer" /\ known' = known
    BY <1>11 DEF WhatsApp!AnswerFails
  <2> DEFINE new == [turn[m] EXCEPT !.pc = "tell", !.word = "apology",
                                    !.replies = gone]
  <2>3. new \in TurnType /\ new.pc = "tell"
    BY <1>1 DEF TurnType, Notices
  <2>4. WhatsApp!SetM(m, new)
    BY <2>1
  <2> HIDE DEF new
  <2>5. Goes(m, new, known)
    BY <1>1, <1>2, <2>2, <2>3, <2>4, Runs DEF Goes, WhatsApp!Underway
  <2> QED BY <2>5 DEF Proceeds
<1>12. CASE WhatsApp!Tell(m) \/ WhatsApp!TellFails(m)
  <2>1. turn[m].pc = "tell" /\ known' = known /\ turn[m].word \in Notices
    BY <1>1, <1>12 DEF WhatsApp!Tell, WhatsApp!TellFails, TurnType
  <2>2. \/ WhatsApp!SetM(m, WhatsApp!Told(m, turn[m].word))
        \/ WhatsApp!SetM(m, WhatsApp!Excused(m))
    BY <1>12 DEF WhatsApp!Tell, WhatsApp!TellFails
  <2>3. turn[m].word # "answer"
    BY <2>1 DEF Notices
  <2> QED BY <2>1, <2>2, <2>3, Excuses, IsTold DEF WhatsApp!Underway
<1>13. CASE WhatsApp!MediaFails(m) \/ WhatsApp!Answer(m)
  BY <1>7, <1>8, <1>10, <1>13
<1> QED BY <1>4, <1>5, <1>6, <1>7, <1>8, <1>9, <1>11, <1>12, <1>13
        DEF WhatsApp!Answering

LEMMA InboxStep == ASSUME InboxInv, [WhatsApp!Next]_(WhatsApp!vars) PROVE InboxInv'
<1>1. CASE LinkSteps \/ \E t \in Testers : WhatsApp!Testing(t)
  <2>1. LinkTyped' /\ LeftTyped' /\ UNCHANGED <<turn, known>>
    BY <1>1, LinkStep, TestStep
  <2> QED BY <2>1 DEF InboxInv, TurnsTyped, Chained, WhatsApp!Underway, Remembered,
             WhatsApp!SilenceExplained
<1>2. ASSUME NEW m \in Inbound, WhatsApp!Answering(m) PROVE InboxInv'
  <2>1. UNCHANGED <<row, dead, hooked, linking, tester>> /\ LeftTyped'
    BY <1>2, Spent DEF WhatsApp!Answering, WhatsApp!Arrives, WhatsApp!Limited,
       WhatsApp!Begin, WhatsApp!MediaFails, WhatsApp!TooLong, WhatsApp!Understand,
       WhatsApp!ChatFails, WhatsApp!Chat, WhatsApp!Answer, WhatsApp!AnswerFails,
       WhatsApp!Tell, WhatsApp!TellFails, InboxInv, LeftTyped, WhatsApp!Kinds
  <2>2. LinkTyped'
    BY <2>1, Blanks DEF InboxInv, LinkTyped
  <2>3. PICK new, after : Goes(m, new, after)
    BY <1>2, AnsweringGoes DEF Proceeds
  <2> QED BY <2>1, <2>2, <2>3, TurnGoes DEF InboxInv
<1>3. CASE UNCHANGED WhatsApp!vars
  <2>1. UNCHANGED <<row, dead, hooked, linking, tester, turn, known, left>>
    BY <1>3 DEF WhatsApp!vars
  <2> QED BY <2>1, Blanks DEF InboxInv, LinkTyped, LeftTyped, WhatsApp!Kinds,
             TurnsTyped, Chained, WhatsApp!Underway, Remembered, WhatsApp!SilenceExplained
<1> QED BY <1>1, <1>2, <1>3 DEF WhatsApp!Next, LinkSteps

LEMMA InboxPromised ==
  ASSUME InboxInv
  PROVE  /\ WhatsApp!TypeOK /\ WhatsApp!AnsweredIsRemembered
         /\ WhatsApp!SilenceExplained
<1> USE InboxAssumption DEF WhatsApp!WhatsAppAssumption, InboxInv
<1>1. /\ row.status \in {"none", "CONNECTED", "DEGRADED", "ERROR"}
      /\ row.there <=> row.number \in Numbers
  <2>1. CASE row = WhatsApp!NoRow
    BY <2>1 DEF WhatsApp!NoRow
  <2>2. CASE row \in RowType
    BY <2>2 DEF RowType
  <2> QED BY <2>1, <2>2 DEF LinkTyped
<1>2. ASSUME NEW m \in Inbound, NEW o \in Inbound,
             WhatsApp!Underway(m), WhatsApp!Underway(o)
      PROVE  m = o
  <2>1. m \in Int /\ o \in Int /\ ~(m < o) /\ ~(o < m)
    BY <1>2 DEF Chained, WhatsApp!Underway
  <2> QED BY <2>1
<1>3. hooked \subseteq Numbers /\ dead \subseteq 1..MaxTokens
  BY DEF LinkTyped
<1>4. WhatsApp!TypeOK
  BY <1>1, <1>2, <1>3 DEF WhatsApp!TypeOK, WhatsApp!Underway
<1>5. WhatsApp!AnsweredIsRemembered
  BY DEF Remembered, WhatsApp!AnsweredIsRemembered
<1> QED BY <1>4, <1>5

\* On a WhatsApp number one turn of a customer runs at a time, what was answered
\* is remembered by the session, and whatever ends without a word has a reason,
\* however the number is linked, tested, unhooked and its token lost meanwhile
\* (whatsapp-sales-agent.service.ts).
THEOREM InboxIsKept == MCSpec => []InboxKept
<1>1. MCInit => InboxInv
  BY InboxInit DEF MCInit
<1>2. InboxInv /\ [MCNext]_parts => InboxInv'
  <2>1. ASSUME UNCHANGED whatsapp PROVE UNCHANGED WhatsApp!vars
    BY <2>1 DEF whatsapp, WhatsApp!vars
  <2> QED BY <2>1, InboxStep DEF MCNext, OfChat, OfComments, OfInbox, parts
<1>3. InboxInv => InboxKept
  BY InboxPromised DEF InboxKept
<1> QED BY <1>1, <1>2, <1>3, PTL DEF MCSpec
=============================================================================
