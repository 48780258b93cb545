--------------------------- MODULE EndingsProofs ---------------------------
(***************************************************************************)
(* Proofs about the connections that have to end: the lists of tools read  *)
(* from a Bito server, and a Telegram account with its listener.           *)
(***************************************************************************)
EXTENDS MCEndings, FiniteSetTheorems, TLAPS

-----------------------------------------------------------------------------
(* The lists of a Bito server                                              *)

RequestPcs == {"discover", "initialize", "initialized", "rpc", "close", "done"}
Results == {"none", "ok", "failed"}

RequestFields == {"pc", "page", "seen", "got", "session", "result"}

\* One request: the pages got so far are closed but for the one asked next.
Reading(r, q) ==
  /\ DOMAIN q = RequestFields
  /\ q.pc \in RequestPcs /\ q.session \in {"none", "modern", "plain", "held"}
  /\ q.result \in Results
  /\ IsFiniteSet(q.seen) /\ Cardinality(q.seen) + 1 <= MaxPages
  /\ q.got \subseteq q.seen \cup {Bito!First}
  /\ q.result = "none" =>
       /\ q.page \in q.seen \cup {Bito!First}
       /\ Bito!First \in q.got \cup {q.page}
       /\ \A p \in q.got : server.next[p] \in q.got \cup {q.page}
  /\ q.pc \notin {"close", "done"} => q.result = "none"
  /\ q.result = "ok" /\ r \in Lists =>
       /\ Bito!First \in q.got
       /\ \A p \in q.got : server.next[p] \in q.got \cup {Bito!None}

BitoInv ==
  /\ request = [r \in Requests |-> request[r]]
  /\ \A r \in Requests : Reading(r, request[r])
  /\ open \subseteq Requests /\ lost \subseteq Requests
  /\ faults \in Nat /\ faults <= MaxFaults

LEMMA BitoCountIs == \A S : Bito!Cardinality(S) = Cardinality(S)
BY DEF Bito!Cardinality, Cardinality

LEMMA PagesAre ==
  MaxPages \in Nat \ {0} /\ MaxFaults \in Nat /\ Lists \subseteq Requests
BY BitoAssumption DEF Bito!BitoSessionAssumption

\* A request moves on, and nothing of the list changes.
LEMMA Moved ==
  ASSUME NEW r, NEW q, NEW t, Reading(r, q), DOMAIN t = RequestFields,
         t.pc \in RequestPcs, t.session \in {"none", "modern", "plain", "held"},
         t.page = q.page, t.seen = q.seen, t.got = q.got,
         \/ t.result = q.result /\ (t.pc \in {"close", "done"} \/ q.pc \notin {"close", "done"})
         \/ t.result = "failed" /\ t.pc \in {"close", "done"}
         \/ t.result = "ok" /\ t.pc \in {"close", "done"} /\ r \notin Lists
  PROVE  Reading(r, t)
BY DEF Reading, Results

LEMMA FewPages ==
  ASSUME NEW seen, IsFiniteSet(seen), NEW got, got \subseteq seen \cup {Bito!First},
         Cardinality(seen) + 1 <= MaxPages
  PROVE  Cardinality(got) <= MaxPages
<1> DEFINE all == seen \cup {Bito!First}
<1>1. /\ Cardinality(seen) \in Nat
      /\ IsFiniteSet(all) /\ Cardinality(all) <= Cardinality(seen) + 1
  <2>1. IsFiniteSet(all)
        /\ Cardinality(all) = IF Bito!First \in seen THEN Cardinality(seen)
                              ELSE Cardinality(seen) + 1
    BY FS_AddElement
  <2>2. Cardinality(seen) \in Nat
    BY FS_CardinalityType
  <2> HIDE DEF all
  <2> QED  BY <2>1, <2>2
<1> HIDE DEF all
<1>2. got \in SUBSET all
  BY DEF all
<1>3. IsFiniteSet(got) /\ Cardinality(got) <= Cardinality(all)
  BY <1>1, <1>2, FS_Subset
<1>4. Cardinality(got) \in Nat /\ Cardinality(all) \in Nat
  BY <1>1, <1>3, FS_CardinalityType
<1> QED  BY <1>1, <1>3, <1>4, PagesAre

LEMMA BitoHolds == BitoInv => Bito!TypeOK /\ Bito!ListIsWhole
<1> SUFFICES ASSUME BitoInv PROVE Bito!TypeOK /\ Bito!ListIsWhole
  OBVIOUS
<1>1. \A r \in Requests : Cardinality(request[r].got) <= MaxPages
  BY FewPages DEF BitoInv, Reading
<1>2. Bito!TypeOK
  BY <1>1, PagesAre, BitoCountIs DEF BitoInv, Reading, RequestPcs, Results, Bito!TypeOK
<1>3. Bito!ListIsWhole
  BY PagesAre DEF BitoInv, Reading, Bito!ListIsWhole
<1> QED  BY <1>2, <1>3

LEMMA BitoStarts == Bito!Init => BitoInv
<1> SUFFICES ASSUME Bito!Init PROVE BitoInv
  OBVIOUS
<1> DEFINE q == [pc |-> "discover", page |-> Bito!First, seen |-> {}, got |-> {},
                 session |-> "none", result |-> "none"]
<1>1. request = [r \in Requests |-> q] /\ open = {} /\ lost = {} /\ faults = 0
  BY DEF Bito!Init
<1>2. IsFiniteSet({}) /\ Cardinality({}) = 0
  BY FS_EmptySet
<1>3. /\ DOMAIN q = RequestFields
      /\ q.pc = "discover" /\ q.session = "none" /\ q.result = "none"
      /\ q.page = Bito!First /\ q.seen = {} /\ q.got = {}
  BY DEF RequestFields
<1> HIDE DEF q
<1>4. \A r \in Requests : Reading(r, q)
  BY <1>2, <1>3, PagesAre DEF Reading, RequestPcs, Results
<1>5. request = [r \in Requests |-> request[r]]
  BY <1>1
<1> QED  BY <1>1, <1>4, <1>5, PagesAre DEF BitoInv

\* What the step of one request has to see to.
Onward(r, t) ==
  /\ request' = [request EXCEPT ![r] = t] /\ server' = server
  /\ open' \subseteq Requests /\ lost' \subseteq Requests
  /\ faults' \in Nat /\ faults' <= MaxFaults

LEMMA OnwardWell ==
  ASSUME BitoInv, NEW r \in Requests, NEW t, Reading(r, t), Onward(r, t)
  PROVE  BitoInv'
<1>1. /\ DOMAIN request = Requests
      /\ request' = [request EXCEPT ![r] = t] /\ server' = server
  BY DEF BitoInv, Onward
<1>2. DOMAIN request' = Requests /\ request'[r] = t
      /\ \A s \in Requests : s # r => request'[s] = request[s]
  BY <1>1
<1>3. request' = [s \in Requests |-> request'[s]]
  BY <1>1, <1>2
<1>6. \A s \in Requests : Reading(s, request'[s])
  BY <1>2 DEF BitoInv
<1> QED  BY <1>1, <1>3, <1>6 DEF BitoInv, Onward, Reading

\* A request in its next state, of which the list so far is the same.
Forward(r, t, pc, session, result) ==
  /\ request' = [request EXCEPT ![r] = t] /\ DOMAIN t = RequestFields
  /\ t.pc = pc /\ t.session = session /\ t.result = result
  /\ t.page = request[r].page /\ t.seen = request[r].seen /\ t.got = request[r].got

\* The steps that only bring a request forward or end it, and what they do to
\* the sessions.
LEMMA ForwardWell ==
  ASSUME BitoInv, NEW r \in Requests, NEW t, NEW pc \in RequestPcs,
         NEW session \in {"none", "modern", "plain", "held"}, NEW result \in Results,
         Forward(r, t, pc, session, result), server' = server,
         open' \subseteq Requests, lost' \subseteq Requests,
         faults' \in Nat, faults' <= MaxFaults,
         \/ result = request[r].result
              /\ (pc \in {"close", "done"} \/ request[r].pc \notin {"close", "done"})
         \/ result = "failed" /\ pc \in {"close", "done"}
         \/ result = "ok" /\ pc \in {"close", "done"} /\ r \notin Lists
  PROVE  BitoInv'
<1> DEFINE q == request[r]
<1>1. Reading(r, q)
  BY DEF BitoInv
<1>2. /\ request' = [request EXCEPT ![r] = t] /\ DOMAIN t = RequestFields
      /\ t.pc = pc /\ t.session = session /\ t.result = result
      /\ t.page = q.page /\ t.seen = q.seen /\ t.got = q.got
  BY DEF Forward
<1>3. \/ t.result = q.result
           /\ (t.pc \in {"close", "done"} \/ q.pc \notin {"close", "done"})
      \/ t.result = "failed" /\ t.pc \in {"close", "done"}
      \/ t.result = "ok" /\ t.pc \in {"close", "done"} /\ r \notin Lists
  BY <1>2
<1> HIDE DEF q
<1>4. Reading(r, t)
  BY <1>1, <1>2, <1>3, Moved
<1> QED  BY <1>2, <1>4, OnwardWell DEF Onward

LEMMA OpenedIs ==
  ASSUME BitoInv, NEW r \in Requests, NEW pc, NEW session, Bito!Opened(r, pc, session)
  PROVE  \E t : Forward(r, t, pc, session, request[r].result)
<1> DEFINE q == request[r]
           t == [q EXCEPT !.pc = pc, !.session = session]
<1>1. DOMAIN q = RequestFields /\ request = [s \in Requests |-> request[s]]
  BY DEF BitoInv, Reading
<1>2. request' = [request EXCEPT ![r] = t]
  BY <1>1 DEF Bito!Opened
<1>3. /\ DOMAIN t = RequestFields /\ t.pc = pc /\ t.session = session
      /\ t.result = q.result /\ t.page = q.page /\ t.seen = q.seen /\ t.got = q.got
  BY <1>1 DEF RequestFields
<1> HIDE DEF t
<1> QED  BY <1>2, <1>3 DEF Forward

LEMMA FailedIs ==
  ASSUME BitoInv, NEW r \in Requests, Bito!Failed(r)
  PROVE  \E t : Forward(r, t, "done", request[r].session, "failed")
<1> DEFINE q == request[r]
           t == [q EXCEPT !.pc = "done", !.result = "failed"]
<1>1. DOMAIN q = RequestFields /\ request = [s \in Requests |-> request[s]]
  BY DEF BitoInv, Reading
<1>2. request' = [request EXCEPT ![r] = t]
  BY <1>1 DEF Bito!Failed
<1>3. /\ DOMAIN t = RequestFields /\ t.pc = "done" /\ t.session = q.session
      /\ t.result = "failed" /\ t.page = q.page /\ t.seen = q.seen /\ t.got = q.got
  BY <1>1 DEF RequestFields
<1> HIDE DEF t
<1> QED  BY <1>2, <1>3 DEF Forward

LEMMA FinallyIs ==
  ASSUME BitoInv, NEW r \in Requests, NEW result,
         request' = [request EXCEPT ![r] = Bito!Finally(r, result)]
  PROVE  \E t : Forward(r, t, "close", request[r].session, result)
<1> DEFINE q == request[r]
           t == [q EXCEPT !.pc = "close", !.result = result]
<1>1. DOMAIN q = RequestFields
  BY DEF BitoInv, Reading
<1>2. request' = [request EXCEPT ![r] = t]
  BY DEF Bito!Finally
<1>3. /\ DOMAIN t = RequestFields /\ t.pc = "close" /\ t.session = q.session
      /\ t.result = result /\ t.page = q.page /\ t.seen = q.seen /\ t.got = q.got
  BY <1>1 DEF RequestFields
<1> HIDE DEF t
<1> QED  BY <1>2, <1>3 DEF Forward

LEMMA ClosedIs ==
  ASSUME BitoInv, NEW r \in Requests, request' = [request EXCEPT ![r].pc = "done"]
  PROVE  \E t : Forward(r, t, "done", request[r].session, request[r].result)
<1> DEFINE q == request[r]
           t == [q EXCEPT !.pc = "done"]
<1>1. DOMAIN q = RequestFields /\ request = [s \in Requests |-> request[s]]
  BY DEF BitoInv, Reading
<1>2. request' = [request EXCEPT ![r] = t]
  BY <1>1
<1>3. /\ DOMAIN t = RequestFields /\ t.pc = "done" /\ t.session = q.session
      /\ t.result = q.result /\ t.page = q.page /\ t.seen = q.seen /\ t.got = q.got
  BY <1>1 DEF RequestFields
<1> HIDE DEF t
<1> QED  BY <1>2, <1>3 DEF Forward

LEMMA FaultyIs ==
  BitoInv /\ Bito!Faulty => faults' \in Nat /\ faults' <= MaxFaults
BY PagesAre DEF BitoInv, Bito!Faulty

\* Opening the session, closing it, and the calls of a single tool.
LEMMA ForwardSteps ==
  ASSUME BitoInv, NEW r \in Requests,
         \/ Bito!Discover(r) \/ Bito!DiscoverGarbled(r) \/ Bito!DiscoverFails(r)
         \/ Bito!Initialize(r) \/ Bito!InitializeUnsupported(r) \/ Bito!InitializeLost(r)
         \/ Bito!Initialized(r) \/ Bito!InitializedFails(r)
         \/ Bito!CallTool(r) \/ Bito!Rejected(r) \/ Bito!RpcFails(r)
         \/ Bito!Close(r) \/ Bito!CloseLost(r) \/ Bito!Forgets(r)
  PROVE  BitoInv'
<1> DEFINE q == request[r]
           Rest(pc) == /\ server' = server /\ q.pc = pc
                       /\ open' \subseteq Requests /\ lost' \subseteq Requests
                       /\ faults' \in Nat /\ faults' <= MaxFaults
<1>0. /\ q.pc \in RequestPcs /\ q.session \in {"none", "modern", "plain", "held"}
      /\ q.result \in Results /\ open \subseteq Requests /\ lost \subseteq Requests
      /\ faults \in Nat /\ faults <= MaxFaults
  BY DEF BitoInv, Reading
<1>1. CASE Bito!Discover(r) \/ Bito!DiscoverGarbled(r)
  <2>1. /\ Rest("discover")
        /\ Bito!Opened(r, "rpc", "modern") \/ Bito!Opened(r, "initialize", "none")
    BY <1>0, <1>1, FaultyIs DEF Bito!Discover, Bito!DiscoverGarbled, Bito!At
  <2> QED  BY <1>0, <2>1, OpenedIs, ForwardWell DEF RequestPcs
<1>2. CASE Bito!DiscoverFails(r) \/ Bito!InitializeUnsupported(r) \/ Bito!InitializeLost(r)
           \/ Bito!InitializedFails(r)
  <2>1. /\ Rest("discover") \/ Rest("initialize") \/ Rest("initialized")
        /\ Bito!Failed(r)
    BY <1>0, <1>2, FaultyIs DEF Bito!DiscoverFails, Bito!InitializeUnsupported,
       Bito!InitializeLost, Bito!InitializedFails, Bito!At
  <2> QED  BY <1>0, <2>1, FailedIs, ForwardWell DEF RequestPcs, Results
<1>3. CASE Bito!Initialize(r) \/ Bito!Initialized(r)
  <2>1. \/ Rest("initialize") /\ \/ Bito!Opened(r, "initialized", "held")
                                 \/ Bito!Opened(r, "initialized", "plain")
        \/ Rest("initialized") /\ Bito!Opened(r, "rpc", q.session)
    BY <1>0, <1>3 DEF Bito!Initialize, Bito!Initialized, Bito!At
  <2> QED  BY <1>0, <2>1, OpenedIs, ForwardWell DEF RequestPcs
<1>4. CASE Bito!CallTool(r)
  <2>1. PICK result \in {"ok", "failed"} :
          request' = [request EXCEPT ![r] = Bito!Finally(r, result)]
    BY <1>4 DEF Bito!CallTool
  <2>2. Rest("rpc") /\ r \notin Lists
    BY <1>0, <1>4 DEF Bito!CallTool, Bito!At
  <2> QED  BY <1>0, <2>1, <2>2, FinallyIs, ForwardWell DEF RequestPcs, Results
<1>5. CASE Bito!Rejected(r) \/ Bito!RpcFails(r)
  <2>1. Rest("rpc") /\ request' = [request EXCEPT ![r] = Bito!Finally(r, "failed")]
    BY <1>0, <1>5, FaultyIs DEF Bito!Rejected, Bito!RpcFails, Bito!At
  <2> QED  BY <1>0, <2>1, FinallyIs, ForwardWell DEF RequestPcs, Results
<1>6. CASE Bito!Close(r) \/ Bito!CloseLost(r)
  <2>1. Rest("close") /\ request' = [request EXCEPT ![r].pc = "done"]
    BY <1>0, <1>6, FaultyIs DEF Bito!Close, Bito!CloseLost, Bito!At
  <2> QED  BY <1>0, <2>1, ClosedIs, ForwardWell DEF RequestPcs
<1>7. CASE Bito!Forgets(r)
  <2>1. /\ request' = request /\ server' = server /\ open' \subseteq open /\ lost' = lost
        /\ faults' \in Nat /\ faults' <= MaxFaults
    BY <1>7, FaultyIs DEF Bito!Forgets
  <2> QED  BY <2>1 DEF BitoInv, Reading
<1> QED  BY <1>1, <1>2, <1>3, <1>4, <1>5, <1>6, <1>7

\* A page more: what is got is closed but for the next page, and there are no
\* more pages than cursors, with the first.
LEMMA ListPageStep ==
  ASSUME BitoInv, NEW r \in Requests, Bito!ListPage(r)
  PROVE  BitoInv'
<1> DEFINE q == request[r]
           next == server.next[q.page]
           what == Bito!NextCursor(q.seen, next)
           t == IF what = "more"
                THEN [[q EXCEPT !.got = q.got \cup {q.page}]
                        EXCEPT !.page = next, !.seen = q.seen \cup {next}]
                ELSE [Bito!Finally(r, IF what = "end" THEN "ok" ELSE "failed")
                        EXCEPT !.got = q.got \cup {q.page}]
<1>0. Reading(r, q) /\ DOMAIN q = RequestFields /\ q.pc = "rpc" /\ q.result = "none"
  BY DEF BitoInv, Reading, Bito!ListPage, Bito!At
<1>1. request' = [request EXCEPT ![r] = t]
  <2>1. DOMAIN [q EXCEPT !.got = q.got \cup {q.page}] = RequestFields
        /\ [q EXCEPT !.got = q.got \cup {q.page}].got = q.got \cup {q.page}
        /\ [q EXCEPT !.got = q.got \cup {q.page}].seen = q.seen
    BY <1>0 DEF RequestFields
  <2> QED  BY <2>1 DEF Bito!ListPage, Bito!Extracted
<1>2. /\ DOMAIN t = RequestFields /\ t.got = q.got \cup {q.page} /\ t.session = q.session
      /\ IF what = "more"
         THEN t.pc = "rpc" /\ t.result = "none" /\ t.page = next
              /\ t.seen = q.seen \cup {next}
         ELSE /\ t.pc = "close" /\ t.seen = q.seen
              /\ t.result = IF what = "end" THEN "ok" ELSE "failed"
  <2>1. CASE what = "more"
    BY <1>0, <2>1 DEF RequestFields
  <2>2. CASE what # "more"
    BY <1>0, <2>2 DEF RequestFields, Bito!Finally
  <2> QED  BY <2>1, <2>2
<1>3. /\ what = "end" => next = Bito!None
      /\ what = "more" => next \notin q.seen /\ ~(Cardinality(q.seen) + 1 >= MaxPages)
  <2>1. CASE next = Bito!None
    BY <2>1 DEF Bito!NextCursor
  <2>2. CASE next # Bito!None /\ (next \in q.seen \/ Cardinality(q.seen) + 1 >= MaxPages)
    BY <2>2, BitoCountIs DEF Bito!NextCursor
  <2>3. CASE ~(next = Bito!None) /\ ~(next \in q.seen \/ Cardinality(q.seen) + 1 >= MaxPages)
    BY <2>3, BitoCountIs DEF Bito!NextCursor
  <2> QED  BY <2>1, <2>2, <2>3
<1>4. what = "more" => /\ IsFiniteSet(q.seen \cup {next})
                       /\ Cardinality(q.seen \cup {next}) + 1 <= MaxPages
  <2>1. IsFiniteSet(q.seen) /\ Cardinality(q.seen) \in Nat
    BY <1>0, FS_CardinalityType DEF Reading
  <2>2. IsFiniteSet(q.seen \cup {next})
        /\ (next \notin q.seen =>
              Cardinality(q.seen \cup {next}) = Cardinality(q.seen) + 1)
    BY <2>1, FS_AddElement
  <2> DEFINE n == Cardinality(q.seen)
             m == Cardinality(q.seen \cup {next})
  <2>3. next \notin q.seen /\ ~(n + 1 >= MaxPages) => m + 1 <= MaxPages
    <3> HIDE DEF m, n, next
    <3> QED  BY <2>1, <2>2, PagesAre DEF m, n
  <2> HIDE DEF what, next
  <2> QED  BY <1>3, <2>2, <2>3
<1> HIDE DEF t, what
<1>5. Reading(r, t)
  <2>1. CASE what = "more"
    <3>1. /\ t.got = q.got \cup {q.page} /\ t.page = next /\ t.seen = q.seen \cup {next}
          /\ t.pc = "rpc" /\ t.result = "none" /\ DOMAIN t = RequestFields
          /\ t.session \in {"none", "modern", "plain", "held"}
          /\ IsFiniteSet(t.seen) /\ Cardinality(t.seen) + 1 <= MaxPages
      BY <1>0, <1>2, <1>4, <2>1 DEF Reading
    <3>2. /\ q.got \subseteq q.seen \cup {Bito!First} /\ q.page \in q.seen \cup {Bito!First}
          /\ Bito!First \in q.got \cup {q.page}
          /\ \A p \in q.got : server.next[p] \in q.got \cup {q.page}
      BY <1>0 DEF Reading
    <3>3. /\ t.got \subseteq t.seen \cup {Bito!First} /\ t.page \in t.seen \cup {Bito!First}
          /\ Bito!First \in t.got \cup {t.page}
          /\ \A p \in t.got : server.next[p] \in t.got \cup {t.page}
      BY <3>1, <3>2
    <3> QED  BY <3>1, <3>3 DEF Reading, RequestPcs, Results
  <2>2. CASE what # "more"
    BY <1>0, <1>2, <1>3, <2>2 DEF Reading, RequestPcs, Results
  <2> QED  BY <2>1, <2>2
<1> QED  BY <1>1, <1>5, OnwardWell DEF Onward, BitoInv, Bito!ListPage

LEMMA BitoSteps == BitoInv /\ [Bito!Next]_bito => BitoInv'
<1> SUFFICES ASSUME BitoInv, [Bito!Next]_bito PROVE BitoInv'
  OBVIOUS
<1>1. CASE UNCHANGED bito
  BY <1>1 DEF bito, BitoInv, Reading
<1>2. CASE UNCHANGED Bito!vars
  BY <1>2 DEF Bito!vars, BitoInv, Reading
<1> QED
  BY <1>1, <1>2, ForwardSteps, ListPageStep DEF Bito!Next, Bito!Step

-----------------------------------------------------------------------------
(* The Telegram account                                                    *)

Keyed == Telegram!Keys \cup {Telegram!None}
States == {"none", "open", "password", "authorized", "dead"}
RowType == [made : BOOLEAN, status : Telegram!Statuses, key : Keyed,
            hash : BOOLEAN, by : {"none", "phone", "qr"}, enabled : BOOLEAN,
            version : Nat, late : BOOLEAN]
LoginType == [pc : {"idle", "call", "store"}, op : Telegram!Ops \cup {"none"},
              key : Keyed, version : Nat,
              result : {"none", "sent", "connected", "password", "pending", "newCode",
                        "error", "expired", "startOver", "refused", "done", "invalid"}]

\* What a request may go by when it comes to write: its key, that Telegram
\* took it, and, as long as nobody has written the row, the row it has read.
RequestWell(q, r, t) ==
  /\ q.pc = "idle" => q = Telegram!Idle
  /\ q.pc # "idle" =>
       /\ q.version <= r.version
       /\ q.op \in {"qrStatus", "resend", "code", "password", "use"} =>
            q.key \in Telegram!Keys
       /\ q.pc = "store" /\ q.result = "sent" /\ q.op \in {"connect", "qr", "restart"} =>
            q.key \in Telegram!Keys
       /\ q.pc = "store" /\ q.result = "connected" =>
            q.key \in Telegram!Keys /\ t[q.key] \in {"authorized", "dead"}
       /\ q.op \in {"qrStatus", "resend"} /\ q.version = r.version => q.key = r.key
       /\ q.op = "resend" /\ q.version = r.version =>
            r.status = "AWAITING_CODE" /\ r.hash

Coherent(r, t) ==
  \/ r.late
  \/ /\ r.status = "CONNECTED" =>
          /\ r.key \in Telegram!Keys /\ ~r.hash
          /\ t[r.key] \in {"authorized", "dead"}
     /\ r.status = "DISCONNECTED" => r.key = Telegram!None /\ ~r.hash
     /\ r.status = "AWAITING_CODE" =>
          r.key \in Telegram!Keys /\ (r.by = "phone" <=> r.hash)

AccountInv ==
  /\ row \in RowType /\ tg \in [Telegram!Keys -> States]
  /\ login \in [Sockets -> LoginType]
  /\ Coherent(row, tg)
  /\ \A w \in Sockets : RequestWell(login[w], row, tg)

LEMMA KeysAre == MaxKeys \in Nat /\ Telegram!None \notin Telegram!Keys
BY TelegramAssumption
   DEF Telegram!TelegramAccountAssumption, Telegram!Keys, Telegram!None

\* A request goes on; the row is as it was, and no key that Telegram took is
\* one it never took.
LEMMA RequestGoesOn ==
  ASSUME AccountInv, NEW w \in Sockets, NEW q \in LoginType,
         login' = [login EXCEPT ![w] = q], row' = row,
         tg' \in [Telegram!Keys -> States],
         \A k \in Telegram!Keys : tg[k] \in {"authorized", "dead"} =>
                                    tg'[k] \in {"authorized", "dead"},
         RequestWell(q, row, tg')
  PROVE  AccountInv'
<1>1. login' \in [Sockets -> LoginType]
  BY DEF AccountInv
<1>2. Coherent(row', tg')
  BY DEF AccountInv, Coherent
<1>3. ASSUME NEW v \in Sockets PROVE RequestWell(login'[v], row', tg')
  <2>1. CASE v = w
    BY <2>1 DEF AccountInv
  <2>2. CASE v # w
    <3>1. login'[v] = login[v] /\ RequestWell(login[v], row, tg)
      BY <2>2 DEF AccountInv
    <3> QED  BY <3>1 DEF RequestWell
  <2> QED  BY <2>1, <2>2
<1>4. row' \in RowType
  BY DEF AccountInv
<1> QED  BY <1>1, <1>2, <1>3, <1>4 DEF AccountInv

\* A request has written the row, which is newer than what the others read.
LEMMA RequestWrites ==
  ASSUME AccountInv, NEW w \in Sockets, NEW r \in RowType, NEW q \in LoginType,
         login' = [login EXCEPT ![w] = q], row' = r, tg' = tg,
         r.version = row.version + 1, Coherent(r, tg), RequestWell(q, r, tg)
  PROVE  AccountInv'
<1>1. login' \in [Sockets -> LoginType]
  BY DEF AccountInv
<1>2. ASSUME NEW v \in Sockets PROVE RequestWell(login'[v], row', tg')
  <2>1. CASE v = w
    BY <2>1 DEF AccountInv
  <2>2. CASE v # w
    <3>1. /\ login'[v] = login[v] /\ RequestWell(login[v], row, tg)
          /\ login[v].version \in Nat /\ row.version \in Nat
      BY <2>2 DEF AccountInv, LoginType, RowType
    <3>2. login[v].version <= row.version =>
            login[v].version <= r.version /\ login[v].version # r.version
      BY <3>1
    <3> QED  BY <3>1, <3>2 DEF RequestWell
  <2> QED  BY <2>1, <2>2
<1> QED  BY <1>1, <1>2 DEF AccountInv

LEMMA IdleIs == Telegram!Idle \in LoginType
  /\ \A r, t : RequestWell(Telegram!Idle, r, t)
BY DEF Telegram!Idle, LoginType, Keyed, RequestWell

LEMMA AccountStarts == Telegram!Init => AccountInv
<1> SUFFICES ASSUME Telegram!Init PROVE AccountInv
  OBVIOUS
<1>1. /\ row = Telegram!NoRow /\ tg = [k \in Telegram!Keys |-> "none"]
      /\ login = [w \in Sockets |-> Telegram!Idle]
  BY DEF Telegram!Init
<1>2. Telegram!NoRow \in RowType /\ Coherent(Telegram!NoRow, tg)
  BY DEF Telegram!NoRow, RowType, Keyed, Telegram!Statuses, Coherent
<1> QED  BY <1>1, <1>2, IdleIs DEF AccountInv, States

-----------------------------------------------------------------------------
(* Requests that read the row and call Telegram                            *)

LEMMA BeginStep ==
  ASSUME AccountInv, NEW w \in Sockets, NEW op \in Telegram!Ops,
         Telegram!Begin(w, op)
  PROVE  AccountInv'
<1> DEFINE q == [pc |-> "call", op |-> op, key |-> row.key,
                 version |-> row.version, result |-> "none"]
<1>1. row \in RowType /\ row.key \in Keyed /\ row.version \in Nat
  BY DEF AccountInv, RowType
<1>2. /\ login' = [login EXCEPT ![w] = q] /\ row' = row /\ tg' = tg
      /\ Telegram!Open(op)
  BY DEF Telegram!Begin
<1>3. q \in LoginType
  BY <1>1 DEF LoginType
<1>4. op \in {"qrStatus", "resend", "code", "password", "use"} =>
        row.key \in Telegram!Keys
  BY <1>1, <1>2 DEF Telegram!Open, Telegram!ShowsQr, Telegram!Pending, Keyed
<1>5. op = "resend" => row.status = "AWAITING_CODE" /\ row.hash
  BY <1>2 DEF Telegram!Open, Telegram!Pending
<1>6. RequestWell(q, row, tg)
  BY <1>1, <1>4, <1>5 DEF RequestWell
<1> HIDE DEF q
<1> QED  BY <1>2, <1>3, <1>6, RequestGoesOn DEF AccountInv

\* Telegram answers: what it says of the key is what the request goes by.
LEMMA AnswerStep ==
  ASSUME AccountInv, NEW w \in Sockets, NEW k \in Keyed, NEW state \in States,
         NEW result \in {"sent", "connected", "password", "pending", "newCode",
                         "error", "expired", "startOver", "refused", "done", "invalid"},
         Telegram!Answer(w, k, state, result),
         k \in Telegram!Keys => (tg[k] \in {"authorized", "dead"} =>
                                   state \in {"authorized", "dead"}),
         login[w].op \in {"qrStatus", "resend", "code", "password", "use"} =>
           k = login[w].key,
         login[w].op \in {"connect", "qr", "restart"} => k \in Telegram!Keys,
         result = "connected" =>
           k \in Telegram!Keys /\ state \in {"authorized", "dead"}
  PROVE  AccountInv'
<1> DEFINE p == login[w]
           q == [p EXCEPT !.pc = "store", !.key = k, !.result = result]
<1>1. p \in LoginType /\ RequestWell(p, row, tg) /\ p.pc = "call"
  BY DEF AccountInv, Telegram!Answer
<1>2. /\ q \in LoginType /\ q.pc = "store" /\ q.key = k /\ q.result = result
      /\ q.op = p.op /\ q.version = p.version
  BY <1>1 DEF LoginType
<1>3. /\ login' = [login EXCEPT ![w] = q] /\ row' = row
      /\ tg' = IF k = Telegram!None THEN tg ELSE [tg EXCEPT ![k] = state]
  BY DEF Telegram!Answer
<1> HIDE DEF p, q
<1>4. /\ tg' \in [Telegram!Keys -> States]
      /\ \A j \in Telegram!Keys : tg[j] \in {"authorized", "dead"} =>
                                    tg'[j] \in {"authorized", "dead"}
      /\ result = "connected" => tg'[k] \in {"authorized", "dead"}
  BY <1>3, KeysAre DEF AccountInv, Keyed
<1>5. RequestWell(q, row, tg')
  BY <1>1, <1>2, <1>4 DEF RequestWell, p
<1> QED  BY <1>2, <1>3, <1>4, <1>5, RequestGoesOn

LEMMA CallStep ==
  ASSUME AccountInv, NEW w \in Sockets, Telegram!Call(w)
  PROVE  AccountInv'
<1> DEFINE p == login[w]
           k == p.key
<1>0. /\ p \in LoginType /\ k \in Keyed /\ p.op \in Telegram!Ops \cup {"none"}
      /\ RequestWell(p, row, tg) /\ tg \in [Telegram!Keys -> States]
  BY DEF AccountInv, LoginType
<1>1. p.pc = "call" /\ p.op \in {"qrStatus", "resend", "code", "password", "use"} =>
        k \in Telegram!Keys /\ tg[k] \in States
  BY <1>0 DEF RequestWell
<1>2. CASE Telegram!CallLogin(w)
  <2>1. PICK j \in Telegram!Keys :
          /\ p.op \in {"connect", "qr", "restart"} /\ tg[j] = "none"
          /\ Telegram!Answer(w, j, "open", "sent")
    BY <1>2 DEF Telegram!CallLogin
  <2> QED  BY <2>1, AnswerStep DEF Keyed, States
<1>3. CASE Telegram!CallQrStatus(w)
  <2>1. PICK r \in Telegram!QrResults(k) :
          p.op = "qrStatus" /\ Telegram!Answer(w, k, tg[k], r)
    BY <1>3 DEF Telegram!CallQrStatus
  <2>2. p.pc = "call"
    BY <2>1 DEF Telegram!Answer
  <2>3. /\ r \in {"connected", "password", "pending", "newCode", "error"}
        /\ r = "connected" => tg[k] = "authorized"
    BY <1>1, <2>1, <2>2 DEF Telegram!QrResults, States
  <2> QED  BY <1>0, <1>1, <2>1, <2>2, <2>3, AnswerStep
<1>4. CASE Telegram!CallResend(w)
  <2>1. PICK r \in {"sent", "expired", "startOver"} :
          p.op = "resend" /\ Telegram!Answer(w, k, tg[k], r)
    BY <1>4 DEF Telegram!CallResend
  <2>2. p.pc = "call"
    BY <2>1 DEF Telegram!Answer
  <2> QED  BY <1>0, <1>1, <2>1, <2>2, AnswerStep
<1>5. CASE Telegram!CallCode(w)
  <2>1. /\ p.op = "code"
        /\ \/ tg[k] = "open" /\ Telegram!Answer(w, k, "authorized", "connected")
           \/ tg[k] = "open" /\ Telegram!Answer(w, k, "password", "password")
           \/ \E r \in {"refused", "expired"} : Telegram!Answer(w, k, tg[k], r)
    BY <1>5 DEF Telegram!CallCode
  <2>2. p.pc = "call"
    BY <2>1 DEF Telegram!Answer
  <2> QED  BY <1>0, <1>1, <2>1, <2>2, AnswerStep DEF States
<1>6. CASE Telegram!CallPassword(w)
  <2>1. /\ p.op = "password"
        /\ \/ tg[k] = "password" /\ Telegram!Answer(w, k, "authorized", "connected")
           \/ Telegram!Answer(w, k, tg[k], "refused")
    BY <1>6 DEF Telegram!CallPassword
  <2>2. p.pc = "call"
    BY <2>1 DEF Telegram!Answer
  <2> QED  BY <1>0, <1>1, <2>1, <2>2, AnswerStep DEF States
<1>7. CASE Telegram!CallLogout(w)
  <2>1. p.op = "disconnect" /\ Telegram!Answer(w, k, "dead", "done")
    BY <1>7 DEF Telegram!CallLogout
  <2> QED  BY <1>0, <2>1, AnswerStep DEF States
<1>8. CASE Telegram!CallUse(w)
  <2>1. p.op = "use" /\ Telegram!Answer(w, k, tg[k], Telegram!Validated(k))
    BY <1>8 DEF Telegram!CallUse
  <2>2. p.pc = "call"
    BY <2>1 DEF Telegram!Answer
  <2>3. Telegram!Validated(k) \in {"done", "invalid"}
    BY DEF Telegram!Validated
  <2> QED  BY <1>0, <1>1, <2>1, <2>2, <2>3, AnswerStep
<1>9. CASE Telegram!CallFails(w)
  <2> DEFINE what == IF p.op = "disconnect" THEN "done" ELSE "error"
             q == [p EXCEPT !.pc = "store", !.result = what]
  <2>1. /\ login' = [login EXCEPT ![w] = q] /\ row' = row /\ tg' = tg
        /\ p.pc = "call"
    BY <1>9 DEF Telegram!CallFails
  <2>2. /\ q \in LoginType /\ q.pc = "store" /\ q.result \in {"done", "error"}
        /\ q.op = p.op /\ q.version = p.version /\ q.key = p.key
    BY <1>0 DEF LoginType
  <2> HIDE DEF p, q
  <2>3. RequestWell(q, row, tg)
    BY <1>0, <2>1, <2>2 DEF RequestWell
  <2> QED  BY <1>0, <2>1, <2>2, <2>3, RequestGoesOn DEF p
<1> QED
  BY <1>2, <1>3, <1>4, <1>5, <1>6, <1>7, <1>8, <1>9 DEF Telegram!Call

-----------------------------------------------------------------------------
(* Requests that write the row                                             *)

\* A request that is done has written a row that is coherent.
LEMMA WriteStep ==
  ASSUME AccountInv, NEW w \in Sockets, NEW r, NEW late \in BOOLEAN,
         Telegram!Write(w, r, late),
         r \in RowType, r.version = row.version,
         \A s \in RowType :
           /\ s.late = late /\ s.status = r.status /\ s.key = r.key
           /\ s.hash = r.hash /\ s.by = r.by
           => Coherent(s, tg)
  PROVE  AccountInv'
<1> DEFINE s == [r EXCEPT !.made = TRUE, !.version = @ + 1, !.late = late]
<1>1. /\ row' = s /\ tg' = tg
      /\ login' = [login EXCEPT ![w] = Telegram!Idle]
  BY DEF Telegram!Write
<1>2. row.version \in Nat /\ row.version + 1 \in Nat
  BY DEF AccountInv, RowType
<1>3. /\ s \in RowType /\ s.version = row.version + 1 /\ s.late = late
      /\ s.status = r.status /\ s.key = r.key /\ s.hash = r.hash /\ s.by = r.by
  BY <1>2 DEF RowType
<1> HIDE DEF s
<1>4. Coherent(s, tg)
  BY <1>3
<1> QED  BY <1>1, <1>3, <1>4, IdleIs, RequestWrites

LEMMA NoWriteStep ==
  ASSUME AccountInv, NEW w \in Sockets, Telegram!NoWrite(w)
  PROVE  AccountInv'
<1>1. login' = [login EXCEPT ![w] = Telegram!Idle] /\ row' = row /\ tg' = tg
  BY DEF Telegram!NoWrite
<1> QED  BY <1>1, IdleIs, RequestGoesOn DEF AccountInv

\* What the row of a login is, that of a connected account and a cleared one.
LEMMA LoginRow ==
  ASSUME AccountInv, NEW k \in Keyed, NEW by \in {"phone", "qr"},
         NEW r, r = Telegram!LoginBy(by, k)
  PROVE  /\ r \in RowType /\ r.version = row.version /\ r.status = "AWAITING_CODE"
         /\ r.key = k /\ (r.hash <=> by = "phone") /\ r.by = by
<1>1. row \in RowType
  BY DEF AccountInv
<1> QED  BY <1>1 DEF RowType, Telegram!LoginBy, Telegram!Statuses

LEMMA FinalRow ==
  ASSUME AccountInv, NEW k \in Keyed, NEW r, r = Telegram!Final(k)
  PROVE  /\ r \in RowType /\ r.version = row.version /\ r.status = "CONNECTED"
         /\ r.key = k /\ r.hash = FALSE
<1>1. row \in RowType
  BY DEF AccountInv
<1> QED  BY <1>1 DEF RowType, Telegram!Final, Telegram!Statuses

LEMMA ClearedRow ==
  ASSUME AccountInv, NEW r, r = Telegram!Cleared
  PROVE  /\ r \in RowType /\ r.version = row.version /\ r.status = "DISCONNECTED"
         /\ r.key = Telegram!None /\ r.hash = FALSE
<1>1. row \in RowType
  BY DEF AccountInv
<1> QED  BY <1>1 DEF RowType, Telegram!Cleared, Telegram!Statuses, Keyed

\* What a request that stores has to go by.
LEMMA StoringIs ==
  ASSUME AccountInv, NEW w \in Sockets, NEW ops, NEW results,
         Telegram!Storing(w, ops, results)
  PROVE  /\ login[w] \in LoginType /\ login[w].key \in Keyed
         /\ login[w].pc = "store" /\ login[w].op \in ops /\ login[w].result \in results
         /\ RequestWell(login[w], row, tg)
         /\ row \in RowType /\ login[w].version \in Nat /\ row.version \in Nat
         /\ Telegram!Late(w) \in BOOLEAN
         /\ ~Telegram!Late(w) => ~row.late /\ login[w].version = row.version
BY DEF AccountInv, Telegram!Storing, LoginType, RowType, Telegram!Late

\* The logins that begin, and those that are through: the whole row.
LEMMA StoreWhole ==
  ASSUME AccountInv, NEW w \in Sockets,
         \/ Telegram!StoreLogin(w) \/ Telegram!StoreRestart(w) \/ Telegram!StoreQr(w)
         \/ Telegram!StoreConnected(w) \/ Telegram!StoreVerified(w)
         \/ Telegram!StoreDisconnect(w)
  PROVE  AccountInv'
<1> DEFINE p == login[w]
           k == p.key
<1>1. CASE Telegram!StoreLogin(w) \/ Telegram!StoreRestart(w) \/ Telegram!StoreQr(w)
  <2>1. PICK by \in {"phone", "qr"} : Telegram!Write(w, Telegram!LoginBy(by, k), FALSE)
    BY <1>1 DEF Telegram!StoreLogin, Telegram!StoreRestart, Telegram!StoreQr,
       Telegram!WriteAll
  <2>2. \/ Telegram!Storing(w, {"connect", "qr", "restart"}, {"sent"})
        \/ Telegram!Storing(w, {"qrStatus"}, {"newCode"})
    BY <1>1 DEF Telegram!StoreLogin, Telegram!StoreRestart, Telegram!StoreQr,
       Telegram!Storing
  <2>3. k \in Telegram!Keys /\ k \in Keyed
    BY <2>2, StoringIs DEF RequestWell
  <2>4. \A s \in RowType :
          /\ s.late = FALSE /\ s.status = "AWAITING_CODE" /\ s.key = k
          /\ (s.hash <=> by = "phone") /\ s.by = by
          => Coherent(s, tg)
    BY <2>3 DEF Coherent
  <2> DEFINE r == Telegram!LoginBy(by, k)
  <2>5. /\ r \in RowType /\ r.version = row.version /\ r.status = "AWAITING_CODE"
        /\ r.key = k /\ (r.hash <=> by = "phone") /\ r.by = by
    <3>1. r = Telegram!LoginBy(by, k)
      OBVIOUS
    <3> HIDE DEF r, k
    <3> QED  BY <2>3, <3>1, LoginRow
  <2>6. Telegram!Write(w, r, FALSE)
    BY <2>1
  <2> HIDE DEF r, k
  <2>9. \A s \in RowType :
          /\ s.late = FALSE /\ s.status = r.status /\ s.key = r.key
          /\ s.hash = r.hash /\ s.by = r.by
          => Coherent(s, tg)
    BY <2>4, <2>5
  <2> QED  BY <2>5, <2>6, <2>9, WriteStep
<1>2. CASE Telegram!StoreConnected(w) \/ Telegram!StoreVerified(w)
  <2>1. /\ Telegram!Write(w, Telegram!Final(k), FALSE)
        /\ Telegram!Storing(w, {"qrStatus", "code", "password"}, {"connected"})
    BY <1>2 DEF Telegram!StoreConnected, Telegram!StoreVerified,
       Telegram!WriteAll, Telegram!Storing
  <2>2. k \in Telegram!Keys /\ k \in Keyed /\ tg[k] \in {"authorized", "dead"}
    BY <2>1, StoringIs DEF RequestWell
  <2>3. \A s \in RowType :
          s.late = FALSE /\ s.status = "CONNECTED" /\ s.key = k /\ s.hash = FALSE
          => Coherent(s, tg)
    BY <2>2 DEF Coherent
  <2> DEFINE r == Telegram!Final(k)
  <2>4. /\ r \in RowType /\ r.version = row.version /\ r.status = "CONNECTED"
        /\ r.key = k /\ r.hash = FALSE
    <3>1. r = Telegram!Final(k)
      OBVIOUS
    <3> HIDE DEF r, k
    <3> QED  BY <2>2, <3>1, FinalRow
  <2>5. Telegram!Write(w, r, FALSE)
    BY <2>1
  <2> HIDE DEF r, k
  <2>9. \A s \in RowType :
          /\ s.late = FALSE /\ s.status = r.status /\ s.key = r.key
          /\ s.hash = r.hash /\ s.by = r.by
          => Coherent(s, tg)
    BY <2>3, <2>4
  <2> QED  BY <2>4, <2>5, <2>9, WriteStep
<1>3. CASE Telegram!StoreDisconnect(w)
  <2>1. Telegram!Write(w, Telegram!Cleared, FALSE)
    BY <1>3 DEF Telegram!StoreDisconnect, Telegram!WriteAll
  <2>2. \A s \in RowType :
          /\ s.late = FALSE /\ s.status = "DISCONNECTED" /\ s.key = Telegram!None
          /\ s.hash = FALSE
          => Coherent(s, tg)
    BY DEF Coherent
  <2> DEFINE r == Telegram!Cleared
  <2>3. /\ r \in RowType /\ r.version = row.version /\ r.status = "DISCONNECTED"
        /\ r.key = Telegram!None /\ r.hash = FALSE
    <3> HIDE DEF r
    <3> QED  BY ClearedRow DEF r
  <2>4. Telegram!Write(w, r, FALSE)
    BY <2>1
  <2> HIDE DEF r
  <2>9. \A s \in RowType :
          /\ s.late = FALSE /\ s.status = r.status /\ s.key = r.key
          /\ s.hash = r.hash /\ s.by = r.by
          => Coherent(s, tg)
    BY <2>2, <2>3
  <2> QED  BY <2>3, <2>4, <2>9, WriteStep
<1> QED  BY <1>1, <1>2, <1>3

\* A part of the row: one that nobody has written since it was read stays
\* coherent.
LEMMA StorePart ==
  ASSUME AccountInv, NEW w \in Sockets,
         Telegram!StorePassword(w) \/ Telegram!StoreSession(w) \/ Telegram!StoreError(w)
  PROVE  AccountInv'
<1> DEFINE p == login[w]
<1>1. CASE Telegram!StorePassword(w)
  <2> DEFINE r == [row EXCEPT !.status = "AWAITING_PASSWORD", !.key = p.key,
                              !.by = IF p.op = "qrStatus" THEN "qr" ELSE @]
  <2>1. /\ Telegram!Storing(w, {"qrStatus", "code"}, {"password"})
        /\ Telegram!Write(w, r, Telegram!Late(w))
    BY <1>1 DEF Telegram!StorePassword, Telegram!WritePart
  <2>2. p.key \in Keyed /\ row \in RowType /\ Telegram!Late(w) \in BOOLEAN
    BY <2>1, StoringIs
  <2>3. r \in RowType /\ r.version = row.version /\ r.status = "AWAITING_PASSWORD"
    BY <2>2 DEF RowType, Telegram!Statuses
  <2> HIDE DEF r
  <2>4. \A s \in RowType : s.status = "AWAITING_PASSWORD" => Coherent(s, tg)
    BY DEF Coherent
  <2> QED  BY <2>1, <2>2, <2>3, <2>4, WriteStep
<1>2. CASE Telegram!StoreSession(w)
  <2> DEFINE r == [row EXCEPT !.key = p.key, !.hash = @ \/ p.op = "resend"]
  <2>1. /\ Telegram!Storing(w, {"qrStatus", "resend"}, {"pending", "sent"})
        /\ Telegram!Write(w, r, Telegram!Late(w))
    BY <1>2 DEF Telegram!StoreSession, Telegram!WritePart, Telegram!Storing
  <2>2. /\ p.key \in Keyed /\ row \in RowType /\ Telegram!Late(w) \in BOOLEAN
        /\ ~Telegram!Late(w) =>
             /\ ~row.late /\ p.key = row.key
             /\ p.op = "resend" => row.hash
    BY <2>1, StoringIs DEF RequestWell
  <2>3. /\ r \in RowType /\ r.version = row.version /\ r.status = row.status
        /\ r.by = row.by /\ r.key = p.key
        /\ r.hash = (row.hash \/ p.op = "resend")
    BY <2>2 DEF RowType
  <2> HIDE DEF r
  <2>4. ASSUME NEW s \in RowType, s.late = Telegram!Late(w), s.status = r.status,
               s.key = r.key, s.hash = r.hash, s.by = r.by
        PROVE  Coherent(s, tg)
    <3>1. CASE Telegram!Late(w)
      BY <2>4, <3>1 DEF Coherent
    <3>2. CASE ~Telegram!Late(w)
      <4>1. /\ ~row.late /\ s.key = row.key /\ s.by = row.by /\ s.status = row.status
            /\ s.hash = row.hash
        BY <2>2, <2>3, <2>4, <3>2 DEF RowType
      <4>2. Coherent(row, tg)
        BY DEF AccountInv
      <4> QED  BY <4>1, <4>2 DEF Coherent
    <3> QED  BY <3>1, <3>2
  <2> QED  BY <2>1, <2>2, <2>3, <2>4, WriteStep
<1>3. CASE Telegram!StoreError(w)
  <2> DEFINE r == [row EXCEPT !.status = "ERROR"]
  <2>1. CASE ~row.made
    BY <1>3, <2>1, NoWriteStep DEF Telegram!StoreError
  <2>2. CASE row.made
    <3>1. /\ Telegram!Storing(w, {"connect", "qr", "code", "password"}, {"error"})
          /\ Telegram!Write(w, r, Telegram!Late(w))
      BY <1>3, <2>2 DEF Telegram!StoreError, Telegram!WritePart
    <3>2. row \in RowType /\ Telegram!Late(w) \in BOOLEAN
      BY <3>1, StoringIs
    <3>3. r \in RowType /\ r.version = row.version /\ r.status = "ERROR"
      BY <3>2 DEF RowType, Telegram!Statuses
    <3> HIDE DEF r
    <3>4. \A s \in RowType : s.status = "ERROR" => Coherent(s, tg)
      BY DEF Coherent
    <3> QED  BY <3>1, <3>2, <3>3, <3>4, WriteStep
  <2> QED  BY <2>1, <2>2
<1> QED  BY <1>1, <1>2, <1>3

\* A login that has to be started again goes on to a new code.
LEMMA StoreInvalidStep ==
  ASSUME AccountInv, NEW w \in Sockets, Telegram!StoreInvalid(w)
  PROVE  AccountInv'
<1> DEFINE p == login[w]
           c == Telegram!Cleared
           r == [c EXCEPT !.version = @ + 1, !.late = FALSE]
           g == [p EXCEPT !.pc = "call", !.op = "restart"]
           q == IF p.result = "startOver" THEN g ELSE Telegram!Idle
<1>1. /\ Telegram!Storing(w, {"resend", "code"}, {"expired", "startOver"})
      /\ row' = IF row.status = "AWAITING_CODE" THEN r ELSE row
      /\ login' = [login EXCEPT ![w] = q] /\ tg' = tg
  BY DEF Telegram!StoreInvalid
<1>2. /\ p \in LoginType /\ RequestWell(p, row, tg) /\ p.pc = "store"
      /\ row \in RowType /\ p.version \in Nat /\ row.version \in Nat
      /\ row.version + 1 \in Nat /\ p.version <= row.version
  BY <1>1, StoringIs DEF RequestWell
<1>3. /\ c \in RowType /\ c.version = row.version /\ c.status = "DISCONNECTED"
      /\ c.key = Telegram!None /\ c.hash = FALSE
  <2> HIDE DEF c
  <2> QED  BY ClearedRow DEF c
<1> HIDE DEF c
<1>4. /\ r \in RowType /\ r.version = row.version + 1 /\ r.status = "DISCONNECTED"
      /\ r.key = Telegram!None /\ r.hash = FALSE /\ r.late = FALSE
  BY <1>2, <1>3 DEF RowType
<1>5. Coherent(r, tg)
  BY <1>4 DEF Coherent
<1>6. g \in LoginType /\ g.pc = "call" /\ g.op = "restart" /\ g.version = p.version
  BY <1>2 DEF LoginType, Telegram!Ops
<1> HIDE DEF r, g
<1>7. RequestWell(g, row, tg) /\ RequestWell(g, r, tg)
  <2>1. p.version <= row.version /\ p.version <= r.version
    BY <1>2, <1>4
  <2> QED  BY <1>6, <2>1 DEF RequestWell
<1>8. q \in LoginType /\ RequestWell(q, row, tg) /\ RequestWell(q, r, tg)
  BY <1>6, <1>7, IdleIs
<1> HIDE DEF q
<1>9. CASE row.status = "AWAITING_CODE"
  BY <1>1, <1>4, <1>5, <1>8, <1>9, RequestWrites
<1>10. CASE row.status # "AWAITING_CODE"
  BY <1>1, <1>8, <1>10, RequestGoesOn DEF AccountInv
<1> QED  BY <1>9, <1>10

LEMMA StoreStep ==
  ASSUME AccountInv, NEW w \in Sockets, Telegram!Store(w)
  PROVE  AccountInv'
<1>1. CASE Telegram!StoreNothing(w)
  BY <1>1, NoWriteStep DEF Telegram!StoreNothing
<1> QED
  BY <1>1, StoreWhole, StorePart, StoreInvalidStep DEF Telegram!Store

\* The steps that leave the requests alone, and a restart, which ends them.
LEMMA KeyStep ==
  ASSUME AccountInv, login' = login, row' = row,
         tg' \in [Telegram!Keys -> States],
         \A k \in Telegram!Keys : tg[k] \in {"authorized", "dead"} =>
                                    tg'[k] \in {"authorized", "dead"}
  PROVE  AccountInv'
<1>1. Coherent(row', tg')
  BY DEF AccountInv, Coherent
<1>2. ASSUME NEW w \in Sockets PROVE RequestWell(login'[w], row', tg')
  <2>1. RequestWell(login[w], row, tg)
    BY DEF AccountInv
  <2> QED  BY <2>1 DEF RequestWell
<1> QED  BY <1>1, <1>2 DEF AccountInv

LEMMA AccountSteps ==
  ASSUME AccountInv, [Telegram!Next]_telegram
  PROVE  AccountInv'
<1>1. CASE UNCHANGED <<row, tg, login>>
  BY <1>1 DEF AccountInv
<1>2. ASSUME NEW l \in Telegram!Loops, Telegram!Run(l) PROVE AccountInv'
  <2>1. UNCHANGED <<row, tg, login>>
    BY <1>2 DEF Telegram!Run, Telegram!Reconcile, Telegram!Match, Telegram!Health,
       Telegram!Start, Telegram!Started, Telegram!login
  <2> QED  BY <1>1, <2>1
<1>3. CASE Telegram!Toggle
  <2> DEFINE r == [row EXCEPT !.enabled = ~@]
  <2>1. row' = r /\ tg' = tg /\ login' = login /\ row \in RowType
    BY <1>3 DEF Telegram!Toggle, AccountInv
  <2>2. /\ r \in RowType /\ r.version = row.version /\ r.status = row.status
        /\ r.key = row.key /\ r.hash = row.hash /\ r.by = row.by /\ r.late = row.late
    BY <2>1 DEF RowType
  <2> HIDE DEF r
  <2>3. Coherent(r, tg)
    BY <2>2 DEF AccountInv, Coherent
  <2>4. ASSUME NEW w \in Sockets PROVE RequestWell(login'[w], r, tg)
    <3>1. RequestWell(login[w], row, tg)
      BY DEF AccountInv
    <3> QED  BY <2>1, <2>2, <3>1 DEF RequestWell
  <2> QED  BY <2>1, <2>2, <2>3, <2>4 DEF AccountInv
<1>4. ASSUME NEW k \in Telegram!Keys, Telegram!Scan(k) \/ Telegram!Kill(k)
      PROVE  AccountInv'
  <2>1. login' = login /\ row' = row
    BY <1>4 DEF Telegram!Scan, Telegram!Kill
  <2>2. PICK s \in States : /\ tg' = [tg EXCEPT ![k] = s]
                            /\ tg[k] = "open" \/ s = "dead"
    BY <1>4 DEF Telegram!Scan, Telegram!Kill, States
  <2>3. /\ tg' \in [Telegram!Keys -> States]
        /\ \A j \in Telegram!Keys : tg[j] \in {"authorized", "dead"} =>
                                      tg'[j] \in {"authorized", "dead"}
    BY <2>2 DEF AccountInv
  <2> QED  BY <2>1, <2>3, KeyStep
<1>5. CASE Telegram!Restart
  <2>1. row' = row /\ tg' = tg /\ login' = [w \in Sockets |-> Telegram!Idle]
    BY <1>5 DEF Telegram!Restart
  <2> QED  BY <2>1, IdleIs DEF AccountInv
<1>6. CASE Telegram!TimerRings \/ Telegram!GrowsStale \/ Telegram!Entitle
           \/ UNCHANGED telegram
  <2>1. UNCHANGED <<row, tg, login>>
    BY <1>6 DEF Telegram!TimerRings, Telegram!GrowsStale, Telegram!Entitle,
       Telegram!login, telegram
  <2> QED  BY <1>1, <2>1
<1> QED
  BY <1>2, <1>3, <1>4, <1>5, <1>6, BeginStep, CallStep, StoreStep DEF Telegram!Next

-----------------------------------------------------------------------------
(* The listener                                                            *)

Begun == {"match", "health", "start", "started"}
LoopType == [pc : {"idle", "begin"} \cup Begun, key : Keyed]

\* One run of reconcile at most is past the flag; it starts a listener only
\* when there is none, and asks only the one there is.
ListenerInv ==
  /\ loop \in [Telegram!Loops -> LoopType] /\ listener \in Keyed
  /\ fresh \in BOOLEAN
  /\ reconciling <=> \E l \in Telegram!Loops : loop[l].pc \in Begun
  /\ \A l, m \in Telegram!Loops : loop[l].pc \in Begun /\ loop[m].pc \in Begun => l = m
  /\ \A l \in Telegram!Loops :
       /\ loop[l].pc \in {"start", "started"} =>
            listener = Telegram!None /\ loop[l].key \in Telegram!Keys
       /\ loop[l].pc = "health" => listener \in Telegram!Keys /\ loop[l].key = listener
  /\ running \in [Telegram!Keys -> {0, 1}]
  /\ \A k \in Telegram!Keys :
       running[k] = 1 <=> \/ listener = k
                          \/ \E l \in Telegram!Loops : loop[l].pc = "started"
                                                       /\ loop[l].key = k

\* Nobody listens, and no run of reconcile is under way.
LEMMA NobodyListens ==
  ASSUME NEW q \in LoopType, q.pc = "idle",
         loop = [l \in Telegram!Loops |-> q],
         listener = Telegram!None, fresh = FALSE, reconciling = FALSE,
         running = [k \in Telegram!Keys |-> 0]
  PROVE  ListenerInv
<1>1. /\ loop \in [Telegram!Loops -> LoopType] /\ listener \in Keyed
      /\ running \in [Telegram!Keys -> {0, 1}]
  BY DEF Keyed
<1>2. \A l \in Telegram!Loops : loop[l].pc = "idle"
  OBVIOUS
<1>3. \A k \in Telegram!Keys : running[k] # 1 /\ listener # k
  BY KeysAre
<1> QED  BY <1>1, <1>2, <1>3 DEF ListenerInv, Begun

LEMMA ListenerStarts == Telegram!Init => ListenerInv
<1> SUFFICES ASSUME Telegram!Init PROVE ListenerInv
  OBVIOUS
<1>1. /\ loop = [l \in Telegram!Loops |-> Telegram!Waiting]
      /\ listener = Telegram!None /\ fresh = FALSE /\ reconciling = FALSE
      /\ running = [k \in Telegram!Keys |-> 0]
  BY DEF Telegram!Init
<1>2. /\ Telegram!Waiting \in LoopType /\ Telegram!Waiting.pc = "idle"
  BY DEF Telegram!Waiting, LoopType, Keyed
<1> HIDE DEF Telegram!Waiting
<1> QED  BY <1>1, <1>2, NobodyListens

\* A run goes on, or ends: what it has to leave behind.
LEMMA LoopGoesOn ==
  ASSUME ListenerInv, NEW l \in Telegram!Loops, NEW q \in LoopType,
         loop' = [loop EXCEPT ![l] = q],
         listener' \in Keyed, fresh' \in BOOLEAN,
         reconciling' <=> q.pc \in Begun,
         loop[l].pc \in Begun \/ (q.pc \in Begun /\ ~reconciling),
         q.pc \in {"start", "started"} =>
           listener' = Telegram!None /\ q.key \in Telegram!Keys,
         q.pc = "health" => listener' \in Telegram!Keys /\ q.key = listener',
         running' \in [Telegram!Keys -> {0, 1}],
         \A k \in Telegram!Keys :
           running'[k] = 1 <=> listener' = k \/ (q.pc = "started" /\ q.key = k)
  PROVE  ListenerInv'
<1>1. \A m \in Telegram!Loops : m # l => loop[m].pc \notin Begun
  BY DEF ListenerInv
<1>2. /\ loop' \in [Telegram!Loops -> LoopType] /\ loop'[l] = q
      /\ \A m \in Telegram!Loops : m # l => loop'[m] = loop[m]
  BY DEF ListenerInv
<1>3. reconciling' <=> \E m \in Telegram!Loops : loop'[m].pc \in Begun
  BY <1>1, <1>2
<1>4. \A m, n \in Telegram!Loops :
        loop'[m].pc \in Begun /\ loop'[n].pc \in Begun => m = n
  BY <1>1, <1>2
<1>5. \A m \in Telegram!Loops :
        /\ loop'[m].pc \in {"start", "started"} =>
             listener' = Telegram!None /\ loop'[m].key \in Telegram!Keys
        /\ loop'[m].pc = "health" => listener' \in Telegram!Keys /\ loop'[m].key = listener'
  BY <1>1, <1>2 DEF Begun
<1>6. \A k \in Telegram!Keys :
        running'[k] = 1 <=> \/ listener' = k
                            \/ \E m \in Telegram!Loops : loop'[m].pc = "started"
                                                         /\ loop'[m].key = k
  BY <1>1, <1>2 DEF Begun
<1> QED  BY <1>2, <1>3, <1>4, <1>5, <1>6 DEF ListenerInv

\* A step that leaves the listener alone, and every run where it was but for
\* one that has not yet looked at the flag.
LEMMA LoopWaits ==
  ASSUME ListenerInv, NEW l \in Telegram!Loops, NEW q \in LoopType,
         loop' = [loop EXCEPT ![l] = q], loop[l].pc \notin Begun, q.pc \notin Begun,
         UNCHANGED <<listener, fresh, running, reconciling>>
  PROVE  ListenerInv'
<1>1. /\ loop' \in [Telegram!Loops -> LoopType] /\ loop'[l] = q
      /\ \A m \in Telegram!Loops : m # l => loop'[m] = loop[m]
  BY DEF ListenerInv
<1>2. \A m \in Telegram!Loops : loop'[m].pc \in Begun <=> loop[m].pc \in Begun
  BY <1>1
<1>3. \A m \in Telegram!Loops : loop'[m].pc \in Begun => loop'[m] = loop[m]
  BY <1>1
<1>4. reconciling' <=> \E m \in Telegram!Loops : loop'[m].pc \in Begun
  BY <1>2 DEF ListenerInv
<1>5. \A m, n \in Telegram!Loops :
        loop'[m].pc \in Begun /\ loop'[n].pc \in Begun => m = n
  BY <1>2 DEF ListenerInv
<1>6. \A m \in Telegram!Loops :
        /\ loop'[m].pc \in {"start", "started"} =>
             listener' = Telegram!None /\ loop'[m].key \in Telegram!Keys
        /\ loop'[m].pc = "health" => listener' \in Telegram!Keys /\ loop'[m].key = listener'
  BY <1>3 DEF ListenerInv, Begun
<1>7. \A m \in Telegram!Loops : loop'[m].pc = "started" <=> loop[m].pc = "started"
  BY <1>1 DEF Begun
<1>8. \A k \in Telegram!Keys :
        running'[k] = 1 <=> \/ listener' = k
                            \/ \E m \in Telegram!Loops : loop'[m].pc = "started"
                                                         /\ loop'[m].key = k
  BY <1>1, <1>3, <1>7 DEF ListenerInv, Begun
<1>9. running' \in [Telegram!Keys -> {0, 1}] /\ listener' \in Keyed /\ fresh' \in BOOLEAN
  BY DEF ListenerInv
<1> QED  BY <1>1, <1>4, <1>5, <1>6, <1>8, <1>9 DEF ListenerInv

LEMMA WaitingIs ==
  /\ Telegram!Waiting \in LoopType /\ Telegram!Waiting.pc = "idle"
  /\ \A l \in Telegram!Loops, pc \in {"idle", "begin"} \cup Begun :
       loop \in [Telegram!Loops -> LoopType] =>
         /\ [loop[l] EXCEPT !.pc = pc] \in LoopType
         /\ [loop[l] EXCEPT !.pc = pc].pc = pc
         /\ [loop[l] EXCEPT !.pc = pc].key = loop[l].key
<1>1. Telegram!Waiting \in LoopType /\ Telegram!Waiting.pc = "idle"
  BY DEF Telegram!Waiting, LoopType, Keyed
<1>2. ASSUME NEW l \in Telegram!Loops, NEW pc \in {"idle", "begin"} \cup Begun,
             loop \in [Telegram!Loops -> LoopType]
      PROVE  /\ [loop[l] EXCEPT !.pc = pc] \in LoopType
             /\ [loop[l] EXCEPT !.pc = pc].pc = pc
             /\ [loop[l] EXCEPT !.pc = pc].key = loop[l].key
  <2>1. loop[l] \in LoopType
    BY <1>2
  <2> QED  BY <2>1 DEF LoopType
<1> QED  BY <1>1, <1>2

\* A run ends.
LEMMA EndedStep ==
  ASSUME ListenerInv, NEW l \in Telegram!Loops, loop[l].pc \in Begun,
         Telegram!Ended(l), listener' \in Keyed, fresh' \in BOOLEAN,
         running' \in [Telegram!Keys -> {0, 1}],
         \A k \in Telegram!Keys : running'[k] = 1 <=> listener' = k
  PROVE  ListenerInv'
<1> DEFINE q == Telegram!Waiting
<1>1. q \in LoopType /\ q.pc = "idle"
  BY WaitingIs
<1>2. loop' = [loop EXCEPT ![l] = q] /\ reconciling' = FALSE
  BY DEF Telegram!Ended
<1> HIDE DEF q
<1>3. q.pc \notin Begun /\ q.pc \notin {"start", "started", "health"}
  BY <1>1 DEF Begun
<1> QED  BY <1>1, <1>2, <1>3, LoopGoesOn

\* A run goes on to its next step.
LEMMA OnwardLoop ==
  ASSUME ListenerInv, NEW l \in Telegram!Loops, loop[l].pc \in Begun,
         NEW pc \in Begun, loop' = [loop EXCEPT ![l].pc = pc],
         reconciling' = reconciling,
         listener' \in Keyed, fresh' \in BOOLEAN,
         pc \in {"start", "started"} =>
           listener' = Telegram!None /\ loop[l].key \in Telegram!Keys,
         pc = "health" => listener' \in Telegram!Keys /\ loop[l].key = listener',
         running' \in [Telegram!Keys -> {0, 1}],
         \A k \in Telegram!Keys :
           running'[k] = 1 <=> listener' = k \/ (pc = "started" /\ loop[l].key = k)
  PROVE  ListenerInv'
<1> DEFINE q == [loop[l] EXCEPT !.pc = pc]
<1>1. q \in LoopType /\ q.pc = pc /\ q.key = loop[l].key
  BY WaitingIs DEF ListenerInv
<1>2. loop' = [loop EXCEPT ![l] = q] /\ reconciling
  BY DEF ListenerInv
<1> HIDE DEF q
<1>3. /\ reconciling' <=> q.pc \in Begun
      /\ \A k \in Telegram!Keys :
           running'[k] = 1 <=> listener' = k \/ (q.pc = "started" /\ q.key = k)
  BY <1>1, <1>2
<1>4. /\ q.pc \in {"start", "started"} =>
           listener' = Telegram!None /\ q.key \in Telegram!Keys
      /\ q.pc = "health" => listener' \in Telegram!Keys /\ q.key = listener'
  BY <1>1
<1>5. loop[l].pc \in Begun \/ (q.pc \in Begun /\ ~reconciling)
  OBVIOUS
<1>6. q \in LoopType /\ loop' = [loop EXCEPT ![l] = q]
  BY <1>1, <1>2
<1> QED  BY ONLY <1>3, <1>4, <1>5, <1>6, LoopGoesOn,
            ListenerInv, l \in Telegram!Loops, listener' \in Keyed, fresh' \in BOOLEAN,
            running' \in [Telegram!Keys -> {0, 1}]

LEMMA ReconcileStep ==
  ASSUME AccountInv, ListenerInv, NEW l \in Telegram!Loops, Telegram!Reconcile(l)
  PROVE  ListenerInv'
<1>1. loop[l].pc = "begin" /\ UNCHANGED <<listener, fresh, running>>
  BY DEF Telegram!Reconcile
<1>2. CASE reconciling
  <2>1. loop' = [loop EXCEPT ![l] = Telegram!Waiting] /\ reconciling' = reconciling
    BY <1>2 DEF Telegram!Reconcile, Telegram!MayReconcile
  <2> QED  BY <1>1, <2>1, WaitingIs, LoopWaits DEF Begun
<1>3. CASE ~reconciling
  <2> DEFINE q == [pc |-> "match", key |-> Telegram!Wanted]
  <2>1. loop' = [loop EXCEPT ![l] = q] /\ reconciling' = TRUE
    BY <1>3 DEF Telegram!Reconcile, Telegram!MayReconcile
  <2>2. q \in LoopType /\ q.pc = "match"
    BY DEF Telegram!Wanted, AccountInv, RowType, LoopType, Keyed, Begun
  <2> HIDE DEF q
  <2>3. \A m \in Telegram!Loops : loop[m].pc \notin Begun
    BY <1>3 DEF ListenerInv
  <2>4. \A k \in Telegram!Keys : running[k] = 1 <=> listener = k
    BY <2>3 DEF ListenerInv, Begun
  <2> QED  BY <1>1, <1>3, <2>1, <2>2, <2>4, LoopGoesOn DEF ListenerInv, Begun
<1> QED  BY <1>2, <1>3

\* The listener stops: nobody listens any more.
LEMMA StopIs ==
  ASSUME ListenerInv, NEW l \in Telegram!Loops, loop[l].pc \in {"match", "health"},
         listener # Telegram!None, Telegram!StopListener
  PROVE  /\ running' \in [Telegram!Keys -> {0, 1}]
         /\ \A k \in Telegram!Keys : running'[k] # 1
<1>1. /\ running \in [Telegram!Keys -> {0, 1}] /\ listener \in Telegram!Keys
      /\ running' = [running EXCEPT ![listener] = running[listener] - 1]
  BY DEF ListenerInv, Keyed, Telegram!StopListener
<1>2. \A m \in Telegram!Loops : loop[m].pc # "started"
  BY DEF ListenerInv, Begun
<1>3. \A k \in Telegram!Keys : running[k] = 1 <=> listener = k
  BY <1>2 DEF ListenerInv
<1>4. running[listener] - 1 = 0
  BY <1>1, <1>3
<1> QED  BY <1>1, <1>3, <1>4

\* While a run looks at the listener or starts one, only that in the map is
\* running.
LEMMA OnlyListener ==
  ASSUME ListenerInv, NEW l \in Telegram!Loops, loop[l].pc \in Begun,
         loop[l].pc # "started"
  PROVE  \A k \in Telegram!Keys : running[k] = 1 <=> listener = k
<1>1. \A m \in Telegram!Loops : loop[m].pc # "started"
  BY DEF ListenerInv, Begun
<1> QED  BY <1>1 DEF ListenerInv

LEMMA MatchStep ==
  ASSUME ListenerInv, NEW l \in Telegram!Loops, Telegram!Match(l)
  PROVE  ListenerInv'
<1> DEFINE k == loop[l].key
<1>0. loop[l].pc = "match" /\ loop[l].pc \in Begun
  BY DEF Telegram!Match, Begun
<1>1. /\ loop[l].pc = "match" /\ loop[l].pc \in Begun /\ k \in Keyed
      /\ listener \in Keyed /\ fresh \in BOOLEAN
      /\ running \in [Telegram!Keys -> {0, 1}]
      /\ \A j \in Telegram!Keys : running[j] = 1 <=> listener = j
  <2>1. /\ loop[l] \in LoopType /\ listener \in Keyed /\ fresh \in BOOLEAN
        /\ running \in [Telegram!Keys -> {0, 1}]
    BY DEF ListenerInv
  <2>2. \A j \in Telegram!Keys : running[j] = 1 <=> listener = j
    BY <1>0, OnlyListener
  <2> QED  BY <1>0, <2>1, <2>2 DEF LoopType
<1>2. CASE listener # Telegram!None /\ Telegram!SameSession(k)
  <2>1. CASE fresh
    <3>1. Telegram!Ended(l) /\ UNCHANGED <<listener, fresh, running>>
      BY <1>2, <2>1 DEF Telegram!Match
    <3> QED  BY <1>1, <3>1, EndedStep
  <2>2. CASE ~fresh
    <3>1. /\ loop' = [loop EXCEPT ![l].pc = "health"]
          /\ UNCHANGED <<listener, fresh, running, reconciling>>
      BY <1>2, <2>2 DEF Telegram!Match
    <3>2. "health" \in Begun /\ listener \in Telegram!Keys /\ k = listener
      BY <1>1, <1>2 DEF Begun, Keyed, Telegram!SameSession
    <3>3. /\ listener' \in Keyed /\ fresh' \in BOOLEAN /\ listener' \in Telegram!Keys
          /\ loop[l].key = listener'
          /\ running' \in [Telegram!Keys -> {0, 1}]
          /\ \A j \in Telegram!Keys :
               running'[j] = 1 <=> listener' = j \/ ("health" = "started" /\ loop[l].key = j)
      BY <1>1, <3>1, <3>2
    <3>4. loop' = [loop EXCEPT ![l].pc = "health"] /\ reconciling' = reconciling
      BY <3>1
    <3> HIDE DEF k
    <3> QED  BY ONLY <1>0, <3>2, <3>3, <3>4, OnwardLoop, ListenerInv, l \in Telegram!Loops
  <2> QED  BY <2>1, <2>2
<1>3. CASE listener # Telegram!None /\ ~Telegram!SameSession(k)
  <2>1. /\ Telegram!StopListener /\ listener' = Telegram!None /\ fresh' = FALSE
        /\ IF k = Telegram!None THEN Telegram!Ended(l)
           ELSE loop' = [loop EXCEPT ![l].pc = "start"] /\ reconciling' = reconciling
    BY <1>3 DEF Telegram!Match
  <2>2. /\ running' \in [Telegram!Keys -> {0, 1}]
        /\ \A j \in Telegram!Keys : running'[j] # 1
    BY <1>1, <1>3, <2>1, StopIs
  <2>3. listener' \in Keyed /\ \A j \in Telegram!Keys : listener' # j
    BY <2>1, KeysAre DEF Keyed
  <2>4. CASE k = Telegram!None
    BY <1>1, <2>1, <2>2, <2>3, <2>4, EndedStep
  <2>5. CASE k # Telegram!None
    <3>1. "start" \in Begun /\ k \in Telegram!Keys
      BY <1>1, <2>5 DEF Begun, Keyed
    <3>2. loop' = [loop EXCEPT ![l].pc = "start"] /\ reconciling' = reconciling
      BY <2>1, <2>5
    <3>3. listener' = Telegram!None /\ fresh' \in BOOLEAN
      BY <2>1
    <3>4. \A j \in Telegram!Keys :
            running'[j] = 1 <=> listener' = j \/ ("start" = "started" /\ k = j)
      BY <2>2, <2>3
    <3> QED  BY <1>1, <2>2, <2>3, <3>1, <3>2, <3>3, <3>4, OnwardLoop
  <2> QED  BY <2>4, <2>5
<1>4. CASE listener = Telegram!None
  <2>1. /\ UNCHANGED <<listener, fresh, running>>
        /\ IF k = Telegram!None THEN Telegram!Ended(l)
           ELSE loop' = [loop EXCEPT ![l].pc = "start"] /\ reconciling' = reconciling
    BY <1>4 DEF Telegram!Match
  <2>2. CASE k = Telegram!None
    BY <1>1, <2>1, <2>2, EndedStep
  <2>3. CASE k # Telegram!None
    <3>1. "start" \in Begun /\ k \in Telegram!Keys
      BY <1>1, <2>3 DEF Begun, Keyed
    <3> QED  BY <1>1, <1>4, <2>1, <2>3, <3>1, OnwardLoop
  <2> QED  BY <2>2, <2>3
<1> QED  BY <1>2, <1>3, <1>4

LEMMA HealthStep ==
  ASSUME ListenerInv, NEW l \in Telegram!Loops, Telegram!Health(l)
  PROVE  ListenerInv'
<1>1. /\ loop[l].pc = "health" /\ loop[l].pc \in Begun /\ listener \in Telegram!Keys
      /\ listener \in Keyed /\ listener # Telegram!None /\ fresh \in BOOLEAN
      /\ running \in [Telegram!Keys -> {0, 1}]
      /\ \A j \in Telegram!Keys : running[j] = 1 <=> listener = j
  BY OnlyListener, KeysAre DEF Telegram!Health, Begun, ListenerInv
<1>2. CASE fresh' = TRUE /\ Telegram!Ended(l) /\ UNCHANGED <<listener, running>>
  BY <1>1, <1>2, EndedStep
<1>3. CASE /\ Telegram!StopListener /\ listener' = Telegram!None /\ fresh' = FALSE
           /\ loop' = [loop EXCEPT ![l].pc = "start"] /\ reconciling' = reconciling
  <2>1. /\ running' \in [Telegram!Keys -> {0, 1}]
        /\ \A j \in Telegram!Keys : running'[j] # 1
    BY <1>1, <1>3, StopIs
  <2>2. /\ listener' \in Keyed /\ \A j \in Telegram!Keys : listener' # j
        /\ "start" \in Begun
    BY <1>3, KeysAre DEF Keyed, Begun
  <2>3. loop[l].key \in Telegram!Keys
    BY <1>1 DEF ListenerInv
  <2>4. \A j \in Telegram!Keys :
          running'[j] = 1 <=> listener' = j \/ ("start" = "started" /\ loop[l].key = j)
    BY <2>1, <2>2
  <2> QED  BY <1>1, <1>3, <2>1, <2>2, <2>3, <2>4, OnwardLoop
<1> QED  BY <1>2, <1>3 DEF Telegram!Health

LEMMA StartStep ==
  ASSUME ListenerInv, NEW l \in Telegram!Loops, Telegram!Start(l)
  PROVE  ListenerInv'
<1> DEFINE k == loop[l].key
<1>1. /\ loop[l].pc = "start" /\ loop[l].pc \in Begun /\ listener = Telegram!None
      /\ k \in Telegram!Keys /\ listener \in Keyed /\ fresh \in BOOLEAN
      /\ running \in [Telegram!Keys -> {0, 1}]
      /\ \A j \in Telegram!Keys : running[j] = 1 <=> listener = j
      /\ UNCHANGED <<listener, fresh>>
  BY OnlyListener DEF Telegram!Start, Begun, ListenerInv
<1>2. CASE Telegram!Ended(l) /\ running' = running
  BY <1>1, <1>2, EndedStep
<1>3. CASE /\ running' = [running EXCEPT ![k] = running[k] + 1]
           /\ loop' = [loop EXCEPT ![l].pc = "started"] /\ reconciling' = reconciling
  <2>1. running[k] # 1 /\ running[k] + 1 = 1
    BY <1>1, KeysAre
  <2>2. /\ running' \in [Telegram!Keys -> {0, 1}]
        /\ \A j \in Telegram!Keys : running'[j] = 1 <=> j = k
    BY <1>1, <1>3, <2>1, KeysAre
  <2>3. "started" \in Begun /\ \A j \in Telegram!Keys : listener' # j
    BY <1>1, KeysAre DEF Begun
  <2> HIDE DEF k
  <2> QED  BY <1>1, <1>3, <2>2, <2>3, OnwardLoop DEF k
<1> QED  BY <1>2, <1>3 DEF Telegram!Start

LEMMA StartedStep ==
  ASSUME ListenerInv, NEW l \in Telegram!Loops, Telegram!Started(l)
  PROVE  ListenerInv'
<1> DEFINE k == loop[l].key
<1>1. /\ loop[l].pc = "started" /\ loop[l].pc \in Begun /\ listener = Telegram!None
      /\ k \in Telegram!Keys /\ listener \in Keyed /\ fresh \in BOOLEAN
      /\ running \in [Telegram!Keys -> {0, 1}] /\ Telegram!Ended(l)
  BY DEF Telegram!Started, Begun, ListenerInv
<1>2. \A j \in Telegram!Keys : running[j] = 1 <=> j = k
  <2>1. \A m \in Telegram!Loops : m # l => loop[m].pc # "started"
    BY <1>1 DEF ListenerInv, Begun
  <2> QED  BY <1>1, <2>1, KeysAre DEF ListenerInv
<1>3. CASE listener' = k /\ fresh' = TRUE /\ running' = running
  BY <1>1, <1>2, <1>3, EndedStep DEF Keyed
<1>4. CASE /\ running' = [running EXCEPT ![k] = running[k] - 1]
           /\ UNCHANGED <<listener, fresh>>
  <2>1. running[k] - 1 = 0
    BY <1>1, <1>2
  <2>2. /\ running' \in [Telegram!Keys -> {0, 1}]
        /\ \A j \in Telegram!Keys : running'[j] # 1
    BY <1>1, <1>2, <1>4, <2>1
  <2>3. \A j \in Telegram!Keys : listener' # j
    BY <1>1, <1>4, KeysAre
  <2> QED  BY <1>1, <1>4, <2>2, <2>3, EndedStep
<1> QED  BY <1>3, <1>4 DEF Telegram!Started, Telegram!Stopped

LEMMA ListenerSteps ==
  ASSUME AccountInv, ListenerInv, [Telegram!Next]_telegram
  PROVE  ListenerInv'
<1>1. CASE UNCHANGED <<listener, fresh, running, loop, reconciling>>
  BY <1>1 DEF ListenerInv
<1>2. CASE \E w \in Sockets : \/ \E op \in Telegram!Ops : Telegram!Begin(w, op)
                              \/ Telegram!Call(w) \/ Telegram!Store(w)
  <2>1. ASSUME NEW w \in Sockets, NEW op, Telegram!Begin(w, op)
        PROVE  UNCHANGED Telegram!listening
    BY <2>1 DEF Telegram!Begin
  <2>2. ASSUME NEW w \in Sockets, Telegram!Call(w)
        PROVE  UNCHANGED Telegram!listening
    BY <2>2 DEF Telegram!Call, Telegram!CallLogin, Telegram!CallQrStatus,
       Telegram!CallResend, Telegram!CallCode, Telegram!CallPassword,
       Telegram!CallLogout, Telegram!CallUse, Telegram!CallFails, Telegram!Answer
  <2>3. ASSUME NEW w \in Sockets, Telegram!Store(w)
        PROVE  UNCHANGED Telegram!listening
    <3>1. \/ Telegram!NoWrite(w) \/ Telegram!StoreInvalid(w)
          \/ \E r, late : Telegram!Write(w, r, late)
      BY <2>3 DEF Telegram!Store, Telegram!StoreLogin, Telegram!StoreRestart,
         Telegram!StoreQr, Telegram!StoreConnected, Telegram!StoreVerified,
         Telegram!StorePassword, Telegram!StoreSession, Telegram!StoreDisconnect,
         Telegram!StoreError, Telegram!StoreNothing, Telegram!WriteAll,
         Telegram!WritePart
    <3> QED  BY <3>1 DEF Telegram!NoWrite, Telegram!StoreInvalid, Telegram!Write
  <2>4. UNCHANGED Telegram!listening
    BY <1>2, <2>1, <2>2, <2>3
  <2> QED  BY <1>1, <2>4 DEF Telegram!listening
<1>3. CASE Telegram!Toggle \/ Telegram!TimerRings
  <2>1. PICK l \in Telegram!Loops : /\ loop' = [loop EXCEPT ![l].pc = "begin"]
                                    /\ loop[l].pc = "idle"
                                    /\ UNCHANGED <<listener, fresh, running, reconciling>>
    BY <1>3 DEF Telegram!Toggle, Telegram!TimerRings, Telegram!Loops
  <2> DEFINE q == [loop[l] EXCEPT !.pc = "begin"]
  <2>2. loop' = [loop EXCEPT ![l] = q] /\ loop \in [Telegram!Loops -> LoopType]
    BY <2>1 DEF ListenerInv
  <2>3. q \in LoopType /\ q.pc = "begin"
    BY <2>2, WaitingIs
  <2> HIDE DEF q
  <2> QED  BY <2>1, <2>2, <2>3, LoopWaits DEF Begun
<1>4. CASE Telegram!GrowsStale
  BY <1>4 DEF Telegram!GrowsStale, ListenerInv
<1>5. ASSUME NEW l \in Telegram!Loops, Telegram!Run(l) PROVE ListenerInv'
  BY <1>5, ReconcileStep, MatchStep, HealthStep, StartStep, StartedStep
     DEF Telegram!Run
<1>6. CASE Telegram!Entitle \/ (\E k \in Telegram!Keys : Telegram!Scan(k) \/ Telegram!Kill(k))
           \/ UNCHANGED telegram
  <2>1. UNCHANGED <<listener, fresh, running, loop, reconciling>>
    BY <1>6 DEF Telegram!Entitle, Telegram!Scan, Telegram!Kill, Telegram!listening,
       telegram
  <2> QED  BY <1>1, <2>1
<1>7. CASE Telegram!Restart
  <2>1. /\ loop' = [l \in Telegram!Loops |-> Telegram!Waiting]
        /\ listener' = Telegram!None /\ fresh' = FALSE /\ reconciling' = FALSE
        /\ running' = [k \in Telegram!Keys |-> 0]
    BY <1>7 DEF Telegram!Restart
  <2> DEFINE q == Telegram!Waiting
  <2>2. q \in LoopType /\ q.pc = "idle"
    BY WaitingIs
  <2>3. loop' = [l \in Telegram!Loops |-> q]
    BY <2>1
  <2> HIDE DEF q
  <2>4. /\ loop' \in [Telegram!Loops -> LoopType] /\ listener' \in Keyed
        /\ running' \in [Telegram!Keys -> {0, 1}]
    BY <2>1, <2>2, <2>3 DEF Keyed
  <2>5. \A l \in Telegram!Loops : loop'[l].pc = "idle"
    BY <2>2, <2>3
  <2>6. \A k \in Telegram!Keys : running'[k] # 1 /\ listener' # k
    BY <2>1, KeysAre
  <2> QED  BY <2>1, <2>4, <2>5, <2>6 DEF ListenerInv, Begun
<1> QED  BY <1>2, <1>3, <1>4, <1>5, <1>6, <1>7 DEF Telegram!Next

-----------------------------------------------------------------------------
(* What LinksKept says                                                     *)

LEMMA TelegramCountIs == \A S : Telegram!Cardinality(S) = Cardinality(S)
BY DEF Telegram!Cardinality, Cardinality

LEMMA AccountHolds ==
  AccountInv /\ ListenerInv => Telegram!TypeOK /\ Telegram!RowCoherent
<1> SUFFICES ASSUME AccountInv, ListenerInv
             PROVE  Telegram!TypeOK /\ Telegram!RowCoherent
  OBVIOUS
<1>1. ASSUME NEW w \in Sockets
      PROVE  login[w].pc = "idle" <=> login[w] = Telegram!Idle
  <2>1. RequestWell(login[w], row, tg) /\ Telegram!Idle.pc = "idle"
    BY DEF AccountInv, Telegram!Idle
  <2> QED  BY <2>1 DEF RequestWell
<1>2. reconciling <=> \E l \in Telegram!Loops : loop[l].pc \notin {"idle", "begin"}
  BY DEF ListenerInv, LoopType, Begun
<1>3. Telegram!TypeOK
  BY <1>1, <1>2 DEF AccountInv, ListenerInv, RowType, Keyed, States, Telegram!TypeOK
<1>4. row.status \in Telegram!Statuses /\ Coherent(row, tg)
  BY DEF AccountInv, RowType
<1>5. Telegram!RowCoherent
  BY <1>4, KeysAre DEF Coherent, Telegram!RowCoherent, Telegram!Statuses
<1> QED  BY <1>3, <1>5

LEMMA OneListens == ListenerInv => Telegram!OneListener
<1> SUFFICES ASSUME ListenerInv PROVE Telegram!OneListener
  OBVIOUS
<1> DEFINE starting == {l \in Telegram!Loops : loop[l].pc = "started"}
           with(k) == {l \in starting : loop[l].key = k}
           all == IF listener = Telegram!None THEN 0 ELSE 1
<1>1. Cardinality({}) = 0 /\ \A l : Cardinality({l}) = 1
  BY FS_EmptySet, FS_Singleton
<1>2. CASE starting = {}
  <2>1. \A k \in Telegram!Keys : with(k) = {}
    BY <1>2
  <2>2. \A k \in Telegram!Keys : running[k] = IF listener = k THEN 1 ELSE 0
    BY <1>2 DEF ListenerInv
  <2>3. all + Cardinality(starting) <= 1
    BY <1>1, <1>2
  <2>4. ASSUME NEW k \in Telegram!Keys
        PROVE  running[k] = Cardinality(with(k)) + (IF listener = k THEN 1 ELSE 0)
    <3>1. Cardinality(with(k)) = 0
      BY <1>1, <2>1
    <3> HIDE DEF with
    <3> QED  BY <2>2, <3>1
  <2> QED  BY <2>3, <2>4, TelegramCountIs DEF Telegram!OneListener
<1>3. CASE starting # {}
  <2>1. PICK l \in Telegram!Loops : loop[l].pc = "started"
    BY <1>3
  <2>2. /\ listener = Telegram!None /\ \A k \in Telegram!Keys : listener # k
        /\ \A m \in Telegram!Loops : loop[m].pc = "started" => m = l
    BY <2>1, KeysAre DEF ListenerInv, Begun
  <2>3. /\ starting = {l}
        /\ \A k \in Telegram!Keys : with(k) = IF loop[l].key = k THEN {l} ELSE {}
    BY <2>1, <2>2
  <2>4. \A k \in Telegram!Keys : running[k] = IF loop[l].key = k THEN 1 ELSE 0
    BY <2>1, <2>2 DEF ListenerInv
  <2>5. all = 0 /\ Cardinality(starting) = 1
    BY <1>1, <2>2, <2>3
  <2>6. ASSUME NEW k \in Telegram!Keys
        PROVE  running[k] = Cardinality(with(k)) + (IF listener = k THEN 1 ELSE 0)
    <3>1. Cardinality(with(k)) = IF loop[l].key = k THEN 1 ELSE 0
      BY <1>1, <2>3
    <3>2. running[k] = (IF loop[l].key = k THEN 1 ELSE 0) /\ listener # k
      BY <2>2, <2>4
    <3> HIDE DEF with
    <3> QED  BY <3>1, <3>2
  <2> QED  BY <2>5, <2>6, TelegramCountIs DEF Telegram!OneListener
<1> QED  BY <1>2, <1>3

\* Whatever the sockets and requests, the servers, and the bounds: the row of a
\* Telegram account is coherent unless a request that had read an older row
\* wrote a part of it, one client at most listens, and a list of Bito's tools is
\* whole (telegram-integration.service.ts, telegram-sales-agent.service.ts,
\* bito-mcp.client.ts).
THEOREM LinksAreKept == MCSpec => []LinksKept
<1> DEFINE Inv == AccountInv /\ ListenerInv /\ BitoInv
<1>1. MCInit => Inv
  BY AccountStarts, ListenerStarts, BitoStarts DEF MCInit
<1>2. [MCNext]_parts => [Telegram!Next]_telegram /\ [Bito!Next]_bito
  BY DEF MCNext, OfCards, OfTelegram, OfBito, parts
<1>3. Inv /\ [MCNext]_parts => Inv'
  BY <1>2, AccountSteps, ListenerSteps, BitoSteps
<1>4. Inv => LinksKept
  BY AccountHolds, OneListens, BitoHolds DEF LinksKept
<1> QED  BY <1>1, <1>3, <1>4, PTL DEF MCSpec
=============================================================================
