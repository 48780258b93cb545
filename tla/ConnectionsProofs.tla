------------------------- MODULE ConnectionsProofs -------------------------
(***************************************************************************)
(* That the sessions of an account and its connections to Bito, Google and *)
(* Instagram do what they promise (SessionsKept, RotatesOnce, BitoKept,    *)
(* CalendarKept, InstagramKept), for any number of requests, tokens and    *)
(* faults.                                                                 *)
(*                                                                         *)
(* Sessions: a revocation ends every session but those a request was       *)
(* making, a reset link changes one password, and a token is rotated at    *)
(* most once.  None of them is inductive: they rest on who holds which     *)
(* row.  The invariant says that a lock names the one request that stands  *)
(* where a request with that lock stands; that a row which has been taken  *)
(* is still what its taker found (a live token, an unused link); that rows *)
(* are made one after the other, so that a new one overwrites none and has *)
(* no successors; and that a session which a revocation under way does not *)
(* see is one that was made while it was under way.                        *)
(*                                                                         *)
(* Nor are the promises of the connections: each speaks of a row, and a    *)
(* row is written by a step that read it some steps ago.  The invariants   *)
(* say what such a step still knows.  Bito: a connection that was read is  *)
(* the one that is there exactly if no later write made it (SameRow), for  *)
(* the address a token goes to, and a token that is on its way to the row  *)
(* is in nobody's hands (Unseen), for the newest to stay the row's.        *)
(* Google: a meeting that is not in the calendar is pursued by a request,  *)
(* and who is about to save a grant has it.  Instagram: the token somebody *)
(* read is no better than the row's (NoBetter).                            *)
(***************************************************************************)
EXTENDS MCConnections, Sequences, FiniteSetTheorems, TLAPS

-----------------------------------------------------------------------------
(* The sessions of an account                                              *)

Steps == {"idle", "enrol", "stamp", "persist", "rotate", "succeed", "revoke",
          "overwrite", "commit", "withdraw", "issue", "claim"}
Operations == {"none", "register", "login", "refresh", "logout", "change",
               "block", "forgot", "reset"}

RequestType == [pc : Steps, op : Operations, token : Tokens \cup {None},
                link : Links \cup {None}, since : 0..room.revocations,
                at : 0..MaxTime, sees : SUBSET (Tokens \cup Links)]

TokenType == [made : BOOLEAN, live : BOOLEAN, lock : Lockers,
              parent : Tokens \cup {None}, since : 0..room.revocations,
              stray : BOOLEAN]
LinkType == [made : BOOLEAN, used : BOOLEAN, until : 0..(MaxTime + LinkTTL),
             lock : Lockers, changes : 0..1]

\* Where a request of each kind may stand, and what it names.
InPhase(r) ==
  \/ r = Idle
  \/ r.op = "register" /\ r.pc \in {"enrol", "persist"} /\ r.link = None
  \/ r.op = "login" /\ r.pc \in {"stamp", "persist"} /\ r.link = None
  \/ r.op = "refresh" /\ r.pc \in {"rotate", "succeed"} /\ r.token \in Tokens
  \/ r.op = "logout" /\ r.pc = "revoke" /\ r.token \in Tokens
  \/ r.op \in {"change", "block"} /\ r.pc \in {"overwrite", "commit"} /\ r.link = None
  \/ r.op = "forgot" /\ r.pc \in {"withdraw", "issue"} /\ r.link = None
  \/ r.op = "reset" /\ r.pc \in {"claim", "overwrite", "commit"} /\ r.link \in Links

WorkersTyped ==
  /\ worker \in [Workers -> RequestType]
  /\ \A w \in Workers : InPhase(worker[w])

\* What a request holds where it stands: the row of the user, of a token that
\* it rotates, of a link that it claimed or of the links that it withdraws.
HoldsUser(w) == worker[w].pc = "commit"
HoldsToken(w, t) == worker[w].pc = "succeed" /\ worker[w].token = t
HoldsLink(w, l) ==
  \/ worker[w].pc \in {"overwrite", "commit"} /\ worker[w].link = l
  \/ worker[w].pc = "issue" /\ l \in worker[w].sees

UserLocked == \A w \in Workers : userLock = w <=> HoldsUser(w)
TokensLocked ==
  \A w \in Workers, t \in Tokens : tokens[t].lock = w <=> HoldsToken(w, t)
LinksLocked ==
  \A w \in Workers, l \in Links : links[l].lock = w <=> HoldsLink(w, l)

\* A row that is held is what its holder found.
HeldIsLive == \A t \in Tokens : tokens[t].lock # Nobody => Live(t)
HeldIsUnused ==
  \A w \in Workers, l \in Links :
    worker[w].pc \in {"overwrite", "commit"} /\ worker[w].link = l
      => ~links[l].used

\* The rows are made in order, while there is room; a live token and a link
\* that is held or open have been made.
TokensMade ==
  /\ \A t \in Tokens : Live(t) => tokens[t].made
  /\ MadeTokens = 1..Cardinality(MadeTokens)
LinksMade ==
  /\ \A l \in Links :
       ~links[l].made => links[l].lock = Nobody /\ links[l].until = 0
  /\ MadeLinks = 1..Cardinality(MadeLinks)
TokenOps == {"register", "login", "refresh"}
LinkOps == {"forgot"}
RevokingOps == {"change", "block", "reset"}
RoomEnough ==
  /\ Cardinality(MadeTokens) + Busy(TokenOps) <= room.tokens
  /\ Cardinality(MadeLinks) + Busy(LinkOps) <= room.links
  /\ revoked + Busy(RevokingOps) <= room.revocations

\* A live token has no successor, and no token precedes its parent.
Childless == \A t \in Tokens : Live(t) => Children(t) = {}
ParentsMade ==
  \A c \in MadeTokens : tokens[c].parent \in MadeTokens \cup {None}

\* A live token that a revocation under way does not see is stray.
UnseenIsStray ==
  \A w \in Workers, t \in Tokens :
    worker[w].pc = "commit" /\ Live(t) /\ t \notin worker[w].sees
      => tokens[t].stray

IInv ==
  /\ TypeOK /\ WorkersTyped
  /\ UserLocked /\ TokensLocked /\ LinksLocked
  /\ HeldIsLive /\ HeldIsUnused
  /\ TokensMade /\ LinksMade /\ RoomEnough
  /\ Childless /\ ParentsMade /\ UnseenIsStray
  /\ RevocationReaches /\ LinkChangesOnce

-----------------------------------------------------------------------------
(* What a step does, told by what it means for the locks and the rows.     *)

\* A step of request w: the others stay where they are.
Moves(w) ==
  /\ worker' \in [Workers -> RequestType]
  /\ InPhase(worker'[w])
  /\ \A v \in Workers : v # w => worker'[v] = worker[v]
  /\ room' = room

HoldsNothing(r) ==
  /\ r.pc \notin {"succeed", "commit", "issue"}
  /\ r.pc = "overwrite" => r.link = None

RoomFor(op) ==
  /\ op \in TokenOps => RoomForToken
  /\ op \in LinkOps => RoomForLink
  /\ op \in RevokingOps => RoomToRevoke

\* No row changes and no lock: a request begins, goes on or is refused.
Quiet(w) ==
  /\ Moves(w) /\ HoldsNothing(worker[w]) /\ HoldsNothing(worker'[w])
  /\ worker'[w].op \in {worker[w].op, "none"} \/ RoomFor(worker'[w].op)
  /\ UNCHANGED <<userLock, tokens, links, revoked>>

\* A session is made by a login.
Makes(w) ==
  /\ Moves(w) /\ HoldsNothing(worker[w]) /\ worker'[w] = Idle
  /\ worker[w].op \in TokenOps
  /\ tokens' = [tokens EXCEPT ![Fresh(MadeTokens)] = NewToken(w, None)]
  /\ UNCHANGED <<userLock, links, revoked>>

\* A live token is taken, and rotated.
Takes(w, t) ==
  /\ Moves(w) /\ HoldsNothing(worker[w])
  /\ worker'[w].pc = "succeed" /\ worker'[w].token = t
  /\ worker'[w].op = worker[w].op
  /\ Live(t) /\ tokens[t].lock = Nobody
  /\ tokens' = [tokens EXCEPT ![t].lock = w]
  /\ UNCHANGED <<userLock, links, revoked>>

Rotates(w, t) ==
  /\ Moves(w) /\ worker[w].pc = "succeed" /\ worker[w].token = t
  /\ worker'[w] = Idle /\ worker[w].op \in TokenOps
  /\ tokens' = [tokens EXCEPT ![t].live = FALSE, ![t].lock = Nobody,
                              ![Fresh(MadeTokens)] = NewToken(w, t)]
  /\ UNCHANGED <<userLock, links, revoked>>

\* A token that nobody holds is revoked.
Withdraws(w, t) ==
  /\ Moves(w) /\ HoldsNothing(worker[w]) /\ worker'[w] = Idle
  /\ tokens[t].lock = Nobody
  /\ tokens' = [tokens EXCEPT ![t].live = FALSE]
  /\ UNCHANGED <<userLock, links, revoked>>

\* A transaction gets the row of the user, or finds that it may not.
Enters(w) ==
  /\ Moves(w) /\ worker[w].pc = "overwrite" /\ worker'[w].pc = "commit"
  /\ worker'[w].link = worker[w].link /\ worker'[w].op = worker[w].op
  /\ worker'[w].sees = SessionsSeen
  /\ userLock = Nobody /\ userLock' = w
  /\ UNCHANGED <<tokens, links, revoked>>

GivesUp(w, l) ==
  /\ Moves(w) /\ worker[w].pc = "overwrite" /\ worker[w].link = l
  /\ worker'[w] = Idle
  /\ links' = [links EXCEPT ![l].lock = Nobody]
  /\ UNCHANGED <<userLock, tokens, revoked>>

Ends(w) == Moves(w) /\ worker'[w] = Idle /\ Commit(w)

\* The open links are taken, and replaced by a new one.
Collects(w) ==
  /\ Moves(w) /\ worker[w].pc = "withdraw" /\ worker'[w].pc = "issue"
  /\ worker'[w].op = worker[w].op
  /\ worker'[w].sees \subseteq MadeLinks
  /\ \A l \in worker'[w].sees : links[l].lock = Nobody
  /\ links' = [l \in Links |-> IF l \in worker'[w].sees
                 THEN [links[l] EXCEPT !.lock = w] ELSE links[l]]
  /\ UNCHANGED <<userLock, tokens, revoked>>

Replaces(w) == Moves(w) /\ worker'[w] = Idle /\ Issue(w)

\* A link that was not used is claimed.
Claims(w, l) ==
  /\ Moves(w) /\ HoldsNothing(worker[w])
  /\ worker'[w].pc = "overwrite" /\ worker'[w].link = l
  /\ worker'[w].op = worker[w].op
  /\ links[l].made /\ ~links[l].used /\ links[l].lock = Nobody
  /\ links' = [links EXCEPT ![l].lock = w]
  /\ UNCHANGED <<userLock, tokens, revoked>>

Stops(w) == Moves(w) /\ worker'[w] = Idle /\ Abort(w)

\* No request moves.
Rests == UNCHANGED <<userLock, tokens, links, revoked, worker, room>>

Kind(w) ==
  \/ Quiet(w) \/ Makes(w) \/ Enters(w) \/ Ends(w) \/ Collects(w)
  \/ Replaces(w) \/ Stops(w)
  \/ \E t \in Tokens : Takes(w, t) \/ Rotates(w, t) \/ Withdraws(w, t)
  \/ \E l \in Links : GivesUp(w, l) \/ Claims(w, l)

\* The bounds of a behaviour are numbers.
LEMMA RoomTyped ==
  ASSUME TypeOK
  PROVE  /\ room.tokens \in Nat /\ room.links \in Nat
         /\ room.revocations \in Nat /\ MaxTime \in Nat
         /\ LinkTTL \in Nat \ {0} /\ Nobody \notin Workers
BY SessionsAssumption DEF TypeOK

\* A request that is set to r, and one that goes on at pc.
LEMMA BecomesMoves ==
  ASSUME WorkersTyped, NEW w \in Workers, NEW r \in RequestType, InPhase(r),
         Becomes(w, r), room' = room
  PROVE  Moves(w) /\ worker'[w] = r
<1>1. worker' = [worker EXCEPT ![w] = r] /\ worker \in [Workers -> RequestType]
  BY DEF Becomes, WorkersTyped
<1>2. worker' \in [Workers -> RequestType] /\ worker'[w] = r
  BY <1>1
<1>3. \A v \in Workers : v # w => worker'[v] = worker[v]
  BY <1>1
<1> QED BY <1>2, <1>3 DEF Moves

LEMMA GoesMoves ==
  ASSUME WorkersTyped, NEW w \in Workers, NEW pc \in Steps,
         InPhase([worker[w] EXCEPT !.pc = pc]), GoesTo(w, pc), room' = room
  PROVE  /\ Moves(w)
         /\ worker'[w] = [worker[w] EXCEPT !.pc = pc]
         /\ worker'[w].pc = pc /\ worker'[w].op = worker[w].op
         /\ worker'[w].token = worker[w].token /\ worker'[w].link = worker[w].link
         /\ worker'[w].sees = worker[w].sees
<1> DEFINE r == [worker[w] EXCEPT !.pc = pc]
<1>1. r \in RequestType /\ worker' = [worker EXCEPT ![w] = r]
  BY DEF WorkersTyped, RequestType, GoesTo
<1>2. Moves(w) /\ worker'[w] = r
  BY <1>1, BecomesMoves DEF Becomes
<1>3. /\ r.pc = pc /\ r.op = worker[w].op /\ r.token = worker[w].token
      /\ r.link = worker[w].link /\ r.sees = worker[w].sees
  BY DEF WorkersTyped, RequestType
<1> QED BY <1>2, <1>3

\* A request that rests asks for nothing and holds nothing.
LEMMA IdleIsRequest ==
  ASSUME TypeOK
  PROVE  /\ Idle \in RequestType /\ InPhase(Idle) /\ HoldsNothing(Idle)
         /\ Idle.pc = "idle" /\ Idle.op = "none" /\ Idle.link = None
         /\ Idle.token = None /\ Idle.sees = {}
BY RoomTyped DEF Idle, RequestType, Steps, Operations, InPhase, HoldsNothing

LEMMA ReaderIsRequest ==
  ASSUME TypeOK, NEW op \in Operations, NEW pc \in Steps
  PROVE  /\ Reader(op, pc) \in RequestType /\ Request(op, pc) \in RequestType
         /\ Reader(op, pc).op = op /\ Reader(op, pc).pc = pc
         /\ Request(op, pc).op = op /\ Request(op, pc).pc = pc
         /\ Reader(op, pc).link = None /\ Request(op, pc).link = None
<1>1. Request(op, pc) \in RequestType
  BY IdleIsRequest DEF Request, RequestType
<1>2. revoked \in 0..room.revocations
  BY DEF TypeOK
<1>3. Reader(op, pc) \in RequestType
  BY <1>1, <1>2 DEF Reader, RequestType
<1> QED BY <1>1, <1>3 DEF Reader, Request, Idle

-----------------------------------------------------------------------------
(* Requests that begin.                                                    *)

\* Each of them reads, and writes nothing yet.
LEMMA RegisterDoes ==
  ASSUME TypeOK, WorkersTyped, NEW w \in Workers, Register(w)
  PROVE  Quiet(w)
<1> DEFINE r == Reader("register", "enrol")
<1>1. /\ r \in RequestType /\ r.op = "register" /\ r.pc = "enrol" /\ InPhase(r)
      /\ HoldsNothing(r)
  BY ReaderIsRequest DEF Steps, Operations, InPhase, HoldsNothing
<1>2. Becomes(w, r) /\ room' = room
  BY DEF Register
<1>3. Moves(w) /\ worker'[w] = r
  BY <1>1, <1>2, BecomesMoves
<1>4. HoldsNothing(worker[w])
  BY DEF Register, HoldsNothing
<1>5. RoomFor(r.op) /\ UNCHANGED <<userLock, tokens, links, revoked>>
  BY <1>1 DEF Register, RoomFor, TokenOps, LinkOps, RevokingOps
<1> QED BY <1>1, <1>3, <1>4, <1>5 DEF Quiet

LEMMA LoginDoes ==
  ASSUME TypeOK, WorkersTyped, NEW w \in Workers, Login(w)
  PROVE  Quiet(w)
<1> DEFINE r == Reader("login", "stamp")
<1>1. /\ r \in RequestType /\ r.op = "login" /\ r.pc = "stamp" /\ InPhase(r)
      /\ HoldsNothing(r)
  BY ReaderIsRequest DEF Steps, Operations, InPhase, HoldsNothing
<1>2. Becomes(w, r) /\ room' = room
  BY DEF Login
<1>3. Moves(w) /\ worker'[w] = r
  BY <1>1, <1>2, BecomesMoves
<1>4. HoldsNothing(worker[w])
  BY DEF Login, HoldsNothing
<1>5. RoomFor(r.op) /\ UNCHANGED <<userLock, tokens, links, revoked>>
  BY <1>1 DEF Login, RoomFor, TokenOps, LinkOps, RevokingOps
<1> QED BY <1>1, <1>3, <1>4, <1>5 DEF Quiet

LEMMA RefreshDoes ==
  ASSUME TypeOK, WorkersTyped, NEW w \in Workers, NEW t \in Tokens, Refresh(w, t)
  PROVE  Quiet(w)
<1> DEFINE r == [Reader("refresh", "rotate") EXCEPT !.token = t]
<1>1. /\ r \in RequestType /\ r.op = "refresh" /\ r.pc = "rotate" /\ InPhase(r)
      /\ HoldsNothing(r)
  <2>1. /\ Reader("refresh", "rotate") \in RequestType
        /\ Reader("refresh", "rotate").op = "refresh" /\ Reader("refresh", "rotate").pc = "rotate"
        /\ Reader("refresh", "rotate").link = None
    BY ReaderIsRequest DEF Steps, Operations
  <2> QED BY <2>1 DEF RequestType, InPhase, HoldsNothing, TypeOK
<1>2. Becomes(w, r) /\ room' = room
  BY DEF Refresh
<1>3. Moves(w) /\ worker'[w] = r
  BY <1>1, <1>2, BecomesMoves
<1>4. HoldsNothing(worker[w])
  BY DEF Refresh, HoldsNothing
<1>5. RoomFor(r.op) /\ UNCHANGED <<userLock, tokens, links, revoked>>
  BY <1>1 DEF Refresh, RoomFor, TokenOps, LinkOps, RevokingOps
<1> QED BY <1>1, <1>3, <1>4, <1>5 DEF Quiet

LEMMA LogoutDoes ==
  ASSUME TypeOK, WorkersTyped, NEW w \in Workers, NEW t \in Tokens, Logout(w, t)
  PROVE  Quiet(w)
<1> DEFINE r == [Request("logout", "revoke") EXCEPT !.token = t]
<1>1. /\ r \in RequestType /\ r.op = "logout" /\ r.pc = "revoke" /\ InPhase(r)
      /\ HoldsNothing(r)
  <2>1. /\ Request("logout", "revoke") \in RequestType
        /\ Request("logout", "revoke").op = "logout" /\ Request("logout", "revoke").pc = "revoke"
        /\ Request("logout", "revoke").link = None
    BY ReaderIsRequest DEF Steps, Operations
  <2> QED BY <2>1 DEF RequestType, InPhase, HoldsNothing, TypeOK
<1>2. Becomes(w, r) /\ room' = room
  BY DEF Logout
<1>3. Moves(w) /\ worker'[w] = r
  BY <1>1, <1>2, BecomesMoves
<1>4. HoldsNothing(worker[w])
  BY DEF Logout, HoldsNothing
<1>5. RoomFor(r.op) /\ UNCHANGED <<userLock, tokens, links, revoked>>
  BY <1>1 DEF Logout, RoomFor, TokenOps, LinkOps, RevokingOps
<1> QED BY <1>1, <1>3, <1>4, <1>5 DEF Quiet

LEMMA ChangePasswordDoes ==
  ASSUME TypeOK, WorkersTyped, NEW w \in Workers, ChangePassword(w)
  PROVE  Quiet(w)
<1> DEFINE r == Request("change", "overwrite")
<1>1. /\ r \in RequestType /\ r.op = "change" /\ r.pc = "overwrite" /\ InPhase(r)
      /\ HoldsNothing(r)
  BY ReaderIsRequest DEF Steps, Operations, InPhase, HoldsNothing
<1>2. Becomes(w, r) /\ room' = room
  BY DEF ChangePassword
<1>3. Moves(w) /\ worker'[w] = r
  BY <1>1, <1>2, BecomesMoves
<1>4. HoldsNothing(worker[w])
  BY DEF ChangePassword, HoldsNothing
<1>5. RoomFor(r.op) /\ UNCHANGED <<userLock, tokens, links, revoked>>
  BY <1>1 DEF ChangePassword, RoomFor, TokenOps, LinkOps, RevokingOps
<1> QED BY <1>1, <1>3, <1>4, <1>5 DEF Quiet

LEMMA BlockDoes ==
  ASSUME TypeOK, WorkersTyped, NEW w \in Workers, Block(w)
  PROVE  Quiet(w)
<1> DEFINE r == Request("block", "overwrite")
<1>1. /\ r \in RequestType /\ r.op = "block" /\ r.pc = "overwrite" /\ InPhase(r)
      /\ HoldsNothing(r)
  BY ReaderIsRequest DEF Steps, Operations, InPhase, HoldsNothing
<1>2. Becomes(w, r) /\ room' = room
  BY DEF Block
<1>3. Moves(w) /\ worker'[w] = r
  BY <1>1, <1>2, BecomesMoves
<1>4. HoldsNothing(worker[w])
  BY DEF Block, HoldsNothing
<1>5. RoomFor(r.op) /\ UNCHANGED <<userLock, tokens, links, revoked>>
  BY <1>1 DEF Block, RoomFor, TokenOps, LinkOps, RevokingOps
<1> QED BY <1>1, <1>3, <1>4, <1>5 DEF Quiet

LEMMA ForgotDoes ==
  ASSUME TypeOK, WorkersTyped, NEW w \in Workers, Forgot(w)
  PROVE  Quiet(w)
<1> DEFINE r == [Request("forgot", "withdraw") EXCEPT !.at = now]
<1>1. /\ r \in RequestType /\ r.op = "forgot" /\ r.pc = "withdraw" /\ InPhase(r)
      /\ HoldsNothing(r)
  <2>1. /\ Request("forgot", "withdraw") \in RequestType
        /\ Request("forgot", "withdraw").op = "forgot" /\ Request("forgot", "withdraw").pc = "withdraw"
        /\ Request("forgot", "withdraw").link = None
    BY ReaderIsRequest DEF Steps, Operations
  <2> QED BY <2>1 DEF RequestType, InPhase, HoldsNothing, TypeOK
<1>2. Becomes(w, r) /\ room' = room
  BY DEF Forgot
<1>3. Moves(w) /\ worker'[w] = r
  BY <1>1, <1>2, BecomesMoves
<1>4. HoldsNothing(worker[w])
  BY DEF Forgot, HoldsNothing
<1>5. RoomFor(r.op) /\ UNCHANGED <<userLock, tokens, links, revoked>>
  BY <1>1 DEF Forgot, RoomFor, TokenOps, LinkOps, RevokingOps
<1> QED BY <1>1, <1>3, <1>4, <1>5 DEF Quiet

LEMMA ResetDoes ==
  ASSUME TypeOK, WorkersTyped, NEW w \in Workers, NEW l \in Links, Reset(w, l)
  PROVE  Quiet(w)
<1> DEFINE r == [Request("reset", "claim") EXCEPT !.link = l, !.at = now]
<1>1. /\ r \in RequestType /\ r.op = "reset" /\ r.pc = "claim" /\ InPhase(r)
      /\ HoldsNothing(r)
  <2>1. /\ Request("reset", "claim") \in RequestType
        /\ Request("reset", "claim").op = "reset" /\ Request("reset", "claim").pc = "claim"
        /\ Request("reset", "claim").link = None
    BY ReaderIsRequest DEF Steps, Operations
  <2> QED BY <2>1 DEF RequestType, InPhase, HoldsNothing, TypeOK
<1>2. Becomes(w, r) /\ room' = room
  BY DEF Reset
<1>3. Moves(w) /\ worker'[w] = r
  BY <1>1, <1>2, BecomesMoves
<1>4. HoldsNothing(worker[w])
  BY DEF Reset, HoldsNothing
<1>5. RoomFor(r.op) /\ UNCHANGED <<userLock, tokens, links, revoked>>
  BY <1>1 DEF Reset, RoomFor, TokenOps, LinkOps, RevokingOps
<1> QED BY <1>1, <1>3, <1>4, <1>5 DEF Quiet

-----------------------------------------------------------------------------
(* Requests that are served.                                               *)

\* A request that was refused or has registered holds nothing.
LEMMA EnrolDoes ==
  ASSUME TypeOK, WorkersTyped, NEW w \in Workers, Enrol(w)
  PROVE  Quiet(w)
<1>1. /\ worker[w].pc = "enrol" /\ room' = room
      /\ UNCHANGED <<userLock, tokens, links, revoked>>
      /\ GoesTo(w, "persist") \/ Becomes(w, Idle)
  BY DEF Enrol
<1>2. CASE GoesTo(w, "persist")
  <2>1. /\ InPhase([worker[w] EXCEPT !.pc = "persist"])
        /\ "persist" \in Steps
    BY <1>1, IdleIsRequest DEF WorkersTyped, InPhase, RequestType, Steps
  <2>2. /\ Moves(w) /\ worker'[w].pc = "persist"
        /\ worker'[w].op = worker[w].op
    BY <1>1, <1>2, <2>1, GoesMoves
  <2> QED BY <1>1, <2>2 DEF Quiet, HoldsNothing
<1>3. CASE Becomes(w, Idle)
  <2>1. Moves(w) /\ worker'[w] = Idle
    BY <1>1, <1>3, IdleIsRequest, BecomesMoves
  <2> QED BY <1>1, <2>1, IdleIsRequest DEF Quiet, HoldsNothing
<1> QED BY <1>1, <1>2, <1>3

LEMMA StampDoes ==
  ASSUME TypeOK, WorkersTyped, NEW w \in Workers, Stamp(w)
  PROVE  Quiet(w)
<1>1. /\ worker[w].pc = "stamp" /\ room' = room
      /\ UNCHANGED <<userLock, tokens, links, revoked>> /\ GoesTo(w, "persist")
  BY DEF Stamp
<1>2. InPhase([worker[w] EXCEPT !.pc = "persist"]) /\ "persist" \in Steps
  BY <1>1, IdleIsRequest DEF WorkersTyped, InPhase, RequestType, Steps
<1>3. Moves(w) /\ worker'[w].pc = "persist" /\ worker'[w].op = worker[w].op
  BY <1>1, <1>2, GoesMoves
<1> QED BY <1>1, <1>3 DEF Quiet, HoldsNothing

LEMMA PersistDoes ==
  ASSUME TypeOK, WorkersTyped, NEW w \in Workers, Persist(w)
  PROVE  Makes(w)
<1>1. /\ worker[w].pc = "persist" /\ room' = room /\ Becomes(w, Idle)
  BY DEF Persist
<1>2. Moves(w) /\ worker'[w] = Idle
  BY <1>1, IdleIsRequest, BecomesMoves
<1>3. worker[w].op \in TokenOps /\ HoldsNothing(worker[w])
  BY <1>1, IdleIsRequest DEF WorkersTyped, InPhase, TokenOps, HoldsNothing
<1> QED BY <1>2, <1>3 DEF Makes, Persist

LEMMA RotateDoes ==
  ASSUME TypeOK, WorkersTyped, TokensLocked, NEW w \in Workers, Rotate(w)
  PROVE  Quiet(w) \/ \E t \in Tokens : Takes(w, t)
<1> DEFINE t == worker[w].token
<1>1. /\ worker[w].pc = "rotate" /\ room' = room
      /\ UNCHANGED <<userLock, links, revoked>>
      /\ Free(tokens[t].lock, w)
      /\ \/ /\ Rotatable(t) /\ tokens' = [tokens EXCEPT ![t].lock = w]
            /\ GoesTo(w, "succeed")
         \/ Becomes(w, Idle) /\ UNCHANGED tokens
  BY DEF Rotate
<1>2. t \in Tokens /\ worker[w].op = "refresh" /\ HoldsNothing(worker[w])
  BY <1>1, IdleIsRequest DEF WorkersTyped, InPhase, HoldsNothing
<1>3. CASE /\ Rotatable(t) /\ tokens' = [tokens EXCEPT ![t].lock = w]
           /\ GoesTo(w, "succeed")
  <2>1. InPhase([worker[w] EXCEPT !.pc = "succeed"]) /\ "succeed" \in Steps
    BY <1>1, <1>2, IdleIsRequest DEF WorkersTyped, InPhase, RequestType, Steps
  <2>2. /\ Moves(w) /\ worker'[w].pc = "succeed" /\ worker'[w].token = t
        /\ worker'[w].op = worker[w].op
    BY <1>1, <1>3, <2>1, GoesMoves
  <2>3. tokens[t].lock = Nobody
    BY <1>1, <1>2 DEF Free, TokensLocked, HoldsToken
  <2>4. Live(t)
    BY <1>3 DEF Rotatable
  <2>5. Takes(w, t)
    BY <1>1, <1>2, <1>3, <2>2, <2>3, <2>4 DEF Takes
  <2> QED BY <1>2, <2>5
<1>4. CASE Becomes(w, Idle) /\ UNCHANGED tokens
  <2>1. Moves(w) /\ worker'[w] = Idle
    BY <1>1, <1>4, IdleIsRequest, BecomesMoves
  <2> QED BY <1>1, <1>2, <1>4, <2>1, IdleIsRequest DEF Quiet, HoldsNothing
<1> QED BY <1>1, <1>3, <1>4

LEMMA SucceedDoes ==
  ASSUME TypeOK, WorkersTyped, NEW w \in Workers, Succeed(w)
  PROVE  \E t \in Tokens : Rotates(w, t)
<1> DEFINE t == worker[w].token
<1>1. /\ worker[w].pc = "succeed" /\ room' = room /\ Becomes(w, Idle)
      /\ tokens' = [tokens EXCEPT ![t].live = FALSE, ![t].lock = Nobody,
                                  ![Fresh(MadeTokens)] = NewToken(w, t)]
      /\ UNCHANGED <<userLock, links, revoked>>
  BY DEF Succeed
<1>2. Moves(w) /\ worker'[w] = Idle
  BY <1>1, IdleIsRequest, BecomesMoves
<1>3. worker[w].op \in TokenOps /\ t \in Tokens
  BY <1>1, IdleIsRequest DEF WorkersTyped, InPhase, TokenOps
<1>4. Rotates(w, t)
  BY <1>1, <1>2, <1>3 DEF Rotates
<1> QED BY <1>3, <1>4

LEMMA RevokeDoes ==
  ASSUME TypeOK, WorkersTyped, NEW w \in Workers, Revoke(w)
  PROVE  \E t \in Tokens : Withdraws(w, t)
<1> DEFINE t == worker[w].token
<1>1. /\ worker[w].pc = "revoke" /\ room' = room /\ Becomes(w, Idle)
      /\ tokens[t].lock = Nobody /\ tokens' = [tokens EXCEPT ![t].live = FALSE]
      /\ UNCHANGED <<userLock, links, revoked>>
  BY DEF Revoke
<1>2. Moves(w) /\ worker'[w] = Idle
  BY <1>1, IdleIsRequest, BecomesMoves
<1>3. t \in Tokens /\ HoldsNothing(worker[w])
  BY <1>1, IdleIsRequest DEF WorkersTyped, InPhase, HoldsNothing
<1>4. Withdraws(w, t)
  BY <1>1, <1>2, <1>3 DEF Withdraws
<1> QED BY <1>3, <1>4

LEMMA OverwriteDoes ==
  ASSUME TypeOK, WorkersTyped, NEW w \in Workers, Overwrite(w)
  PROVE  Enters(w) \/ \E l \in Links : GivesUp(w, l)
<1> DEFINE l == worker[w].link
<1> DEFINE r == [worker[w] EXCEPT !.pc = "commit", !.sees = SessionsSeen]
<1>1. /\ worker[w].pc = "overwrite" /\ room' = room /\ userLock = Nobody
      /\ UNCHANGED <<tokens, revoked>>
      /\ \/ /\ userLock' = w /\ UNCHANGED links
            /\ worker' = [worker EXCEPT ![w] = r]
         \/ /\ worker[w].op = "reset" /\ UNCHANGED userLock
            /\ links' = [links EXCEPT ![l].lock = Nobody] /\ Becomes(w, Idle)
  BY DEF Overwrite
<1>2. CASE worker' = [worker EXCEPT ![w] = r] /\ userLock' = w /\ UNCHANGED links
  <2>1. SessionsSeen \subseteq Tokens /\ worker[w] \in RequestType
    BY DEF SessionsSeen, WorkersTyped
  <2>2. /\ r \in RequestType /\ r.pc = "commit" /\ r.sees = SessionsSeen
        /\ r.link = worker[w].link /\ r.op = worker[w].op
    BY <2>1 DEF RequestType, Steps
  <2>3. InPhase(r)
    BY <1>1, <2>2, IdleIsRequest DEF WorkersTyped, InPhase
  <2>4. Moves(w) /\ worker'[w] = r
    BY <1>1, <1>2, <2>2, <2>3, BecomesMoves DEF Becomes
  <2> QED BY <1>1, <1>2, <2>2, <2>4 DEF Enters
<1>3. CASE /\ worker[w].op = "reset" /\ UNCHANGED userLock
           /\ links' = [links EXCEPT ![l].lock = Nobody] /\ Becomes(w, Idle)
  <2>1. l \in Links
    BY <1>1, <1>3, IdleIsRequest DEF WorkersTyped, InPhase
  <2>2. Moves(w) /\ worker'[w] = Idle
    BY <1>1, <1>3, IdleIsRequest, BecomesMoves
  <2>3. GivesUp(w, l)
    BY <1>1, <1>3, <2>2 DEF GivesUp
  <2> QED BY <2>1, <2>3
<1> QED BY <1>1, <1>2, <1>3

LEMMA WithdrawDoes ==
  ASSUME TypeOK, WorkersTyped, NEW w \in Workers, Withdraw(w)
  PROVE  Collects(w)
<1> DEFINE open == {l \in MadeLinks : /\ ~links[l].used
                                      /\ links[l].until > worker[w].at}
<1> DEFINE r == [worker[w] EXCEPT !.pc = "issue", !.sees = open]
<1>1. /\ worker[w].pc = "withdraw" /\ room' = room
      /\ \A l \in open : links[l].lock = Nobody
      /\ links' = [l \in Links |-> IF l \in open
                     THEN [links[l] EXCEPT !.lock = w] ELSE links[l]]
      /\ worker' = [worker EXCEPT ![w] = r]
      /\ UNCHANGED <<userLock, tokens, revoked>>
  BY DEF Withdraw
<1>2. open \subseteq MadeLinks /\ open \subseteq Links
  BY DEF MadeLinks
<1> HIDE DEF open
<1>3. /\ r \in RequestType /\ r.pc = "issue" /\ r.sees = open
      /\ r.link = worker[w].link /\ r.op = worker[w].op
  BY <1>2 DEF WorkersTyped, RequestType, Steps
<1>4. InPhase(r)
  BY <1>1, <1>3, IdleIsRequest DEF WorkersTyped, InPhase
<1>5. Moves(w) /\ worker'[w] = r
  BY <1>1, <1>3, <1>4, BecomesMoves DEF Becomes
<1> QED BY <1>1, <1>2, <1>3, <1>5 DEF Collects

LEMMA ClaimDoes ==
  ASSUME TypeOK, WorkersTyped, LinksLocked, LinksMade, NEW w \in Workers, Claim(w)
  PROVE  Quiet(w) \/ \E l \in Links : Claims(w, l)
<1> DEFINE l == worker[w].link
<1>1. /\ worker[w].pc = "claim" /\ room' = room
      /\ UNCHANGED <<userLock, tokens, revoked>>
      /\ Free(links[l].lock, w)
      /\ \/ /\ Claimable(w) /\ links' = [links EXCEPT ![l].lock = w]
            /\ GoesTo(w, "overwrite")
         \/ Becomes(w, Idle) /\ UNCHANGED links
  BY DEF Claim
<1>2. l \in Links /\ worker[w].op = "reset" /\ HoldsNothing(worker[w])
  BY <1>1, IdleIsRequest DEF WorkersTyped, InPhase, HoldsNothing
<1>3. CASE /\ Claimable(w) /\ links' = [links EXCEPT ![l].lock = w]
           /\ GoesTo(w, "overwrite")
  <2>1. InPhase([worker[w] EXCEPT !.pc = "overwrite"]) /\ "overwrite" \in Steps
    BY <1>1, <1>2, IdleIsRequest DEF WorkersTyped, InPhase, RequestType, Steps
  <2>2. /\ Moves(w) /\ worker'[w].pc = "overwrite" /\ worker'[w].link = l
        /\ worker'[w].op = worker[w].op
    BY <1>1, <1>3, <2>1, GoesMoves
  <2>3. links[l].lock = Nobody
    BY <1>1, <1>2 DEF Free, LinksLocked, HoldsLink
  <2>4. ~links[l].used /\ links[l].until > worker[w].at /\ worker[w].at \in Nat
    BY <1>3, RoomTyped DEF Claimable, WorkersTyped, RequestType
  <2>5. links[l].made
    BY <1>2, <2>4 DEF LinksMade
  <2>6. Claims(w, l)
    BY <1>1, <1>2, <1>3, <2>2, <2>3, <2>4, <2>5 DEF Claims
  <2> QED BY <1>2, <2>6
<1>4. CASE Becomes(w, Idle) /\ UNCHANGED links
  <2>1. Moves(w) /\ worker'[w] = Idle
    BY <1>1, <1>4, IdleIsRequest, BecomesMoves
  <2> QED BY <1>1, <1>2, <1>4, <2>1, IdleIsRequest DEF Quiet, HoldsNothing
<1> QED BY <1>1, <1>3, <1>4

\* A transaction that commits, and a request that ends where it stands.
LEMMA LastDoes ==
  ASSUME TypeOK, WorkersTyped, NEW w \in Workers
  PROVE  /\ Commit(w) => Ends(w)
         /\ Issue(w) => Replaces(w)
         /\ Abort(w) => Stops(w)
<1>1. Becomes(w, Idle) /\ room' = room => Moves(w) /\ worker'[w] = Idle
  BY IdleIsRequest, BecomesMoves
<1>2. Commit(w) => Becomes(w, Idle) /\ room' = room
  BY DEF Commit
<1>3. Issue(w) => Becomes(w, Idle) /\ room' = room
  BY DEF Issue
<1>4. Abort(w) => Becomes(w, Idle) /\ room' = room
  BY DEF Abort
<1> QED BY <1>1, <1>2, <1>3, <1>4 DEF Ends, Replaces, Stops

\* Every step is of one of these kinds.
LEMMA EveryStep ==
  ASSUME IInv, [Next]_vars
  PROVE  Rests \/ \E w \in Workers : Kind(w)
<1>1. CASE Unblock \/ Tick \/ UNCHANGED vars
  BY <1>1 DEF Unblock, Tick, vars, Rests
<1>2. ASSUME NEW w \in Workers,
             Register(w) \/ Login(w) \/ ChangePassword(w) \/ Block(w) \/ Forgot(w)
      PROVE  Kind(w)
  BY <1>2, RegisterDoes, LoginDoes, ChangePasswordDoes, BlockDoes, ForgotDoes
  DEF Kind, IInv
<1>3. ASSUME NEW w \in Workers, NEW t \in Tokens, Refresh(w, t) \/ Logout(w, t)
      PROVE  Kind(w)
  BY <1>3, RefreshDoes, LogoutDoes DEF Kind, IInv
<1>4. ASSUME NEW w \in Workers, NEW l \in Links, Reset(w, l) PROVE Kind(w)
  BY <1>4, ResetDoes DEF Kind, IInv
<1>5. ASSUME NEW w \in Workers, Serve(w) PROVE Kind(w)
  <2>1. CASE Enrol(w) \/ Stamp(w) \/ Persist(w)
    BY <2>1, EnrolDoes, StampDoes, PersistDoes DEF Kind, IInv
  <2>2. CASE Rotate(w) \/ Succeed(w) \/ Revoke(w)
    BY <2>2, RotateDoes, SucceedDoes, RevokeDoes DEF Kind, IInv
  <2>3. CASE Overwrite(w) \/ Commit(w)
    BY <2>3, OverwriteDoes, LastDoes DEF Kind, IInv
  <2>4. CASE Withdraw(w) \/ Issue(w) \/ Claim(w)
    BY <2>4, WithdrawDoes, LastDoes, ClaimDoes DEF Kind, IInv
  <2> QED BY <1>5, <2>1, <2>2, <2>3, <2>4 DEF Serve
<1>6. ASSUME NEW w \in Workers, Abort(w) PROVE Kind(w)
  BY <1>6, LastDoes DEF Kind, IInv
<1> QED BY <1>1, <1>2, <1>3, <1>4, <1>5, <1>6 DEF Next

-----------------------------------------------------------------------------
(* How many requests are busy, and which row is the next.                  *)

\* Requests in flight are finitely many.
LEMMA BusyIsNumber ==
  ASSUME NEW ops
  PROVE  Busy(ops) \in Nat /\ Busy(ops)' \in Nat
<1>1. IsFiniteSet({w \in Workers : worker[w].op \in ops})
  BY SessionsAssumption, FS_Subset
<1>2. IsFiniteSet({w \in Workers : worker'[w].op \in ops})
  BY SessionsAssumption, FS_Subset
<1>3. Busy(ops) \in Nat
  BY <1>1, FS_CardinalityType DEF Busy
<1>4. Cardinality({w \in Workers : worker'[w].op \in ops}) \in Nat
  BY <1>2, FS_CardinalityType
<1> QED BY <1>3, <1>4 DEF Busy

\* A request that is busy counts.
LEMMA BusyCounts ==
  ASSUME NEW ops, NEW w \in Workers, worker[w].op \in ops
  PROVE  Busy(ops) >= 1
<1> DEFINE S == {v \in Workers : worker[v].op \in ops}
<1>1. IsFiniteSet(S) /\ S # {}
  BY SessionsAssumption, FS_Subset
<1>2. Cardinality(S) \in Nat /\ Cardinality(S) # 0
  BY <1>1, FS_CardinalityType, FS_EmptySet
<1> QED BY <1>2 DEF Busy

\* One request that moves: it stays as busy as it was, it ends, or it begins.
LEMMA BusyStays ==
  ASSUME NEW ops, NEW w \in Workers, Moves(w),
         worker'[w].op \in ops => worker[w].op \in ops
  PROVE  Busy(ops)' <= Busy(ops)
<1> DEFINE S == {v \in Workers : worker[v].op \in ops}
<1> DEFINE T == {v \in Workers : worker'[v].op \in ops}
<1>1. T \subseteq S /\ IsFiniteSet(S)
  BY SessionsAssumption, FS_Subset DEF Moves
<1>2. Cardinality(T) <= Cardinality(S)
  BY <1>1, FS_Subset
<1> QED BY <1>2 DEF Busy

LEMMA BusyEnds ==
  ASSUME NEW ops, NEW w \in Workers, Moves(w),
         worker[w].op \in ops, worker'[w].op \notin ops
  PROVE  Busy(ops)' = Busy(ops) - 1
<1> DEFINE S == {v \in Workers : worker[v].op \in ops}
<1> DEFINE T == {v \in Workers : worker'[v].op \in ops}
<1>1. T = S \ {w} /\ w \in S /\ IsFiniteSet(S)
  BY SessionsAssumption, FS_Subset DEF Moves
<1>2. Cardinality(T) = Cardinality(S) - 1
  BY <1>1, FS_RemoveElement
<1> QED BY <1>2 DEF Busy

LEMMA BusyBegins ==
  ASSUME NEW ops, NEW w \in Workers, Moves(w)
  PROVE  Busy(ops)' <= Busy(ops) + 1
<1> DEFINE S == {v \in Workers : worker[v].op \in ops}
<1> DEFINE T == {v \in Workers : worker'[v].op \in ops}
<1>1. /\ T \subseteq S \cup {w} /\ IsFiniteSet(S)
  BY SessionsAssumption, FS_Subset DEF Moves
<1>2. /\ IsFiniteSet(S \cup {w})
      /\ Cardinality(S \cup {w}) <= Cardinality(S) + 1
      /\ Cardinality(S) \in Nat
  BY <1>1, FS_AddElement, FS_CardinalityType, SMTT(20)
<1>3. Cardinality(T) <= Cardinality(S \cup {w}) /\ Cardinality(T) \in Nat
      /\ Cardinality(S \cup {w}) \in Nat
  BY <1>1, <1>2, FS_Subset, FS_CardinalityType
<1>4. Cardinality(T) <= Cardinality(S) + 1
  BY <1>2, <1>3
<1> QED BY <1>4 DEF Busy

\* The rows that are made are finitely many, and the next one is there for a
\* request that makes one.
LEMMA FreshToken ==
  ASSUME TypeOK, TokensMade, RoomEnough
  PROVE  /\ IsFiniteSet(MadeTokens) /\ Cardinality(MadeTokens) \in Nat
         /\ Fresh(MadeTokens) \notin MadeTokens
         /\ \A w \in Workers :
              worker[w].op \in TokenOps => Fresh(MadeTokens) \in Tokens
<1>1. IsFiniteSet(MadeTokens) /\ Cardinality(MadeTokens) \in Nat
  <2>1. IsFiniteSet(Tokens)
    <3>1. 1 \in Int /\ room.tokens \in Int
      BY RoomTyped
    <3>2. IsFiniteSet(1..room.tokens)
      BY <3>1, FS_Interval
    <3> QED BY <3>2 DEF Tokens
  <2>2. MadeTokens \subseteq Tokens
    BY DEF MadeTokens
  <2> QED BY <2>1, <2>2, FS_Subset, FS_CardinalityType
<1>2. Fresh(MadeTokens) \notin MadeTokens
  BY <1>1 DEF Fresh, TokensMade
<1>3. ASSUME NEW w \in Workers, worker[w].op \in TokenOps
      PROVE  Fresh(MadeTokens) \in Tokens
  <2>1. Busy(TokenOps) >= 1 /\ Busy(TokenOps) \in Nat
    BY <1>3, BusyCounts, BusyIsNumber
  <2>2. Cardinality(MadeTokens) + Busy(TokenOps) <= room.tokens
    BY DEF RoomEnough
  <2> QED BY <1>1, <2>1, <2>2, RoomTyped DEF Fresh, Tokens
<1> QED BY <1>1, <1>2, <1>3

LEMMA FreshLink ==
  ASSUME TypeOK, LinksMade, RoomEnough
  PROVE  /\ IsFiniteSet(MadeLinks) /\ Cardinality(MadeLinks) \in Nat
         /\ Fresh(MadeLinks) \notin MadeLinks
         /\ \A w \in Workers :
              worker[w].op \in LinkOps => Fresh(MadeLinks) \in Links
<1>1. IsFiniteSet(MadeLinks) /\ Cardinality(MadeLinks) \in Nat
  <2>1. IsFiniteSet(Links)
    <3>1. 1 \in Int /\ room.links \in Int
      BY RoomTyped
    <3>2. IsFiniteSet(1..room.links)
      BY <3>1, FS_Interval
    <3> QED BY <3>2 DEF Links
  <2>2. MadeLinks \subseteq Links
    BY DEF MadeLinks
  <2> QED BY <2>1, <2>2, FS_Subset, FS_CardinalityType
<1>2. Fresh(MadeLinks) \notin MadeLinks
  BY <1>1 DEF Fresh, LinksMade
<1>3. ASSUME NEW w \in Workers, worker[w].op \in LinkOps
      PROVE  Fresh(MadeLinks) \in Links
  <2>1. Busy(LinkOps) >= 1 /\ Busy(LinkOps) \in Nat
    BY <1>3, BusyCounts, BusyIsNumber
  <2>2. Cardinality(MadeLinks) + Busy(LinkOps) <= room.links
    BY DEF RoomEnough
  <2> QED BY <1>1, <2>1, <2>2, RoomTyped DEF Fresh, Links
<1> QED BY <1>1, <1>2, <1>3

-----------------------------------------------------------------------------
(* What becomes of each token.                                             *)

SameToken(t) ==
  /\ tokens'[t].made = tokens[t].made /\ tokens'[t].parent = tokens[t].parent
  /\ tokens'[t].since = tokens[t].since /\ tokens'[t].stray = tokens[t].stray
  /\ tokens'[t].live => tokens[t].live

\* A token that a step makes: by a login, or as the successor of p.
NewByLogin(w, t) ==
  /\ t = Fresh(MadeTokens) /\ worker'[w] = Idle /\ worker[w].op \in TokenOps
  /\ tokens'[t] = NewToken(w, None)
NewAfter(w, t, p) ==
  /\ t = Fresh(MadeTokens) /\ worker'[w] = Idle /\ worker[w].op \in TokenOps
  /\ tokens'[t] = NewToken(w, p) /\ p # t /\ Live(p) /\ ~tokens'[p].live
  /\ tokens[p].made

\* The row of a new token is of its type.
LEMMA NewTokenTyped ==
  ASSUME TypeOK, WorkersTyped, NEW w \in Workers, NEW p \in Tokens \cup {None}
  PROVE  /\ NewToken(w, p) \in TokenType
         /\ NewToken(w, p).made /\ NewToken(w, p).live
         /\ NewToken(w, p).lock = Nobody /\ NewToken(w, p).parent = p
<1>1. tokens \in [Tokens -> TokenType]
  BY DEF TypeOK, TokenType
<1>2. worker[w].since \in 0..room.revocations
  BY DEF WorkersTyped, RequestType
<1>3. p # None => tokens[p].since \in 0..room.revocations
  BY <1>1 DEF TokenType
<1>4. NewToken(w, p).since \in 0..room.revocations
  BY <1>2, <1>3 DEF NewToken
<1>5. NewToken(w, p).stray \in BOOLEAN
  BY DEF NewToken
<1> QED BY <1>4, <1>5 DEF NewToken, TokenType, Lockers

LEMMA MakesDoes ==
  ASSUME TypeOK, WorkersTyped, TokensMade, HeldIsLive, RoomEnough,
         NEW w \in Workers, Makes(w)
  PROVE  /\ tokens' \in [Tokens -> TokenType]
         /\ \A t \in Tokens : SameToken(t) \/ NewByLogin(w, t)
         /\ \A t \in Tokens : tokens'[t].lock = tokens[t].lock
         /\ \A t \in Tokens : Live(t) => tokens'[t].live
         /\ NewByLogin(w, Fresh(MadeTokens)) /\ Fresh(MadeTokens) \in Tokens
<1> DEFINE f == Fresh(MadeTokens)
<1>1. f \in Tokens /\ f \notin MadeTokens
  BY FreshToken DEF Makes
<1>2. tokens \in [Tokens -> TokenType]
  BY DEF TypeOK, TokenType
<1>3. /\ NewToken(w, None) \in TokenType /\ NewToken(w, None).lock = Nobody
      /\ NewToken(w, None).live
  BY NewTokenTyped
<1> HIDE DEF f
<1>4. /\ tokens' = [tokens EXCEPT ![f] = NewToken(w, None)] /\ worker'[w] = Idle
      /\ worker[w].op \in TokenOps
  BY DEF Makes, f
<1>5. /\ tokens' \in [Tokens -> TokenType] /\ tokens'[f] = NewToken(w, None)
      /\ \A t \in Tokens : t # f => tokens'[t] = tokens[t]
  BY <1>1, <1>2, <1>3, <1>4
<1>6. tokens[f].lock = Nobody
  BY <1>1 DEF MadeTokens, TokensMade, HeldIsLive
<1>7. NewByLogin(w, f)
  BY <1>4, <1>5 DEF NewByLogin, f
<1>8. \A t \in Tokens : SameToken(t) \/ NewByLogin(w, t)
  BY <1>5, <1>7 DEF SameToken
<1>9. \A t \in Tokens : tokens'[t].lock = tokens[t].lock
  BY <1>3, <1>5, <1>6
<1>10. \A t \in Tokens : Live(t) => tokens'[t].live
  BY <1>3, <1>5 DEF Live
<1> QED BY <1>1, <1>5, <1>7, <1>8, <1>9, <1>10 DEF f

LEMMA TakesDoes ==
  ASSUME TypeOK, NEW w \in Workers, NEW t \in Tokens, Takes(w, t)
  PROVE  /\ tokens' \in [Tokens -> TokenType]
         /\ \A s \in Tokens : SameToken(s) /\ tokens'[s].live = tokens[s].live
         /\ tokens'[t].lock = w
         /\ \A s \in Tokens : s # t => tokens'[s].lock = tokens[s].lock
<1>1. tokens \in [Tokens -> TokenType] /\ w \in Lockers
  BY DEF TypeOK, TokenType, Lockers
<1>2. tokens' = [tokens EXCEPT ![t].lock = w]
  BY DEF Takes
<1>3. tokens' \in [Tokens -> TokenType]
  BY <1>1, <1>2 DEF TokenType
<1>4. \A s \in Tokens : s # t => tokens'[s] = tokens[s]
  BY <1>1, <1>2
<1>5. /\ tokens'[t].lock = w /\ tokens'[t].live = tokens[t].live
      /\ SameToken(t)
  BY <1>1, <1>2 DEF TokenType, SameToken
<1> QED BY <1>3, <1>4, <1>5 DEF SameToken

LEMMA WithdrawsDoes ==
  ASSUME TypeOK, NEW w \in Workers, NEW t \in Tokens, Withdraws(w, t)
  PROVE  /\ tokens' \in [Tokens -> TokenType]
         /\ \A s \in Tokens : SameToken(s) /\ tokens'[s].lock = tokens[s].lock
         /\ \A s \in Tokens : s # t => tokens'[s].live = tokens[s].live
<1>1. tokens \in [Tokens -> TokenType]
  BY DEF TypeOK, TokenType
<1>2. tokens' = [tokens EXCEPT ![t].live = FALSE]
  BY DEF Withdraws
<1>3. tokens' \in [Tokens -> TokenType]
  BY <1>1, <1>2 DEF TokenType
<1>4. \A s \in Tokens : s # t => tokens'[s] = tokens[s]
  BY <1>1, <1>2
<1>5. tokens'[t].lock = tokens[t].lock /\ SameToken(t)
  BY <1>1, <1>2 DEF TokenType, SameToken
<1> QED BY <1>3, <1>4, <1>5 DEF SameToken

LEMMA RotatesDoes ==
  ASSUME TypeOK, WorkersTyped, TokensMade, HeldIsLive, TokensLocked, RoomEnough,
         NEW w \in Workers, NEW p \in Tokens, Rotates(w, p)
  PROVE  /\ tokens' \in [Tokens -> TokenType]
         /\ \A t \in Tokens : SameToken(t) \/ NewAfter(w, t, p)
         /\ tokens'[p].lock = Nobody
         /\ \A t \in Tokens : t # p => tokens'[t].lock = tokens[t].lock
         /\ \A t \in Tokens : t # p /\ Live(t) => tokens'[t].live
         /\ Fresh(MadeTokens) \in Tokens
         /\ NewAfter(w, Fresh(MadeTokens), p) /\ SameToken(p)
<1> DEFINE f == Fresh(MadeTokens)
<1> DEFINE n == NewToken(w, p)
<1>1. f \in Tokens /\ f \notin MadeTokens
  BY FreshToken DEF Rotates
<1>2. tokens \in [Tokens -> TokenType]
  BY DEF TypeOK, TokenType
<1>3. n \in TokenType /\ n.lock = Nobody /\ n.live
  BY NewTokenTyped
<1>4. tokens[p].lock = w /\ w # Nobody
  BY RoomTyped DEF Rotates, TokensLocked, HoldsToken
<1>5. Live(p) /\ tokens[p].made /\ p # f
  BY <1>1, <1>4 DEF HeldIsLive, TokensMade, MadeTokens
<1>6. tokens[f].lock = Nobody
  BY <1>1 DEF MadeTokens, TokensMade, HeldIsLive
<1>7. /\ tokens' = [tokens EXCEPT ![p].live = FALSE, ![p].lock = Nobody, ![f] = n]
      /\ worker'[w] = Idle /\ worker[w].op \in TokenOps
  BY DEF Rotates
<1> HIDE DEF f, n
<1> DEFINE old == [tokens[p] EXCEPT !.live = FALSE, !.lock = Nobody]
<1>8. tokens' \in [Tokens -> TokenType]
  <2>1. old \in TokenType
    BY <1>2 DEF TokenType, Lockers
  <2>2. tokens' = [[tokens EXCEPT ![p] = old] EXCEPT ![f] = n]
    BY <1>2, <1>7
  <2> QED BY <1>1, <1>2, <1>3, <2>1, <2>2
<1>9. /\ tokens'[f] = n
      /\ \A t \in Tokens : t # f /\ t # p => tokens'[t] = tokens[t]
  BY <1>1, <1>2, <1>5, <1>7
<1>10. tokens'[p] = old
  BY <1>1, <1>2, <1>5, <1>7
<1>11. tokens'[p].lock = Nobody /\ ~tokens'[p].live /\ SameToken(p)
  BY <1>2, <1>10 DEF TokenType, SameToken
<1>12. NewAfter(w, f, p)
  BY <1>5, <1>7, <1>9, <1>11 DEF NewAfter, f, n
<1>13. \A t \in Tokens : SameToken(t) \/ NewAfter(w, t, p)
  BY <1>9, <1>11, <1>12 DEF SameToken
<1>14. \A t \in Tokens : t # p => tokens'[t].lock = tokens[t].lock
  BY <1>3, <1>6, <1>9
<1>15. \A t \in Tokens : t # p /\ Live(t) => tokens'[t].live
  BY <1>3, <1>9 DEF Live
<1> QED BY <1>1, <1>8, <1>11, <1>12, <1>13, <1>14, <1>15 DEF f

LEMMA EndsDoes ==
  ASSUME TypeOK, NEW w \in Workers, Ends(w)
  PROVE  /\ tokens' \in [Tokens -> TokenType]
         /\ \A t \in Tokens :
              /\ SameToken(t) /\ tokens'[t].lock = tokens[t].lock
              /\ tokens'[t].live <=> Live(t) /\ t \notin worker[w].sees
<1>1. tokens \in [Tokens -> TokenType]
  BY DEF TypeOK, TokenType
<1>2. tokens' = [t \in Tokens |-> [tokens[t] EXCEPT
                   !.live = tokens[t].live /\ t \notin worker[w].sees]]
  BY DEF Ends, Commit
<1>3. ASSUME NEW t \in Tokens
      PROVE  /\ tokens'[t] \in TokenType
             /\ SameToken(t) /\ tokens'[t].lock = tokens[t].lock
             /\ tokens'[t].live <=> Live(t) /\ t \notin worker[w].sees
  <2>1. tokens'[t] = [tokens[t] EXCEPT
                        !.live = tokens[t].live /\ t \notin worker[w].sees]
    BY <1>2
  <2>2. /\ tokens[t] \in TokenType
        /\ (tokens[t].live /\ t \notin worker[w].sees) \in BOOLEAN
    BY <1>1
  <2> QED BY <2>1, <2>2 DEF TokenType, SameToken, Live
<1> QED BY <1>2, <1>3

LEMMA StopsDoes ==
  ASSUME TypeOK, NEW w \in Workers, Stops(w)
  PROVE  /\ tokens' \in [Tokens -> TokenType]
         /\ \A t \in Tokens :
              /\ SameToken(t) /\ tokens'[t].live = tokens[t].live
              /\ tokens'[t].lock =
                   IF tokens[t].lock = w THEN Nobody ELSE tokens[t].lock
<1>1. tokens \in [Tokens -> TokenType]
  BY DEF TypeOK, TokenType
<1>2. tokens' = [t \in Tokens |-> [tokens[t] EXCEPT
                   !.lock = IF tokens[t].lock = w THEN Nobody ELSE tokens[t].lock]]
  BY DEF Stops, Abort
<1>3. ASSUME NEW t \in Tokens
      PROVE  /\ tokens'[t] \in TokenType
             /\ SameToken(t) /\ tokens'[t].live = tokens[t].live
             /\ tokens'[t].lock =
                  IF tokens[t].lock = w THEN Nobody ELSE tokens[t].lock
  <2>1. tokens'[t] = [tokens[t] EXCEPT
          !.lock = IF tokens[t].lock = w THEN Nobody ELSE tokens[t].lock]
    BY <1>2
  <2>2. tokens[t] \in TokenType
    BY <1>1
  <2> QED BY <2>1, <2>2 DEF TokenType, SameToken, Lockers
<1> QED BY <1>2, <1>3

-----------------------------------------------------------------------------
(* What becomes of each link.                                              *)

SameLink(l) ==
  /\ links'[l].made = links[l].made /\ links'[l].used = links[l].used
  /\ links'[l].until = links[l].until /\ links'[l].changes = links[l].changes

LEMMA GivesUpDoes ==
  ASSUME TypeOK, NEW w \in Workers, NEW l \in Links, GivesUp(w, l)
  PROVE  /\ links' \in [Links -> LinkType]
         /\ \A k \in Links : SameLink(k)
         /\ links'[l].lock = Nobody
         /\ \A k \in Links : k # l => links'[k].lock = links[k].lock
<1>1. links \in [Links -> LinkType] /\ Nobody \in Lockers
  BY DEF TypeOK, LinkType, Lockers
<1>2. links' = [links EXCEPT ![l].lock = Nobody]
  BY DEF GivesUp
<1>3. links' \in [Links -> LinkType]
  BY <1>1, <1>2 DEF LinkType
<1>4. \A k \in Links : k # l => links'[k] = links[k]
  BY <1>1, <1>2
<1>5. links'[l].lock = Nobody /\ SameLink(l)
  BY <1>1, <1>2 DEF LinkType, SameLink
<1> QED BY <1>3, <1>4, <1>5 DEF SameLink

LEMMA ClaimsDoes ==
  ASSUME TypeOK, NEW w \in Workers, NEW l \in Links, Claims(w, l)
  PROVE  /\ links' \in [Links -> LinkType]
         /\ \A k \in Links : SameLink(k)
         /\ links'[l].lock = w
         /\ \A k \in Links : k # l => links'[k].lock = links[k].lock
<1>1. links \in [Links -> LinkType] /\ w \in Lockers
  BY DEF TypeOK, LinkType, Lockers
<1>2. links' = [links EXCEPT ![l].lock = w]
  BY DEF Claims
<1>3. links' \in [Links -> LinkType]
  BY <1>1, <1>2 DEF LinkType
<1>4. \A k \in Links : k # l => links'[k] = links[k]
  BY <1>1, <1>2
<1>5. links'[l].lock = w /\ SameLink(l)
  BY <1>1, <1>2 DEF LinkType, SameLink
<1> QED BY <1>3, <1>4, <1>5 DEF SameLink

LEMMA CollectsDoes ==
  ASSUME TypeOK, NEW w \in Workers, Collects(w)
  PROVE  /\ links' \in [Links -> LinkType]
         /\ \A l \in Links :
              /\ SameLink(l)
              /\ links'[l].lock =
                   IF l \in worker'[w].sees THEN w ELSE links[l].lock
<1>1. links \in [Links -> LinkType] /\ w \in Lockers
  BY DEF TypeOK, LinkType, Lockers
<1>2. links' = [l \in Links |-> IF l \in worker'[w].sees
                  THEN [links[l] EXCEPT !.lock = w] ELSE links[l]]
  BY DEF Collects
<1>3. ASSUME NEW l \in Links
      PROVE  /\ links'[l] \in LinkType /\ SameLink(l)
             /\ links'[l].lock =
                  IF l \in worker'[w].sees THEN w ELSE links[l].lock
  <2>1. links[l] \in LinkType
    BY <1>1
  <2>2. CASE l \in worker'[w].sees
    <3>1. links'[l] = [links[l] EXCEPT !.lock = w]
      BY <1>2, <2>2
    <3> QED BY <1>1, <2>1, <2>2, <3>1 DEF LinkType, SameLink
  <2>3. CASE l \notin worker'[w].sees
    <3>1. links'[l] = links[l]
      BY <1>2, <2>3
    <3> QED BY <2>1, <2>3, <3>1 DEF SameLink
  <2> QED BY <2>2, <2>3
<1> QED BY <1>2, <1>3

LEMMA StopsLinks ==
  ASSUME TypeOK, NEW w \in Workers, Stops(w)
  PROVE  /\ links' \in [Links -> LinkType]
         /\ \A l \in Links :
              /\ SameLink(l)
              /\ links'[l].lock =
                   IF links[l].lock = w THEN Nobody ELSE links[l].lock
<1>1. links \in [Links -> LinkType]
  BY DEF TypeOK, LinkType
<1>2. links' = [l \in Links |-> [links[l] EXCEPT
                  !.lock = IF links[l].lock = w THEN Nobody ELSE links[l].lock]]
  BY DEF Stops, Abort
<1>3. ASSUME NEW l \in Links
      PROVE  /\ links'[l] \in LinkType /\ SameLink(l)
             /\ links'[l].lock =
                  IF links[l].lock = w THEN Nobody ELSE links[l].lock
  <2>1. links'[l] = [links[l] EXCEPT
          !.lock = IF links[l].lock = w THEN Nobody ELSE links[l].lock]
    BY <1>2
  <2>2. links[l] \in LinkType
    BY <1>1
  <2> QED BY <2>1, <2>2 DEF LinkType, SameLink, Lockers
<1> QED BY <1>2, <1>3

\* The link of a reset that commits is used, and was not.
LEMMA EndsLinks ==
  ASSUME TypeOK, WorkersTyped, HeldIsUnused, LinkChangesOnce,
         NEW w \in Workers, Ends(w)
  PROVE  /\ links' \in [Links -> LinkType]
         /\ \A l \in Links :
              /\ l # worker[w].link => links'[l] = links[l]
              /\ l = worker[w].link =>
                   /\ links'[l].made = links[l].made
                   /\ links'[l].until = links[l].until
                   /\ links'[l].lock = Nobody
                   /\ links'[l].used /\ links'[l].changes = 1
<1>1. links \in [Links -> LinkType]
  BY DEF TypeOK, LinkType
<1>2. links' = [l \in Links |-> IF l = worker[w].link
                  THEN [links[l] EXCEPT !.used = TRUE, !.lock = Nobody,
                                        !.changes = links[l].changes + 1]
                  ELSE links[l]]
  BY DEF Ends, Commit
<1>3. ASSUME NEW l \in Links, l = worker[w].link
      PROVE  /\ links'[l] \in LinkType
             /\ links'[l].made = links[l].made
             /\ links'[l].until = links[l].until
             /\ links'[l].lock = Nobody
             /\ links'[l].used /\ links'[l].changes = 1
  <2>1. links[l] \in LinkType /\ ~links[l].used
    BY <1>1, <1>3 DEF Ends, Commit, HeldIsUnused
  <2>2. links[l].changes = 0
    <3>1. links[l].changes \in 0..1
      BY <2>1 DEF LinkType
    <3>2. links[l].changes # 1
      BY <2>1 DEF LinkChangesOnce
    <3> QED BY <3>1, <3>2
  <2>3. links'[l] = [links[l] EXCEPT !.used = TRUE, !.lock = Nobody,
                                     !.changes = links[l].changes + 1]
    BY <1>2, <1>3
  <2>4. links[l].changes + 1 = 1
    BY <2>2
  <2>5. links'[l] = [links[l] EXCEPT !.used = TRUE, !.lock = Nobody,
                                     !.changes = 1]
    BY <2>3, <2>4
  <2>6. /\ links'[l].made = links[l].made /\ links'[l].until = links[l].until
        /\ links'[l].lock = Nobody /\ links'[l].used = TRUE
        /\ links'[l].changes = 1
    BY <2>1, <2>5 DEF LinkType
  <2>7. 1 \in 0..1 /\ TRUE \in BOOLEAN /\ Nobody \in Lockers
    BY DEF Lockers
  <2>8. links'[l] \in LinkType
    BY <2>1, <2>5, <2>7 DEF LinkType
  <2> QED BY <2>6, <2>8
<1>4. \A l \in Links : l # worker[w].link => links'[l] = links[l]
  BY <1>2
<1> QED BY <1>1, <1>2, <1>3, <1>4

\* The open links run out, and there is a new one.
LEMMA ReplacesDoes ==
  ASSUME IInv, NEW w \in Workers, Replaces(w)
  PROVE  /\ links' \in [Links -> LinkType]
         /\ Fresh(MadeLinks) \in Links
         /\ \A l \in Links :
              \/ /\ l = Fresh(MadeLinks) /\ ~links[l].made
                 /\ links'[l].made /\ ~links'[l].used /\ links'[l].changes = 0
                 /\ links'[l].lock = Nobody /\ links[l].lock = Nobody
                 /\ l \notin worker[w].sees
              \/ /\ l # Fresh(MadeLinks)
                 /\ links'[l].made = links[l].made
                 /\ links'[l].used = links[l].used
                 /\ links'[l].changes = links[l].changes
                 /\ links'[l].lock =
                      IF l \in worker[w].sees THEN Nobody ELSE links[l].lock
                 /\ l \notin worker[w].sees => links'[l] = links[l]
<1> DEFINE f == Fresh(MadeLinks)
<1> DEFINE r == worker[w]
<1> DEFINE new == [NoLink EXCEPT !.made = TRUE, !.until = r.at + LinkTTL]
<1> DEFINE old == [l \in Links |-> IF l \in r.sees
                     THEN [links[l] EXCEPT !.until = r.at, !.lock = Nobody]
                     ELSE links[l]]
<1>1. links \in [Links -> LinkType] /\ r \in RequestType
  BY DEF IInv, TypeOK, LinkType, WorkersTyped
<1>2. r.pc = "issue" /\ links' = [old EXCEPT ![f] = new]
  BY DEF Replaces, Issue
<1>3. r.op \in LinkOps
  BY <1>2, IdleIsRequest DEF IInv, WorkersTyped, InPhase, LinkOps
<1>4. f \in Links /\ f \notin MadeLinks
  BY <1>3, FreshLink DEF IInv
<1>5. ~links[f].made /\ links[f].lock = Nobody
  BY <1>4 DEF MadeLinks, IInv, LinksMade
<1>6. f \notin r.sees
  <2>1. w # Nobody
    BY RoomTyped DEF IInv
  <2>2. HoldsLink(w, f) => links[f].lock = w
    BY <1>4 DEF IInv, LinksLocked
  <2> QED BY <1>2, <1>5, <2>1, <2>2 DEF HoldsLink
<1>7. r.at \in 0..MaxTime /\ r.at + LinkTTL \in 0..(MaxTime + LinkTTL)
      /\ r.at \in 0..(MaxTime + LinkTTL)
  BY <1>1, RoomTyped DEF IInv, RequestType
<1>8. /\ new \in LinkType /\ new.made /\ ~new.used /\ new.changes = 0
      /\ new.lock = Nobody
  <2>1. /\ NoLink \in LinkType /\ NoLink.changes = 0 /\ NoLink.lock = Nobody
        /\ NoLink.used = FALSE
    BY RoomTyped DEF NoLink, LinkType, Lockers, IInv
  <2> QED BY <1>7, <2>1 DEF LinkType
<1> HIDE DEF f, new
<1>9. ASSUME NEW l \in Links, l \in r.sees
      PROVE  /\ old[l] \in LinkType /\ old[l].made = links[l].made
             /\ old[l].used = links[l].used /\ old[l].changes = links[l].changes
             /\ old[l].lock = Nobody
  <2>1. old[l] = [links[l] EXCEPT !.until = r.at, !.lock = Nobody]
    BY <1>9
  <2> QED BY <1>1, <1>7, <2>1, ZenonT(40) DEF LinkType, Lockers
<1>10. ASSUME NEW l \in Links, l \notin r.sees
       PROVE  old[l] = links[l]
  BY <1>10
<1>11. old \in [Links -> LinkType]
  <2>1. \A l \in Links : old[l] \in LinkType
    BY <1>1, <1>9, <1>10
  <2> QED BY <2>1
<1> HIDE DEF old
<1>12. links' \in [Links -> LinkType]
  BY <1>2, <1>4, <1>8, <1>11
<1>13. links'[f] = new /\ \A l \in Links : l # f => links'[l] = old[l]
  BY <1>2, <1>4, <1>11
<1>14. ASSUME NEW l \in Links, l # f
       PROVE  /\ links'[l].made = links[l].made
              /\ links'[l].used = links[l].used
              /\ links'[l].changes = links[l].changes
              /\ links'[l].lock =
                   IF l \in r.sees THEN Nobody ELSE links[l].lock
              /\ l \notin r.sees => links'[l] = links[l]
  BY <1>9, <1>10, <1>13, <1>14
<1> QED BY <1>4, <1>5, <1>6, <1>8, <1>12, <1>13, <1>14 DEF f

-----------------------------------------------------------------------------
(* What each kind of step keeps.                                           *)

\* The bounds stay, and a request that moves is one of its type.
LEMMA RoomStays ==
  ASSUME NEW w \in Workers, Kind(w)
  PROVE  Moves(w) /\ Tokens' = Tokens /\ Links' = Links /\ room' = room
<1>1. Moves(w)
  BY DEF Kind, Quiet, Makes, Enters, Ends, Collects, Replaces, Stops, Takes,
         Rotates, Withdraws, GivesUp, Claims
<1> QED BY <1>1 DEF Moves, Tokens, Links

LEMMA WorkersKept ==
  ASSUME IInv, NEW w \in Workers, Kind(w)
  PROVE  WorkersTyped'
<1>1. Moves(w) /\ Tokens' = Tokens /\ Links' = Links /\ room' = room
  BY RoomStays
<1>2. RequestType' = RequestType
  BY <1>1 DEF RequestType
<1>3. worker' \in [Workers -> RequestType]
  BY <1>1 DEF Moves
<1>4. \A v \in Workers : InPhase(worker'[v])
  BY <1>1 DEF Moves, IInv, WorkersTyped
<1>5. \A v \in Workers : InPhase(worker[v])'
  BY <1>1, <1>4 DEF InPhase
<1> QED BY <1>2, <1>3, <1>5 DEF WorkersTyped

\* A request that goes to its commit has just got the row of the user.
LEMMA CommitsAfterEntering ==
  ASSUME IInv, NEW w \in Workers, Kind(w), worker'[w].pc = "commit"
  PROVE  Enters(w)
<1>1. Idle.pc = "idle"
  BY DEF Idle
<1> QED BY <1>1 DEF Kind, Quiet, HoldsNothing, Makes, Ends, Collects, Replaces,
             Stops, Takes, Rotates, Withdraws, GivesUp, Claims

\* Every token is as it was but for its lock and its end, or it is new.
TokensMove(w) ==
  /\ tokens' \in [Tokens -> TokenType]
  /\ \A s \in Tokens :
       \/ SameToken(s) \/ NewByLogin(w, s)
       \/ \E p \in Tokens : NewAfter(w, s, p)

LEMMA TokensDo ==
  ASSUME IInv, NEW w \in Workers, Kind(w)
  PROVE  TokensMove(w)
<1>k1. CASE Quiet(w)
  <2>1. tokens' = tokens
    BY <1>k1 DEF Quiet, Enters, Collects, Replaces, Issue, GivesUp, Claims
  <2> QED BY <2>1 DEF IInv, TypeOK, TokenType, SameToken, TokensMove
<1>k2. CASE Makes(w)
  BY <1>k2, MakesDoes DEF IInv, TokensMove
<1>k3. CASE Enters(w)
  <2>1. tokens' = tokens
    BY <1>k3 DEF Quiet, Enters, Collects, Replaces, Issue, GivesUp, Claims
  <2> QED BY <2>1 DEF IInv, TypeOK, TokenType, SameToken, TokensMove
<1>k4. CASE Ends(w)
  BY <1>k4, EndsDoes DEF IInv, TokensMove
<1>k5. CASE Collects(w)
  <2>1. tokens' = tokens
    BY <1>k5 DEF Quiet, Enters, Collects, Replaces, Issue, GivesUp, Claims
  <2> QED BY <2>1 DEF IInv, TypeOK, TokenType, SameToken, TokensMove
<1>k6. CASE Replaces(w)
  <2>1. tokens' = tokens
    BY <1>k6 DEF Quiet, Enters, Collects, Replaces, Issue, GivesUp, Claims
  <2> QED BY <2>1 DEF IInv, TypeOK, TokenType, SameToken, TokensMove
<1>k7. CASE Stops(w)
  BY <1>k7, StopsDoes DEF IInv, TokensMove
<1>k8. ASSUME NEW t \in Tokens, Takes(w, t) PROVE TokensMove(w)
  BY <1>k8, TakesDoes DEF IInv, TokensMove
<1>k9. ASSUME NEW t \in Tokens, Rotates(w, t) PROVE TokensMove(w)
  BY <1>k9, RotatesDoes DEF IInv, TokensMove
<1>k10. ASSUME NEW t \in Tokens, Withdraws(w, t) PROVE TokensMove(w)
  BY <1>k10, WithdrawsDoes DEF IInv, TokensMove
<1>k11. ASSUME NEW l \in Links, GivesUp(w, l) PROVE TokensMove(w)
  <2>1. tokens' = tokens
    BY <1>k11 DEF Quiet, Enters, Collects, Replaces, Issue, GivesUp, Claims
  <2> QED BY <2>1 DEF IInv, TypeOK, TokenType, SameToken, TokensMove
<1>k12. ASSUME NEW l \in Links, Claims(w, l) PROVE TokensMove(w)
  <2>1. tokens' = tokens
    BY <1>k12 DEF Quiet, Enters, Collects, Replaces, Issue, GivesUp, Claims
  <2> QED BY <2>1 DEF IInv, TypeOK, TokenType, SameToken, TokensMove
<1> QED
  BY <1>k1, <1>k2, <1>k3, <1>k4, <1>k5, <1>k6, <1>k7,
     <1>k8, <1>k9, <1>k10, <1>k11, <1>k12 DEF Kind

\* Links keep their type.
LEMMA LinksTyped ==
  ASSUME IInv, NEW w \in Workers, Kind(w)
  PROVE  links' \in [Links -> LinkType]
<1>k1. CASE Quiet(w)
  <2>1. links' = links
    BY <1>k1 DEF Quiet, Makes, Enters, Takes, Rotates, Withdraws
  <2> QED BY <2>1 DEF IInv, TypeOK, LinkType
<1>k2. CASE Makes(w)
  <2>1. links' = links
    BY <1>k2 DEF Quiet, Makes, Enters, Takes, Rotates, Withdraws
  <2> QED BY <2>1 DEF IInv, TypeOK, LinkType
<1>k3. CASE Enters(w)
  <2>1. links' = links
    BY <1>k3 DEF Quiet, Makes, Enters, Takes, Rotates, Withdraws
  <2> QED BY <2>1 DEF IInv, TypeOK, LinkType
<1>k4. CASE Ends(w)
  BY <1>k4, EndsLinks DEF IInv
<1>k5. CASE Collects(w)
  BY <1>k5, CollectsDoes DEF IInv
<1>k6. CASE Replaces(w)
  BY <1>k6, ReplacesDoes
<1>k7. CASE Stops(w)
  BY <1>k7, StopsLinks DEF IInv
<1>k8. ASSUME NEW t \in Tokens, Takes(w, t) PROVE links' \in [Links -> LinkType]
  <2>1. links' = links
    BY <1>k8 DEF Quiet, Makes, Enters, Takes, Rotates, Withdraws
  <2> QED BY <2>1 DEF IInv, TypeOK, LinkType
<1>k9. ASSUME NEW t \in Tokens, Rotates(w, t) PROVE links' \in [Links -> LinkType]
  <2>1. links' = links
    BY <1>k9 DEF Quiet, Makes, Enters, Takes, Rotates, Withdraws
  <2> QED BY <2>1 DEF IInv, TypeOK, LinkType
<1>k10. ASSUME NEW t \in Tokens, Withdraws(w, t) PROVE links' \in [Links -> LinkType]
  <2>1. links' = links
    BY <1>k10 DEF Quiet, Makes, Enters, Takes, Rotates, Withdraws
  <2> QED BY <2>1 DEF IInv, TypeOK, LinkType
<1>k11. ASSUME NEW l \in Links, GivesUp(w, l) PROVE links' \in [Links -> LinkType]
  BY <1>k11, GivesUpDoes DEF IInv
<1>k12. ASSUME NEW l \in Links, Claims(w, l) PROVE links' \in [Links -> LinkType]
  BY <1>k12, ClaimsDoes DEF IInv
<1> QED
  BY <1>k1, <1>k2, <1>k3, <1>k4, <1>k5, <1>k6, <1>k7,
     <1>k8, <1>k9, <1>k10, <1>k11, <1>k12 DEF Kind

\* The row of the user is held by the request that is to commit.
LEMMA UserLockKept ==
  ASSUME IInv, NEW w \in Workers, Kind(w)
  PROVE  UserLocked'
<1>k1. CASE Quiet(w)
  <2>1. userLock' = userLock /\ Moves(w)
    BY <1>k1 DEF Quiet, Makes, Collects, Replaces, Issue, GivesUp, Takes, Rotates,
             Withdraws, Claims
  <2>2. worker[w].pc # "commit" /\ worker'[w].pc # "commit"
    BY <1>k1, IdleIsRequest DEF IInv, Quiet, HoldsNothing, Makes, Collects, Replaces,
      Issue, GivesUp, Takes, Rotates, Withdraws, Claims
  <2> QED BY <2>1, <2>2 DEF IInv, UserLocked, HoldsUser, Moves
<1>k2. CASE Makes(w)
  <2>1. userLock' = userLock /\ Moves(w)
    BY <1>k2 DEF Quiet, Makes, Collects, Replaces, Issue, GivesUp, Takes, Rotates,
             Withdraws, Claims
  <2>2. worker[w].pc # "commit" /\ worker'[w].pc # "commit"
    BY <1>k2, IdleIsRequest DEF IInv, Quiet, HoldsNothing, Makes, Collects, Replaces,
      Issue, GivesUp, Takes, Rotates, Withdraws, Claims
  <2> QED BY <2>1, <2>2 DEF IInv, UserLocked, HoldsUser, Moves
<1>k3. CASE Enters(w)
  <2>1. /\ userLock = Nobody /\ userLock' = w /\ worker'[w].pc = "commit"
        /\ Moves(w)
    BY <1>k3 DEF Enters
  <2> QED BY <2>1, RoomTyped DEF IInv, UserLocked, HoldsUser, Moves
<1>k4. CASE Ends(w)
  <2>1. /\ userLock' = Nobody /\ worker'[w].pc # "commit" /\ Moves(w)
        /\ worker[w].pc = "commit"
    BY <1>k4, IdleIsRequest DEF IInv, Ends, Commit
  <2> QED BY <2>1, RoomTyped DEF IInv, UserLocked, HoldsUser, Moves
<1>k5. CASE Collects(w)
  <2>1. userLock' = userLock /\ Moves(w)
    BY <1>k5 DEF Quiet, Makes, Collects, Replaces, Issue, GivesUp, Takes, Rotates,
             Withdraws, Claims
  <2>2. worker[w].pc # "commit" /\ worker'[w].pc # "commit"
    BY <1>k5, IdleIsRequest DEF IInv, Quiet, HoldsNothing, Makes, Collects, Replaces,
      Issue, GivesUp, Takes, Rotates, Withdraws, Claims
  <2> QED BY <2>1, <2>2 DEF IInv, UserLocked, HoldsUser, Moves
<1>k6. CASE Replaces(w)
  <2>1. userLock' = userLock /\ Moves(w)
    BY <1>k6 DEF Quiet, Makes, Collects, Replaces, Issue, GivesUp, Takes, Rotates,
             Withdraws, Claims
  <2>2. worker[w].pc # "commit" /\ worker'[w].pc # "commit"
    BY <1>k6, IdleIsRequest DEF IInv, Quiet, HoldsNothing, Makes, Collects, Replaces,
      Issue, GivesUp, Takes, Rotates, Withdraws, Claims
  <2> QED BY <2>1, <2>2 DEF IInv, UserLocked, HoldsUser, Moves
<1>k7. CASE Stops(w)
  <2>1. /\ userLock' = IF userLock = w THEN Nobody ELSE userLock
        /\ worker'[w].pc # "commit" /\ Moves(w)
    BY <1>k7, IdleIsRequest DEF IInv, Stops, Abort
  <2> QED BY <2>1, RoomTyped DEF IInv, UserLocked, HoldsUser, Moves
<1>k8. ASSUME NEW t \in Tokens, Takes(w, t) PROVE UserLocked'
  <2>1. userLock' = userLock /\ Moves(w)
    BY <1>k8 DEF Quiet, Makes, Collects, Replaces, Issue, GivesUp, Takes, Rotates,
             Withdraws, Claims
  <2>2. worker[w].pc # "commit" /\ worker'[w].pc # "commit"
    BY <1>k8, IdleIsRequest DEF IInv, Quiet, HoldsNothing, Makes, Collects, Replaces,
      Issue, GivesUp, Takes, Rotates, Withdraws, Claims
  <2> QED BY <2>1, <2>2 DEF IInv, UserLocked, HoldsUser, Moves
<1>k9. ASSUME NEW t \in Tokens, Rotates(w, t) PROVE UserLocked'
  <2>1. userLock' = userLock /\ Moves(w)
    BY <1>k9 DEF Quiet, Makes, Collects, Replaces, Issue, GivesUp, Takes, Rotates,
             Withdraws, Claims
  <2>2. worker[w].pc # "commit" /\ worker'[w].pc # "commit"
    BY <1>k9, IdleIsRequest DEF IInv, Quiet, HoldsNothing, Makes, Collects, Replaces,
      Issue, GivesUp, Takes, Rotates, Withdraws, Claims
  <2> QED BY <2>1, <2>2 DEF IInv, UserLocked, HoldsUser, Moves
<1>k10. ASSUME NEW t \in Tokens, Withdraws(w, t) PROVE UserLocked'
  <2>1. userLock' = userLock /\ Moves(w)
    BY <1>k10 DEF Quiet, Makes, Collects, Replaces, Issue, GivesUp, Takes, Rotates,
             Withdraws, Claims
  <2>2. worker[w].pc # "commit" /\ worker'[w].pc # "commit"
    BY <1>k10, IdleIsRequest DEF IInv, Quiet, HoldsNothing, Makes, Collects, Replaces,
      Issue, GivesUp, Takes, Rotates, Withdraws, Claims
  <2> QED BY <2>1, <2>2 DEF IInv, UserLocked, HoldsUser, Moves
<1>k11. ASSUME NEW l \in Links, GivesUp(w, l) PROVE UserLocked'
  <2>1. userLock' = userLock /\ Moves(w)
    BY <1>k11 DEF Quiet, Makes, Collects, Replaces, Issue, GivesUp, Takes, Rotates,
             Withdraws, Claims
  <2>2. worker[w].pc # "commit" /\ worker'[w].pc # "commit"
    BY <1>k11, IdleIsRequest DEF IInv, Quiet, HoldsNothing, Makes, Collects, Replaces,
      Issue, GivesUp, Takes, Rotates, Withdraws, Claims
  <2> QED BY <2>1, <2>2 DEF IInv, UserLocked, HoldsUser, Moves
<1>k12. ASSUME NEW l \in Links, Claims(w, l) PROVE UserLocked'
  <2>1. userLock' = userLock /\ Moves(w)
    BY <1>k12 DEF Quiet, Makes, Collects, Replaces, Issue, GivesUp, Takes, Rotates,
             Withdraws, Claims
  <2>2. worker[w].pc # "commit" /\ worker'[w].pc # "commit"
    BY <1>k12, IdleIsRequest DEF IInv, Quiet, HoldsNothing, Makes, Collects, Replaces,
      Issue, GivesUp, Takes, Rotates, Withdraws, Claims
  <2> QED BY <2>1, <2>2 DEF IInv, UserLocked, HoldsUser, Moves
<1> QED
  BY <1>k1, <1>k2, <1>k3, <1>k4, <1>k5, <1>k6, <1>k7,
     <1>k8, <1>k9, <1>k10, <1>k11, <1>k12 DEF Kind

\* A token is held by the request that rotates it.
LEMMA TokenLocksKept ==
  ASSUME IInv, NEW w \in Workers, Kind(w)
  PROVE  TokensLocked'
<1>0. Moves(w) /\ Tokens' = Tokens
  BY RoomStays
<1>k1. CASE Quiet(w)
  <2>1. \A s \in Tokens : tokens'[s].lock = tokens[s].lock
    BY <1>k1 DEF Quiet, Enters, Collects, Replaces, Issue, GivesUp, Claims
  <2>2. worker[w].pc # "succeed" /\ worker'[w].pc # "succeed"
    BY <1>k1, IdleIsRequest DEF IInv, Quiet, HoldsNothing, Makes, Enters, Ends, Commit,
      Collects, Replaces, Issue, GivesUp, Withdraws, Claims
  <2> QED BY <2>1, <2>2, <1>0 DEF IInv, TokensLocked, HoldsToken, Moves
<1>k2. CASE Makes(w)
  <2>1. \A s \in Tokens : tokens'[s].lock = tokens[s].lock
    BY <1>k2, MakesDoes DEF IInv
  <2>2. worker[w].pc # "succeed" /\ worker'[w].pc # "succeed"
    BY <1>k2, IdleIsRequest DEF IInv, Quiet, HoldsNothing, Makes, Enters, Ends, Commit,
      Collects, Replaces, Issue, GivesUp, Withdraws, Claims
  <2> QED BY <2>1, <2>2, <1>0 DEF IInv, TokensLocked, HoldsToken, Moves
<1>k3. CASE Enters(w)
  <2>1. \A s \in Tokens : tokens'[s].lock = tokens[s].lock
    BY <1>k3 DEF Quiet, Enters, Collects, Replaces, Issue, GivesUp, Claims
  <2>2. worker[w].pc # "succeed" /\ worker'[w].pc # "succeed"
    BY <1>k3, IdleIsRequest DEF IInv, Quiet, HoldsNothing, Makes, Enters, Ends, Commit,
      Collects, Replaces, Issue, GivesUp, Withdraws, Claims
  <2> QED BY <2>1, <2>2, <1>0 DEF IInv, TokensLocked, HoldsToken, Moves
<1>k4. CASE Ends(w)
  <2>1. \A s \in Tokens : tokens'[s].lock = tokens[s].lock
    BY <1>k4, EndsDoes DEF IInv
  <2>2. worker[w].pc # "succeed" /\ worker'[w].pc # "succeed"
    BY <1>k4, IdleIsRequest DEF IInv, Quiet, HoldsNothing, Makes, Enters, Ends, Commit,
      Collects, Replaces, Issue, GivesUp, Withdraws, Claims
  <2> QED BY <2>1, <2>2, <1>0 DEF IInv, TokensLocked, HoldsToken, Moves
<1>k5. CASE Collects(w)
  <2>1. \A s \in Tokens : tokens'[s].lock = tokens[s].lock
    BY <1>k5 DEF Quiet, Enters, Collects, Replaces, Issue, GivesUp, Claims
  <2>2. worker[w].pc # "succeed" /\ worker'[w].pc # "succeed"
    BY <1>k5, IdleIsRequest DEF IInv, Quiet, HoldsNothing, Makes, Enters, Ends, Commit,
      Collects, Replaces, Issue, GivesUp, Withdraws, Claims
  <2> QED BY <2>1, <2>2, <1>0 DEF IInv, TokensLocked, HoldsToken, Moves
<1>k6. CASE Replaces(w)
  <2>1. \A s \in Tokens : tokens'[s].lock = tokens[s].lock
    BY <1>k6 DEF Quiet, Enters, Collects, Replaces, Issue, GivesUp, Claims
  <2>2. worker[w].pc # "succeed" /\ worker'[w].pc # "succeed"
    BY <1>k6, IdleIsRequest DEF IInv, Quiet, HoldsNothing, Makes, Enters, Ends, Commit,
      Collects, Replaces, Issue, GivesUp, Withdraws, Claims
  <2> QED BY <2>1, <2>2, <1>0 DEF IInv, TokensLocked, HoldsToken, Moves
<1>k7. CASE Stops(w)
  <2>1. worker'[w].pc # "succeed"
    BY <1>k7, IdleIsRequest DEF IInv, Stops
  <2>2. \A s \in Tokens : tokens'[s].lock =
          IF tokens[s].lock = w THEN Nobody ELSE tokens[s].lock
    BY <1>k7, StopsDoes DEF IInv
  <2> QED BY <2>1, <2>2, <1>0, RoomTyped
          DEF IInv, TokensLocked, HoldsToken, Moves
<1>k8. ASSUME NEW t \in Tokens, Takes(w, t) PROVE TokensLocked'
  <2>1. /\ worker[w].pc # "succeed" /\ worker'[w].pc = "succeed"
        /\ worker'[w].token = t /\ tokens[t].lock = Nobody
    BY <1>k8 DEF Takes, HoldsNothing
  <2>2. /\ tokens'[t].lock = w
        /\ \A s \in Tokens : s # t => tokens'[s].lock = tokens[s].lock
    BY <1>k8, TakesDoes DEF IInv
  <2> QED BY <2>1, <2>2, <1>0, RoomTyped
          DEF IInv, TokensLocked, HoldsToken, Moves
<1>k9. ASSUME NEW t \in Tokens, Rotates(w, t) PROVE TokensLocked'
  <2>1. /\ worker[w].pc = "succeed" /\ worker'[w].pc # "succeed"
        /\ worker[w].token = t
    BY <1>k9, IdleIsRequest DEF IInv, Rotates
  <2>2. /\ tokens'[t].lock = Nobody
        /\ \A s \in Tokens : s # t => tokens'[s].lock = tokens[s].lock
    BY <1>k9, RotatesDoes DEF IInv
  <2> QED BY <2>1, <2>2, <1>0, RoomTyped
          DEF IInv, TokensLocked, HoldsToken, Moves
<1>k10. ASSUME NEW t \in Tokens, Withdraws(w, t) PROVE TokensLocked'
  <2>1. \A s \in Tokens : tokens'[s].lock = tokens[s].lock
    BY <1>k10, WithdrawsDoes DEF IInv
  <2>2. worker[w].pc # "succeed" /\ worker'[w].pc # "succeed"
    BY <1>k10, IdleIsRequest DEF IInv, Quiet, HoldsNothing, Makes, Enters, Ends, Commit,
      Collects, Replaces, Issue, GivesUp, Withdraws, Claims
  <2> QED BY <2>1, <2>2, <1>0 DEF IInv, TokensLocked, HoldsToken, Moves
<1>k11. ASSUME NEW l \in Links, GivesUp(w, l) PROVE TokensLocked'
  <2>1. \A s \in Tokens : tokens'[s].lock = tokens[s].lock
    BY <1>k11 DEF Quiet, Enters, Collects, Replaces, Issue, GivesUp, Claims
  <2>2. worker[w].pc # "succeed" /\ worker'[w].pc # "succeed"
    BY <1>k11, IdleIsRequest DEF IInv, Quiet, HoldsNothing, Makes, Enters, Ends, Commit,
      Collects, Replaces, Issue, GivesUp, Withdraws, Claims
  <2> QED BY <2>1, <2>2, <1>0 DEF IInv, TokensLocked, HoldsToken, Moves
<1>k12. ASSUME NEW l \in Links, Claims(w, l) PROVE TokensLocked'
  <2>1. \A s \in Tokens : tokens'[s].lock = tokens[s].lock
    BY <1>k12 DEF Quiet, Enters, Collects, Replaces, Issue, GivesUp, Claims
  <2>2. worker[w].pc # "succeed" /\ worker'[w].pc # "succeed"
    BY <1>k12, IdleIsRequest DEF IInv, Quiet, HoldsNothing, Makes, Enters, Ends, Commit,
      Collects, Replaces, Issue, GivesUp, Withdraws, Claims
  <2> QED BY <2>1, <2>2, <1>0 DEF IInv, TokensLocked, HoldsToken, Moves
<1> QED
  BY <1>k1, <1>k2, <1>k3, <1>k4, <1>k5, <1>k6, <1>k7,
     <1>k8, <1>k9, <1>k10, <1>k11, <1>k12 DEF Kind

\* A request that holds nothing holds no link.
LEMMA HoldsNoLink ==
  ASSUME IInv, NEW w \in Workers, Kind(w)
  PROVE  /\ HoldsNothing(worker[w]) \/ worker[w].pc = "succeed" =>
              \A l \in Links : ~HoldsLink(w, l)
         /\ HoldsNothing(worker'[w]) \/ worker'[w].pc = "succeed" =>
              \A l \in Links : ~HoldsLink(w, l)'
         /\ HoldsNothing(Idle)
<1>1. ASSUME NEW l \in Links PROVE l # None
  BY DEF Links, None
<1>3. /\ worker[w].pc = "commit" => ~HoldsNothing(worker[w])
      /\ worker'[w].pc = "commit" => ~HoldsNothing(worker'[w])
  BY DEF HoldsNothing
<1> QED BY <1>1, <1>3, IdleIsRequest DEF IInv, HoldsNothing, HoldsLink

\* The locks of the links follow what one request takes and leaves.
LEMMA LinksFollow ==
  ASSUME IInv, NEW w \in Workers, Kind(w),
         \A k \in Links : links'[k].lock = w <=> HoldsLink(w, k)',
         \A k \in Links : \/ links'[k].lock = links[k].lock
                          \/ /\ links[k].lock \in {w, Nobody}
                             /\ links'[k].lock \in {w, Nobody}
  PROVE  LinksLocked'
<1>1. Links' = Links
  BY RoomStays
<1>2. ASSUME NEW v \in Workers, NEW k \in Links, v # w
      PROVE  links'[k].lock = v <=> HoldsLink(v, k)'
  <2>1. worker'[v] = worker[v]
    BY <1>2, RoomStays DEF Moves
  <2>2. HoldsLink(v, k)' <=> HoldsLink(v, k)
    BY <2>1 DEF HoldsLink
  <2>3. links'[k].lock = v <=> links[k].lock = v
    BY <1>2, RoomTyped DEF IInv
  <2>4. links[k].lock = v <=> HoldsLink(v, k)
    BY DEF IInv, LinksLocked
  <2> QED BY <2>2, <2>3, <2>4
<1>3. \A v \in Workers, k \in Links : links'[k].lock = v <=> HoldsLink(v, k)'
  BY <1>2
<1> QED BY <1>1, <1>3 DEF LinksLocked

\* A link is held by the reset that claimed it or the request that replaces it.
LEMMA LinkLocksKept ==
  ASSUME IInv, NEW w \in Workers, Kind(w)
  PROVE  LinksLocked'
<1>k1. CASE Quiet(w)
  <2>0. Kind(w)
    BY <1>k1 DEF Kind
  <2>1. links' = links
    BY <1>k1 DEF Quiet
  <2>2. /\ HoldsNothing(worker[w]) \/ worker[w].pc = "succeed"
        /\ HoldsNothing(worker'[w]) \/ worker'[w].pc = "succeed"
    BY <1>k1, <2>0, HoldsNoLink DEF Quiet
  <2>3. \A k \in Links : ~HoldsLink(w, k) /\ ~HoldsLink(w, k)'
    BY <2>0, <2>2, HoldsNoLink
  <2>4. \A k \in Links : links[k].lock = w <=> HoldsLink(w, k)
    BY DEF IInv, LinksLocked
  <2> QED BY <2>0, <2>1, <2>3, <2>4, LinksFollow
<1>k2. CASE Makes(w)
  <2>0. Kind(w)
    BY <1>k2 DEF Kind
  <2>1. links' = links
    BY <1>k2 DEF Makes
  <2>2. /\ HoldsNothing(worker[w]) \/ worker[w].pc = "succeed"
        /\ HoldsNothing(worker'[w]) \/ worker'[w].pc = "succeed"
    BY <1>k2, <2>0, HoldsNoLink DEF Makes
  <2>3. \A k \in Links : ~HoldsLink(w, k) /\ ~HoldsLink(w, k)'
    BY <2>0, <2>2, HoldsNoLink
  <2>4. \A k \in Links : links[k].lock = w <=> HoldsLink(w, k)
    BY DEF IInv, LinksLocked
  <2> QED BY <2>0, <2>1, <2>3, <2>4, LinksFollow
<1>k3. CASE Enters(w)
  <2>0. Kind(w)
    BY <1>k3 DEF Kind
  <2>1. links' = links
    BY <1>k3 DEF Enters
  <2>2. /\ worker[w].pc = "overwrite" /\ worker'[w].pc = "commit"
        /\ worker'[w].link = worker[w].link
    BY <1>k3 DEF Enters
  <2>3. \A k \in Links : HoldsLink(w, k)' <=> HoldsLink(w, k)
    BY <2>2 DEF HoldsLink
  <2>4. \A k \in Links : links[k].lock = w <=> HoldsLink(w, k)
    BY DEF IInv, LinksLocked
  <2> QED BY <2>0, <2>1, <2>3, <2>4, LinksFollow
<1>k4. CASE Ends(w)
  <2>0. Kind(w)
    BY <1>k4 DEF Kind
  <2>1. \A k \in Links : links'[k].lock =
          IF k = worker[w].link THEN Nobody ELSE links[k].lock
    BY <1>k4, EndsLinks DEF IInv
  <2>2. \A k \in Links : ~HoldsLink(w, k)'
    BY <1>k4, <2>0, HoldsNoLink DEF Ends
  <2>3. \A k \in Links : links[k].lock = w <=> HoldsLink(w, k)
    BY DEF IInv, LinksLocked
  <2>4. \A k \in Links : HoldsLink(w, k) <=> k = worker[w].link
    BY <1>k4 DEF Ends, Commit, HoldsLink
  <2> QED BY <2>0, <2>1, <2>2, <2>3, <2>4, RoomTyped, LinksFollow DEF IInv
<1>k5. CASE Collects(w)
  <2>0. Kind(w)
    BY <1>k5 DEF Kind
  <2>1. \A k \in Links :
          /\ links'[k].lock =
               IF k \in worker'[w].sees THEN w ELSE links[k].lock
          /\ k \in worker'[w].sees => links[k].lock = Nobody
    BY <1>k5, CollectsDoes DEF IInv, Collects
  <2>2. \A k \in Links : ~HoldsLink(w, k)
    BY <1>k5 DEF Collects, HoldsLink
  <2>3. \A k \in Links : links[k].lock = w <=> HoldsLink(w, k)
    BY DEF IInv, LinksLocked
  <2>4. \A k \in Links : HoldsLink(w, k)' <=> k \in worker'[w].sees
    BY <1>k5 DEF Collects, HoldsLink
  <2> QED BY <2>0, <2>1, <2>2, <2>3, <2>4, RoomTyped, LinksFollow DEF IInv
<1>k6. CASE Replaces(w)
  <2>0. Kind(w)
    BY <1>k6 DEF Kind
  <2>1. \A k \in Links :
          \/ links'[k].lock = Nobody /\ links[k].lock = Nobody /\ k \notin worker[w].sees
          \/ links'[k].lock =
               IF k \in worker[w].sees THEN Nobody ELSE links[k].lock
    BY <1>k6, ReplacesDoes
  <2>2. \A k \in Links : ~HoldsLink(w, k)'
    BY <1>k6, <2>0, HoldsNoLink DEF Replaces
  <2>3. \A k \in Links : links[k].lock = w <=> HoldsLink(w, k)
    BY DEF IInv, LinksLocked
  <2>4. \A k \in Links : HoldsLink(w, k) <=> k \in worker[w].sees
    BY <1>k6 DEF Replaces, Issue, HoldsLink
  <2> QED BY <2>0, <2>1, <2>2, <2>3, <2>4, RoomTyped, LinksFollow DEF IInv
<1>k7. CASE Stops(w)
  <2>0. Kind(w)
    BY <1>k7 DEF Kind
  <2>1. \A k \in Links : links'[k].lock =
          IF links[k].lock = w THEN Nobody ELSE links[k].lock
    BY <1>k7, StopsLinks DEF IInv
  <2>2. \A k \in Links : ~HoldsLink(w, k)'
    BY <1>k7, <2>0, HoldsNoLink DEF Stops
  <2>3. \A k \in Links : links[k].lock = w <=> HoldsLink(w, k)
    BY DEF IInv, LinksLocked
  <2> QED BY <2>0, <2>1, <2>2, <2>3, RoomTyped, LinksFollow DEF IInv
<1>k8. ASSUME NEW t \in Tokens, Takes(w, t) PROVE LinksLocked'
  <2>0. Kind(w)
    BY <1>k8 DEF Kind
  <2>1. links' = links
    BY <1>k8 DEF Takes
  <2>2. /\ HoldsNothing(worker[w]) \/ worker[w].pc = "succeed"
        /\ HoldsNothing(worker'[w]) \/ worker'[w].pc = "succeed"
    BY <1>k8, <2>0, HoldsNoLink DEF Takes
  <2>3. \A k \in Links : ~HoldsLink(w, k) /\ ~HoldsLink(w, k)'
    BY <2>0, <2>2, HoldsNoLink
  <2>4. \A k \in Links : links[k].lock = w <=> HoldsLink(w, k)
    BY DEF IInv, LinksLocked
  <2> QED BY <2>0, <2>1, <2>3, <2>4, LinksFollow
<1>k9. ASSUME NEW t \in Tokens, Rotates(w, t) PROVE LinksLocked'
  <2>0. Kind(w)
    BY <1>k9 DEF Kind
  <2>1. links' = links
    BY <1>k9 DEF Rotates
  <2>2. /\ HoldsNothing(worker[w]) \/ worker[w].pc = "succeed"
        /\ HoldsNothing(worker'[w]) \/ worker'[w].pc = "succeed"
    BY <1>k9, <2>0, HoldsNoLink DEF Rotates
  <2>3. \A k \in Links : ~HoldsLink(w, k) /\ ~HoldsLink(w, k)'
    BY <2>0, <2>2, HoldsNoLink
  <2>4. \A k \in Links : links[k].lock = w <=> HoldsLink(w, k)
    BY DEF IInv, LinksLocked
  <2> QED BY <2>0, <2>1, <2>3, <2>4, LinksFollow
<1>k10. ASSUME NEW t \in Tokens, Withdraws(w, t) PROVE LinksLocked'
  <2>0. Kind(w)
    BY <1>k10 DEF Kind
  <2>1. links' = links
    BY <1>k10 DEF Withdraws
  <2>2. /\ HoldsNothing(worker[w]) \/ worker[w].pc = "succeed"
        /\ HoldsNothing(worker'[w]) \/ worker'[w].pc = "succeed"
    BY <1>k10, <2>0, HoldsNoLink DEF Withdraws
  <2>3. \A k \in Links : ~HoldsLink(w, k) /\ ~HoldsLink(w, k)'
    BY <2>0, <2>2, HoldsNoLink
  <2>4. \A k \in Links : links[k].lock = w <=> HoldsLink(w, k)
    BY DEF IInv, LinksLocked
  <2> QED BY <2>0, <2>1, <2>3, <2>4, LinksFollow
<1>k11. ASSUME NEW l \in Links, GivesUp(w, l) PROVE LinksLocked'
  <2>0. Kind(w)
    BY <1>k11 DEF Kind
  <2>1. /\ links'[l].lock = Nobody
        /\ \A k \in Links : k # l => links'[k].lock = links[k].lock
    BY <1>k11, GivesUpDoes DEF IInv
  <2>2. \A k \in Links : ~HoldsLink(w, k)'
    BY <1>k11, <2>0, HoldsNoLink DEF GivesUp
  <2>3. \A k \in Links : links[k].lock = w <=> HoldsLink(w, k)
    BY DEF IInv, LinksLocked
  <2>4. \A k \in Links : HoldsLink(w, k) <=> k = l
    BY <1>k11 DEF GivesUp, HoldsLink
  <2> QED BY <2>0, <2>1, <2>2, <2>3, <2>4, RoomTyped, LinksFollow DEF IInv
<1>k12. ASSUME NEW l \in Links, Claims(w, l) PROVE LinksLocked'
  <2>0. Kind(w)
    BY <1>k12 DEF Kind
  <2>1. /\ links'[l].lock = w /\ links[l].lock = Nobody
        /\ \A k \in Links : k # l => links'[k].lock = links[k].lock
    BY <1>k12, ClaimsDoes DEF IInv, Claims
  <2>2. \A k \in Links : ~HoldsLink(w, k)
    BY <1>k12, <2>0, HoldsNoLink DEF Claims
  <2>3. \A k \in Links : links[k].lock = w <=> HoldsLink(w, k)
    BY DEF IInv, LinksLocked
  <2>4. \A k \in Links : HoldsLink(w, k)' <=> k = l
    BY <1>k12 DEF Claims, HoldsLink
  <2> QED BY <2>0, <2>1, <2>2, <2>3, <2>4, RoomTyped, LinksFollow DEF IInv
<1> QED
  BY <1>k1, <1>k2, <1>k3, <1>k4, <1>k5, <1>k6, <1>k7,
     <1>k8, <1>k9, <1>k10, <1>k11, <1>k12 DEF Kind

\* What a rotation holds stays live.
LEMMA HeldLiveKept ==
  ASSUME IInv, NEW w \in Workers, Kind(w)
  PROVE  HeldIsLive'
<1>0. Moves(w) /\ Tokens' = Tokens
  BY RoomStays
<1>k1. CASE Quiet(w)
  <2>1. tokens' = tokens
    BY <1>k1 DEF Quiet, Enters, Collects, Replaces, Issue, GivesUp, Claims
  <2> QED BY <2>1, <1>0 DEF IInv, HeldIsLive, Live
<1>k2. CASE Makes(w)
  BY <1>k2, <1>0, MakesDoes DEF IInv, HeldIsLive, Live
<1>k3. CASE Enters(w)
  <2>1. tokens' = tokens
    BY <1>k3 DEF Quiet, Enters, Collects, Replaces, Issue, GivesUp, Claims
  <2> QED BY <2>1, <1>0 DEF IInv, HeldIsLive, Live
<1>k4. CASE Ends(w)
  <2>1. \A t \in worker[w].sees : tokens[t].lock = Nobody
    BY <1>k4 DEF Ends, Commit
  <2> QED BY <1>k4, <1>0, <2>1, EndsDoes DEF IInv, HeldIsLive, Live
<1>k5. CASE Collects(w)
  <2>1. tokens' = tokens
    BY <1>k5 DEF Quiet, Enters, Collects, Replaces, Issue, GivesUp, Claims
  <2> QED BY <2>1, <1>0 DEF IInv, HeldIsLive, Live
<1>k6. CASE Replaces(w)
  <2>1. tokens' = tokens
    BY <1>k6 DEF Quiet, Enters, Collects, Replaces, Issue, GivesUp, Claims
  <2> QED BY <2>1, <1>0 DEF IInv, HeldIsLive, Live
<1>k7. CASE Stops(w)
  BY <1>k7, <1>0, StopsDoes DEF IInv, HeldIsLive, Live
<1>k8. ASSUME NEW t \in Tokens, Takes(w, t) PROVE HeldIsLive'
  BY <1>k8, <1>0, TakesDoes DEF IInv, HeldIsLive, Live, Takes
<1>k9. ASSUME NEW t \in Tokens, Rotates(w, t) PROVE HeldIsLive'
  BY <1>k9, <1>0, RotatesDoes DEF IInv, HeldIsLive, Live
<1>k10. ASSUME NEW t \in Tokens, Withdraws(w, t) PROVE HeldIsLive'
  <2>1. tokens[t].lock = Nobody
    BY <1>k10 DEF Withdraws
  <2> QED BY <1>k10, <1>0, <2>1, WithdrawsDoes DEF IInv, HeldIsLive, Live
<1>k11. ASSUME NEW l \in Links, GivesUp(w, l) PROVE HeldIsLive'
  <2>1. tokens' = tokens
    BY <1>k11 DEF Quiet, Enters, Collects, Replaces, Issue, GivesUp, Claims
  <2> QED BY <2>1, <1>0 DEF IInv, HeldIsLive, Live
<1>k12. ASSUME NEW l \in Links, Claims(w, l) PROVE HeldIsLive'
  <2>1. tokens' = tokens
    BY <1>k12 DEF Quiet, Enters, Collects, Replaces, Issue, GivesUp, Claims
  <2> QED BY <2>1, <1>0 DEF IInv, HeldIsLive, Live
<1> QED
  BY <1>k1, <1>k2, <1>k3, <1>k4, <1>k5, <1>k6, <1>k7,
     <1>k8, <1>k9, <1>k10, <1>k11, <1>k12 DEF Kind

\* What a new token is made of, whoever makes it.
LEMMA NewTokenIs ==
  ASSUME IInv, NEW w \in Workers, Kind(w), NEW t \in Tokens, ~SameToken(t)
  PROVE  /\ t = Fresh(MadeTokens) /\ ~tokens[t].made /\ worker'[w] = Idle
         /\ worker[w].op \in TokenOps
         /\ tokens'[t].made
         /\ userLock # Nobody => tokens'[t].stray
         /\ \/ /\ tokens'[t].parent = None
               /\ tokens'[t].since # revoked => tokens'[t].stray
            \/ \E p \in Tokens :
                 /\ tokens'[t].parent = p /\ p # t
                 /\ Live(p) /\ tokens[p].made /\ ~tokens'[p].live
                 /\ tokens'[t].since = tokens[p].since
                 /\ tokens[p].stray => tokens'[t].stray
<1>1. NewByLogin(w, t) \/ \E p \in Tokens : NewAfter(w, t, p)
  BY TokensDo DEF TokensMove
<1>2. /\ t = Fresh(MadeTokens) /\ worker'[w] = Idle
      /\ worker[w].op \in TokenOps
  BY <1>1 DEF NewByLogin, NewAfter
<1>3. ~tokens[t].made
  BY <1>2, FreshToken DEF IInv, MadeTokens
<1>4. CASE NewByLogin(w, t)
  <2>1. tokens'[t] = NewToken(w, None)
    BY <1>4 DEF NewByLogin
  <2> QED BY <1>2, <1>3, <2>1 DEF NewToken
<1>5. ASSUME NEW p \in Tokens, NewAfter(w, t, p)
      PROVE  /\ tokens'[t].made
             /\ userLock # Nobody => tokens'[t].stray
             /\ tokens'[t].parent = p /\ p # t
             /\ Live(p) /\ tokens[p].made /\ ~tokens'[p].live
             /\ tokens'[t].since = tokens[p].since
             /\ tokens[p].stray => tokens'[t].stray
  <2>1. /\ tokens'[t] = NewToken(w, p) /\ p # t /\ Live(p) /\ ~tokens'[p].live
        /\ tokens[p].made
    BY <1>5 DEF NewAfter
  <2>2. p # None
    BY DEF Tokens, None
  <2> QED BY <2>1, <2>2 DEF NewToken
<1> QED BY <1>1, <1>2, <1>3, <1>4, <1>5

LEMMA MadeStays ==
  ASSUME IInv, NEW w \in Workers, Kind(w)
  PROVE  /\ Tokens' = Tokens
         /\ \A t \in Tokens : tokens[t].made => tokens'[t].made
         /\ \A t \in Tokens : t # Fresh(MadeTokens) => SameToken(t)
<1>1. Tokens' = Tokens
  BY RoomStays
<1>2. \A t \in Tokens : SameToken(t) \/ (t = Fresh(MadeTokens) /\ tokens'[t].made)
  BY NewTokenIs
<1> QED BY <1>1, <1>2 DEF SameToken

LEMMA ParentsKept ==
  ASSUME IInv, NEW w \in Workers, Kind(w)
  PROVE  ParentsMade'
<1>1. SUFFICES ASSUME NEW c \in Tokens, tokens'[c].made
               PROVE  \/ tokens'[c].parent = None
                      \/ /\ tokens'[c].parent \in Tokens
                         /\ tokens'[tokens'[c].parent].made
  BY MadeStays DEF ParentsMade, MadeTokens
<1>2. CASE SameToken(c)
  <2>1. \/ tokens[c].parent = None
        \/ tokens[c].parent \in Tokens /\ tokens[tokens[c].parent].made
    BY <1>1, <1>2 DEF SameToken, IInv, ParentsMade, MadeTokens
  <2> QED BY <1>2, <2>1, MadeStays DEF SameToken
<1>3. CASE ~SameToken(c)
  BY <1>3, NewTokenIs, MadeStays
<1> QED BY <1>2, <1>3

LEMMA ChildlessKept ==
  ASSUME IInv, NEW w \in Workers, Kind(w)
  PROVE  Childless'
<1>1. SUFFICES ASSUME NEW t \in Tokens, tokens'[t].live, NEW c \in Tokens,
                      tokens'[c].made, tokens'[c].parent = t
               PROVE  FALSE
  BY MadeStays DEF Childless, Live, Children, MadeTokens
<1>2. t # None
  BY DEF Tokens, None
<1>3. CASE SameToken(c)
  <2>1. tokens[c].made /\ tokens[c].parent = t
    BY <1>1, <1>3 DEF SameToken
  <2>2. tokens[t].made /\ ~Live(t)
    BY <1>2, <2>1 DEF IInv, ParentsMade, Childless, Children, MadeTokens
  <2>3. SameToken(t)
    BY <2>2, NewTokenIs
  <2> QED BY <1>1, <2>2, <2>3 DEF SameToken, Live
<1>4. CASE ~SameToken(c)
  BY <1>1, <1>2, <1>4, NewTokenIs
<1> QED BY <1>3, <1>4

LEMMA UnseenKept ==
  ASSUME IInv, NEW w \in Workers, Kind(w)
  PROVE  UnseenIsStray'
<1>1. SUFFICES ASSUME NEW v \in Workers, NEW t \in Tokens,
                      worker'[v].pc = "commit", tokens'[t].live,
                      t \notin worker'[v].sees
               PROVE  tokens'[t].stray
  BY MadeStays DEF UnseenIsStray, Live
<1>2. CASE v = w
  <2>1. Enters(w)
    BY <1>1, <1>2, CommitsAfterEntering
  <2>2. worker'[w].sees = SessionsSeen /\ tokens' = tokens
    BY <2>1 DEF Enters
  <2> QED BY <1>1, <1>2, <2>2 DEF SessionsSeen, Live
<1>3. CASE v # w
  <2>1. worker'[v] = worker[v]
    BY <1>3, RoomStays DEF Moves
  <2>2. CASE SameToken(t)
    <3>1. Live(t)
      BY <1>1, <2>2 DEF SameToken, Live
    <3>2. tokens[t].stray
      BY <1>1, <2>1, <3>1 DEF IInv, UnseenIsStray
    <3> QED BY <2>2, <3>2 DEF SameToken
  <2>3. CASE ~SameToken(t)
    <3>1. userLock = v /\ v # Nobody
      BY <1>1, <2>1, RoomTyped DEF IInv, UserLocked, HoldsUser
    <3> QED BY <2>3, <3>1, NewTokenIs
  <2> QED BY <2>2, <2>3
<1> QED BY <1>2, <1>3

\* The number of revocations changes when one commits.
LEMMA RevokedStays ==
  ASSUME IInv, NEW w \in Workers, Kind(w)
  PROVE  revoked' = revoked \/ (Ends(w) /\ revoked' = revoked + 1)
BY DEF Kind, Quiet, Makes, Enters, Ends, Commit, Collects, Replaces, Issue, Stops,
  Abort, Takes, Rotates, Withdraws, GivesUp, Claims

LEMMA RevocationKept ==
  ASSUME IInv, NEW w \in Workers, Kind(w)
  PROVE  RevocationReaches'
<1>1. SUFFICES ASSUME NEW t \in Tokens, tokens'[t].live,
                      tokens'[t].since < revoked'
               PROVE  tokens'[t].stray
  BY MadeStays DEF RevocationReaches, Live
<1>2. CASE Ends(w)
  <2>1. SameToken(t) /\ Live(t) /\ t \notin worker[w].sees
    BY <1>1, <1>2, EndsDoes DEF IInv
  <2>2. worker[w].pc = "commit"
    BY <1>2 DEF Ends, Commit
  <2>3. tokens[t].stray
    BY <2>1, <2>2 DEF IInv, UnseenIsStray
  <2> QED BY <2>1, <2>3 DEF SameToken
<1>3. CASE revoked' = revoked
  <2>1. CASE SameToken(t)
    <3>1. Live(t) /\ tokens[t].since < revoked
      BY <1>1, <1>3, <2>1 DEF SameToken, Live
    <3>2. tokens[t].stray
      BY <3>1 DEF IInv, RevocationReaches
    <3> QED BY <2>1, <3>2 DEF SameToken
  <2>2. CASE ~SameToken(t)
    <3>1. CASE tokens'[t].since # revoked => tokens'[t].stray
      <4>1. tokens'[t].since # revoked
        <5>1. revoked \in Nat
          BY RoomTyped DEF IInv, TypeOK
        <5> QED BY <1>1, <1>3, <5>1
      <4> QED BY <3>1, <4>1
    <3>2. ASSUME NEW p \in Tokens, Live(p),
                 tokens'[t].since = tokens[p].since,
                 tokens[p].stray => tokens'[t].stray
          PROVE  tokens'[t].stray
      <4>1. tokens[p].since < revoked
        BY <1>1, <1>3, <3>2
      <4> QED BY <3>2, <4>1 DEF IInv, RevocationReaches
    <3> QED BY <2>2, <3>1, <3>2, NewTokenIs
  <2> QED BY <2>1, <2>2
<1> QED BY <1>2, <1>3, RevokedStays

\* The tokens that are made after a step.
LEMMA MadeTokensAre ==
  ASSUME IInv, NEW w \in Workers, Kind(w)
  PROVE  \/ MadeTokens' = MadeTokens /\ \A t \in Tokens : SameToken(t)
         \/ /\ MadeTokens' = MadeTokens \cup {Fresh(MadeTokens)}
            /\ worker[w].op \in TokenOps /\ worker'[w] = Idle
            /\ Fresh(MadeTokens) \in Tokens
<1>1. Tokens' = Tokens
  BY RoomStays
<1>2. CASE \A t \in Tokens : SameToken(t)
  <2>1. MadeTokens' = MadeTokens
    BY <1>1, <1>2 DEF MadeTokens, SameToken
  <2> QED BY <1>2, <2>1
<1>3. ASSUME NEW f \in Tokens, ~SameToken(f)
      PROVE  /\ MadeTokens' = MadeTokens \cup {Fresh(MadeTokens)}
             /\ worker[w].op \in TokenOps /\ worker'[w] = Idle
             /\ Fresh(MadeTokens) \in Tokens
  <2>1. /\ f = Fresh(MadeTokens) /\ tokens'[f].made
        /\ worker[w].op \in TokenOps /\ worker'[w] = Idle
    BY <1>3, NewTokenIs
  <2>2. \A t \in Tokens : t # f => tokens'[t].made = tokens[t].made
    BY <2>1, MadeStays DEF SameToken
  <2>3. MadeTokens' = {t \in Tokens : tokens'[t].made}
    BY <1>1 DEF MadeTokens
  <2>4. MadeTokens' = MadeTokens \cup {f}
    BY <2>1, <2>2, <2>3 DEF MadeTokens
  <2> QED BY <2>1, <2>4
<1> QED BY <1>2, <1>3

LEMMA TokensMadeKept ==
  ASSUME IInv, NEW w \in Workers, Kind(w)
  PROVE  TokensMade'
<1>1. ASSUME NEW t \in Tokens, tokens'[t].live PROVE tokens'[t].made
  <2>1. CASE SameToken(t)
    BY <1>1, <2>1 DEF SameToken, IInv, TokensMade, Live
  <2>2. CASE ~SameToken(t)
    BY <2>2, NewTokenIs
  <2> QED BY <2>1, <2>2
<1>2. (MadeTokens = 1..Cardinality(MadeTokens))'
  <2>1. CASE MadeTokens' = MadeTokens
    BY <2>1 DEF IInv, TokensMade
  <2>2. CASE MadeTokens' = MadeTokens \cup {Fresh(MadeTokens)}
    <3>1. /\ IsFiniteSet(MadeTokens) /\ Cardinality(MadeTokens) \in Nat
          /\ Fresh(MadeTokens) \notin MadeTokens
      BY FreshToken DEF IInv
    <3>2. Cardinality(MadeTokens') = Cardinality(MadeTokens) + 1
      BY <2>2, <3>1, FS_AddElement
    <3>3. MadeTokens' = 1..(Cardinality(MadeTokens) + 1)
      BY <2>2, <3>1 DEF IInv, TokensMade, Fresh
    <3> QED BY <3>2, <3>3
  <2> QED BY <2>1, <2>2, MadeTokensAre
<1> QED BY <1>1, <1>2, MadeStays DEF TokensMade, Live

\* What becomes of a link: it stays, it is used, or it is new.
LinkMoves(w, l) ==
  /\ \/ /\ l = Fresh(MadeLinks) /\ ~links[l].made /\ links'[l].made
        /\ ~links'[l].used /\ links'[l].changes = 0
        /\ worker[w].op \in LinkOps /\ worker'[w] = Idle
     \/ /\ links'[l].made = links[l].made
        /\ links'[l].used = links[l].used /\ links'[l].changes = links[l].changes
     \/ /\ links'[l].made = links[l].made /\ links'[l].used
        /\ links'[l].changes = 1 /\ links[l].lock = w /\ worker'[w] = Idle
  /\ ~links'[l].made => links'[l].lock = Nobody /\ links'[l].until = 0

LEMMA LinksDo ==
  ASSUME IInv, NEW w \in Workers, Kind(w)
  PROVE  \A k \in Links : LinkMoves(w, k)
<1>k1. CASE Quiet(w)
  <2>1. \A k \in Links :
          ~links[k].made => links[k].lock = Nobody /\ links[k].until = 0
    BY DEF IInv, LinksMade
  <2> QED BY <1>k1, <2>1 DEF Quiet, LinkMoves
<1>k2. CASE Makes(w)
  <2>1. \A k \in Links :
          ~links[k].made => links[k].lock = Nobody /\ links[k].until = 0
    BY DEF IInv, LinksMade
  <2> QED BY <1>k2, <2>1 DEF Makes, LinkMoves
<1>k3. CASE Enters(w)
  <2>1. \A k \in Links :
          ~links[k].made => links[k].lock = Nobody /\ links[k].until = 0
    BY DEF IInv, LinksMade
  <2> QED BY <1>k3, <2>1 DEF Enters, LinkMoves
<1>k4. CASE Ends(w)
  <2>1. \A k \in Links :
          ~links[k].made => links[k].lock = Nobody /\ links[k].until = 0
    BY DEF IInv, LinksMade
  <2>2. \A k \in Links : k = worker[w].link => links[k].lock = w
    BY <1>k4 DEF Ends, Commit, IInv, LinksLocked, HoldsLink
  <2>3. worker'[w] = Idle
    BY <1>k4 DEF Ends
  <2>4. \A k \in Links :
          /\ k # worker[w].link => links'[k] = links[k]
          /\ k = worker[w].link =>
               /\ links'[k].made = links[k].made
               /\ links'[k].until = links[k].until
               /\ links'[k].lock = Nobody
               /\ links'[k].used /\ links'[k].changes = 1
    BY <1>k4, EndsLinks DEF IInv
  <2> QED BY <2>1, <2>2, <2>3, <2>4 DEF LinkMoves
<1>k5. CASE Collects(w)
  <2>1. \A k \in Links :
          ~links[k].made => links[k].lock = Nobody /\ links[k].until = 0
    BY DEF IInv, LinksMade
  <2>2. \A k \in Links : k \in worker'[w].sees => links[k].made
    BY <1>k5 DEF Collects, MadeLinks
  <2> QED BY <1>k5, <2>1, <2>2, CollectsDoes DEF IInv, SameLink, LinkMoves
<1>k6. CASE Replaces(w)
  <2>1. \A k \in Links :
          ~links[k].made => links[k].lock = Nobody /\ links[k].until = 0
    BY DEF IInv, LinksMade
  <2>2. /\ worker[w].pc = "issue" /\ worker'[w] = Idle
        /\ worker[w].op \in LinkOps /\ w # Nobody
    BY <1>k6, IdleIsRequest, RoomTyped
    DEF Replaces, Issue, IInv, WorkersTyped, InPhase, LinkOps
  <2>3. \A k \in Links : k \in worker[w].sees => links[k].lock = w
    BY <2>2 DEF IInv, LinksLocked, HoldsLink
  <2>4. ASSUME NEW k \in Links PROVE LinkMoves(w, k)
    <3>1. CASE k = Fresh(MadeLinks)
      BY <1>k6, <2>2, <3>1, ReplacesDoes DEF LinkMoves
    <3>2. CASE k # Fresh(MadeLinks)
      <4>1. /\ links'[k].made = links[k].made
            /\ links'[k].used = links[k].used
            /\ links'[k].changes = links[k].changes
            /\ k \notin worker[w].sees => links'[k] = links[k]
        BY <1>k6, <3>2, ReplacesDoes
      <4>2. ~links[k].made => k \notin worker[w].sees
        BY <2>1, <2>2, <2>3
      <4> QED BY <2>1, <4>1, <4>2 DEF LinkMoves
    <3> QED BY <3>1, <3>2
  <2> QED BY <2>4
<1>k7. CASE Stops(w)
  <2>1. \A k \in Links :
          ~links[k].made => links[k].lock = Nobody /\ links[k].until = 0
    BY DEF IInv, LinksMade
  <2> QED BY <1>k7, <2>1, StopsLinks DEF IInv, SameLink, LinkMoves
<1>k8. ASSUME NEW t \in Tokens, Takes(w, t) PROVE \A k \in Links : LinkMoves(w, k)
  <2>1. \A k \in Links :
          ~links[k].made => links[k].lock = Nobody /\ links[k].until = 0
    BY DEF IInv, LinksMade
  <2> QED BY <1>k8, <2>1 DEF Takes, LinkMoves
<1>k9. ASSUME NEW t \in Tokens, Rotates(w, t) PROVE \A k \in Links : LinkMoves(w, k)
  <2>1. \A k \in Links :
          ~links[k].made => links[k].lock = Nobody /\ links[k].until = 0
    BY DEF IInv, LinksMade
  <2> QED BY <1>k9, <2>1 DEF Rotates, LinkMoves
<1>k10. ASSUME NEW t \in Tokens, Withdraws(w, t) PROVE \A k \in Links : LinkMoves(w, k)
  <2>1. \A k \in Links :
          ~links[k].made => links[k].lock = Nobody /\ links[k].until = 0
    BY DEF IInv, LinksMade
  <2> QED BY <1>k10, <2>1 DEF Withdraws, LinkMoves
<1>k11. ASSUME NEW l \in Links, GivesUp(w, l) PROVE \A k \in Links : LinkMoves(w, k)
  <2>1. \A k \in Links :
          ~links[k].made => links[k].lock = Nobody /\ links[k].until = 0
    BY DEF IInv, LinksMade
  <2> QED BY <1>k11, <2>1, GivesUpDoes DEF IInv, SameLink, LinkMoves
<1>k12. ASSUME NEW l \in Links, Claims(w, l) PROVE \A k \in Links : LinkMoves(w, k)
  <2>1. \A k \in Links :
          ~links[k].made => links[k].lock = Nobody /\ links[k].until = 0
    BY DEF IInv, LinksMade
  <2>2. links[l].made
    BY <1>k12 DEF Claims
  <2> QED BY <1>k12, <2>1, <2>2, ClaimsDoes DEF IInv, SameLink, LinkMoves
<1> QED
  BY <1>k1, <1>k2, <1>k3, <1>k4, <1>k5, <1>k6, <1>k7,
     <1>k8, <1>k9, <1>k10, <1>k11, <1>k12 DEF Kind

LEMMA MadeLinksAre ==
  ASSUME IInv, NEW w \in Workers, Kind(w)
  PROVE  \/ MadeLinks' = MadeLinks
         \/ /\ MadeLinks' = MadeLinks \cup {Fresh(MadeLinks)}
            /\ worker[w].op \in LinkOps /\ worker'[w] = Idle
<1>1. MadeLinks' = {l \in Links : links'[l].made}
  BY RoomStays DEF MadeLinks
<1>2. CASE \A l \in Links : links'[l].made = links[l].made
  BY <1>1, <1>2 DEF MadeLinks
<1>3. ASSUME NEW f \in Links, links'[f].made # links[f].made
      PROVE  /\ MadeLinks' = MadeLinks \cup {Fresh(MadeLinks)}
             /\ worker[w].op \in LinkOps /\ worker'[w] = Idle
  <2>1. /\ f = Fresh(MadeLinks) /\ links'[f].made
        /\ worker[w].op \in LinkOps /\ worker'[w] = Idle
    BY <1>3, LinksDo DEF LinkMoves
  <2>2. \A l \in Links : l # f => links'[l].made = links[l].made
    BY <2>1, LinksDo DEF LinkMoves
  <2>3. MadeLinks' = MadeLinks \cup {f}
    BY <1>1, <2>1, <2>2 DEF MadeLinks
  <2> QED BY <2>1, <2>3
<1> QED BY <1>2, <1>3

LEMMA LinksMadeKept ==
  ASSUME IInv, NEW w \in Workers, Kind(w)
  PROVE  LinksMade'
<1>1. \A l \in Links :
        ~links'[l].made => links'[l].lock = Nobody /\ links'[l].until = 0
  BY LinksDo DEF LinkMoves
<1>2. (MadeLinks = 1..Cardinality(MadeLinks))'
  <2>1. CASE MadeLinks' = MadeLinks
    BY <2>1 DEF IInv, LinksMade
  <2>2. CASE MadeLinks' = MadeLinks \cup {Fresh(MadeLinks)}
    <3>1. /\ IsFiniteSet(MadeLinks) /\ Cardinality(MadeLinks) \in Nat
          /\ Fresh(MadeLinks) \notin MadeLinks
      BY FreshLink DEF IInv
    <3>2. Cardinality(MadeLinks') = Cardinality(MadeLinks) + 1
      BY <2>2, <3>1, FS_AddElement
    <3>3. MadeLinks' = 1..(Cardinality(MadeLinks) + 1)
      BY <2>2, <3>1 DEF IInv, LinksMade, Fresh
    <3> QED BY <3>2, <3>3
  <2> QED BY <2>1, <2>2, MadeLinksAre
<1> QED BY <1>1, <1>2, RoomStays DEF LinksMade

\* A link is used by the one change of the password it made.
LEMMA ChangesKept ==
  ASSUME IInv, NEW w \in Workers, Kind(w)
  PROVE  LinkChangesOnce'
<1>1. ASSUME NEW l \in Links
      PROVE  links'[l].changes <= 1 /\ (links'[l].used <=> links'[l].changes = 1)
  BY LinksDo DEF LinkMoves, IInv, LinkChangesOnce
<1> QED BY <1>1, RoomStays DEF LinkChangesOnce

\* The link of a reset that has claimed it is not used by another one.
LEMMA HeldUnusedKept ==
  ASSUME IInv, NEW w \in Workers, Kind(w)
  PROVE  HeldIsUnused'
<1>1. SUFFICES ASSUME NEW v \in Workers, NEW l \in Links,
                      worker'[v].pc \in {"overwrite", "commit"},
                      worker'[v].link = l
               PROVE  ~links'[l].used
  BY RoomStays DEF HeldIsUnused
<1>2. worker'[w] # Idle \/ v # w
  BY <1>1, IdleIsRequest DEF IInv
<1>3. CASE worker[v].pc \in {"overwrite", "commit"} /\ worker[v].link = l
  <2>1. ~links[l].used /\ links[l].lock = v
    BY <1>3 DEF IInv, HeldIsUnused, LinksLocked, HoldsLink
  <2> QED BY <1>2, <2>1, LinksDo DEF LinkMoves
<1>4. CASE ~(worker[v].pc \in {"overwrite", "commit"} /\ worker[v].link = l)
  <2>1. v = w
    BY <1>1, <1>4, RoomStays DEF Moves
  <2>2. \E k \in Links : Claims(w, k)
    <3>1. ~Quiet(w)
      <4>1. l # None
        BY DEF Links, None
      <4> QED BY <1>1, <2>1, <4>1 DEF Quiet, HoldsNothing
    <3>2. ~Enters(w)
      BY <1>1, <1>4, <2>1 DEF Enters
    <3>3. /\ ~Makes(w) /\ ~Ends(w) /\ ~Replaces(w) /\ ~Stops(w)
          /\ \A t \in Tokens : ~Rotates(w, t) /\ ~Withdraws(w, t)
          /\ \A k \in Links : ~GivesUp(w, k)
      BY <1>2, <2>1 DEF Makes, Ends, Replaces, Stops, Rotates, Withdraws, GivesUp
    <3>4. ~Collects(w) /\ \A t \in Tokens : ~Takes(w, t)
      BY <1>1, <2>1 DEF Collects, Takes
    <3> QED BY <3>1, <3>2, <3>3, <3>4 DEF Kind
  <2>3. PICK k \in Links : Claims(w, k)
    BY <2>2
  <2>4. k = l /\ ~links[k].used /\ SameLink(k)
    BY <1>1, <2>1, <2>3, ClaimsDoes DEF Claims, IInv
  <2> QED BY <2>4 DEF SameLink
<1> QED BY <1>3, <1>4

\* What a request turns to: it goes on, it ends, or there is room for it.
LEMMA OpsMove ==
  ASSUME IInv, NEW w \in Workers, Kind(w)
  PROVE  worker'[w].op \in {worker[w].op, "none"} \/ RoomFor(worker'[w].op)
<1>1. worker'[w] = Idle => worker'[w].op = "none"
  BY IdleIsRequest DEF IInv
<1> QED BY <1>1 DEF Kind, Quiet, Makes, Enters, Ends, Collects, Replaces, Stops,
             Takes, Rotates, Withdraws, GivesUp, Claims

\* A kind of row of which one is made at most for a request that ends.
LEMMA RoomSuffices ==
  ASSUME IInv, NEW w \in Workers, Kind(w), NEW ops, NEW made \in Nat,
         NEW made2 \in Nat, NEW bound \in Nat, made + Busy(ops) <= bound,
         "none" \notin ops,
         \/ made2 = made
         \/ made2 = made + 1 /\ worker[w].op \in ops /\ worker'[w] = Idle,
         RoomFor(worker'[w].op) /\ worker'[w].op \in ops => made + Busy(ops) < bound
  PROVE  made2 + Busy(ops)' <= bound
<1>1. Moves(w)
  BY RoomStays
<1>2. Busy(ops) \in Nat /\ Busy(ops)' \in Nat
  BY BusyIsNumber
<1>3. CASE made2 = made + 1 /\ worker[w].op \in ops /\ worker'[w] = Idle
  <2>1. worker'[w].op \notin ops
    BY <1>3, IdleIsRequest DEF IInv
  <2>2. Busy(ops)' = Busy(ops) - 1
    BY <1>1, <1>3, <2>1, BusyEnds
  <2> QED BY <1>2, <1>3, <2>2
<1>4. CASE made2 = made /\ (worker'[w].op \in ops => worker[w].op \in ops)
  <2>1. Busy(ops)' <= Busy(ops)
    BY <1>1, <1>4, BusyStays
  <2> QED BY <1>2, <1>4, <2>1
<1>5. CASE made2 = made /\ worker'[w].op \in ops /\ worker[w].op \notin ops
  <2>1. made + Busy(ops) < bound
    BY <1>5, OpsMove
  <2>2. Busy(ops)' <= Busy(ops) + 1
    BY <1>1, BusyBegins
  <2> QED BY <1>2, <1>5, <2>1, <2>2
<1> QED BY <1>3, <1>4, <1>5

LEMMA RoomKept ==
  ASSUME IInv, NEW w \in Workers, Kind(w)
  PROVE  RoomEnough' /\ revoked' \in 0..room.revocations
<1>1. /\ room.tokens \in Nat /\ room.links \in Nat /\ room.revocations \in Nat
      /\ room' = room
  BY RoomTyped, RoomStays DEF IInv
<1>2. Cardinality(MadeTokens)' + Busy(TokenOps)' <= room.tokens
  <2>1. Cardinality(MadeTokens) \in Nat
    BY FreshToken DEF IInv
  <2>2. \/ Cardinality(MadeTokens)' = Cardinality(MadeTokens)
        \/ /\ Cardinality(MadeTokens)' = Cardinality(MadeTokens) + 1
           /\ worker[w].op \in TokenOps /\ worker'[w] = Idle
    <3>1. /\ IsFiniteSet(MadeTokens) /\ Fresh(MadeTokens) \notin MadeTokens
      BY FreshToken DEF IInv
    <3> QED BY <3>1, MadeTokensAre, FS_AddElement
  <2>3. worker'[w].op \in TokenOps /\ RoomFor(worker'[w].op) =>
          Cardinality(MadeTokens) + Busy(TokenOps) < room.tokens
    BY DEF RoomFor, RoomForToken, TokenOps
  <2>4. Cardinality(MadeTokens) + Busy(TokenOps) <= room.tokens
    BY DEF IInv, RoomEnough
  <2>5. Cardinality(MadeTokens)' \in Nat
    BY <2>1, <2>2
  <2>6. "none" \notin TokenOps
    BY DEF TokenOps
  <2> QED BY <1>1, <2>1, <2>2, <2>3, <2>4, <2>5, <2>6, RoomSuffices
<1>3. Cardinality(MadeLinks)' + Busy(LinkOps)' <= room.links
  <2>1. Cardinality(MadeLinks) \in Nat
    BY FreshLink DEF IInv
  <2>2. \/ Cardinality(MadeLinks)' = Cardinality(MadeLinks)
        \/ /\ Cardinality(MadeLinks)' = Cardinality(MadeLinks) + 1
           /\ worker[w].op \in LinkOps /\ worker'[w] = Idle
    <3>1. /\ IsFiniteSet(MadeLinks) /\ Fresh(MadeLinks) \notin MadeLinks
      BY FreshLink DEF IInv
    <3> QED BY <3>1, MadeLinksAre, FS_AddElement
  <2>3. worker'[w].op \in LinkOps /\ RoomFor(worker'[w].op) =>
          Cardinality(MadeLinks) + Busy(LinkOps) < room.links
    BY DEF RoomFor, RoomForLink, LinkOps
  <2>4. Cardinality(MadeLinks) + Busy(LinkOps) <= room.links
    BY DEF IInv, RoomEnough
  <2>5. Cardinality(MadeLinks)' \in Nat
    BY <2>1, <2>2
  <2>6. "none" \notin LinkOps
    BY DEF LinkOps
  <2> QED BY <1>1, <2>1, <2>2, <2>3, <2>4, <2>5, <2>6, RoomSuffices
<1>4. /\ revoked' + Busy(RevokingOps)' <= room.revocations
      /\ revoked' \in Nat
  <2>1. revoked \in Nat
    BY <1>1 DEF IInv, TypeOK
  <2>2. \/ revoked' = revoked
        \/ /\ revoked' = revoked + 1
           /\ worker[w].op \in RevokingOps /\ worker'[w] = Idle
    <3>1. Ends(w) => worker[w].op \in RevokingOps /\ worker'[w] = Idle
      BY IdleIsRequest DEF Ends, Commit, IInv, WorkersTyped, InPhase, RevokingOps
    <3> QED BY <3>1, RevokedStays
  <2>3. worker'[w].op \in RevokingOps /\ RoomFor(worker'[w].op) =>
          revoked + Busy(RevokingOps) < room.revocations
    BY DEF RoomFor, RoomToRevoke, RevokingOps
  <2>4. revoked + Busy(RevokingOps) <= room.revocations
    BY DEF IInv, RoomEnough
  <2>5. revoked' \in Nat
    BY <2>1, <2>2
  <2>6. "none" \notin RevokingOps
    BY DEF RevokingOps
  <2> QED BY <1>1, <2>1, <2>2, <2>3, <2>4, <2>5, <2>6, RoomSuffices
<1>5. Busy(RevokingOps)' \in Nat
  BY BusyIsNumber
<1> QED BY <1>1, <1>2, <1>3, <1>4, <1>5 DEF RoomEnough

-----------------------------------------------------------------------------
(* The types, and the theorems.                                            *)

\* The clock and the status of the user.
LEMMA ClockKept ==
  ASSUME TypeOK, [Next]_vars
  PROVE  now' \in 0..MaxTime /\ user' \in {"none", "ACTIVE", "BLOCKED"}
<1>1. now \in 0..MaxTime /\ user \in {"none", "ACTIVE", "BLOCKED"}
  BY DEF TypeOK
<1>2. CASE Unblock \/ UNCHANGED vars
  BY <1>1, <1>2 DEF Unblock, vars
<1>3. CASE Tick
  BY <1>1, <1>3, RoomTyped DEF Tick
<1>4. ASSUME NEW w \in Workers,
             Register(w) \/ Login(w) \/ ChangePassword(w) \/ Block(w) \/ Forgot(w)
      PROVE  UNCHANGED <<now, user>>
  BY <1>4 DEF Register, Login, ChangePassword, Block, Forgot
<1>5. ASSUME NEW w \in Workers, NEW t \in Tokens, Refresh(w, t) \/ Logout(w, t)
      PROVE  UNCHANGED <<now, user>>
  BY <1>5 DEF Refresh, Logout
<1>6. ASSUME NEW w \in Workers, NEW l \in Links, Reset(w, l)
      PROVE  UNCHANGED <<now, user>>
  BY <1>6 DEF Reset
<1>7. ASSUME NEW w \in Workers, Serve(w)
      PROVE  now' = now /\ user' \in {"ACTIVE", "BLOCKED", user}
  <2>1. CASE Enrol(w) \/ Stamp(w) \/ Persist(w)
    BY <2>1 DEF Enrol, Stamp, Persist
  <2>2. CASE Rotate(w) \/ Succeed(w) \/ Revoke(w)
    BY <2>2 DEF Rotate, Succeed, Revoke
  <2>3. CASE Overwrite(w)
    BY <2>3 DEF Overwrite
  <2>4. CASE Commit(w)
    BY <2>4 DEF Commit
  <2>5. CASE Withdraw(w) \/ Issue(w) \/ Claim(w)
    BY <2>5 DEF Withdraw, Issue, Claim
  <2> QED BY <1>7, <2>1, <2>2, <2>3, <2>4, <2>5 DEF Serve
<1>8. ASSUME NEW w \in Workers, Abort(w) PROVE UNCHANGED <<now, user>>
  BY <1>8 DEF Abort
<1> QED BY <1>1, <1>2, <1>3, <1>4, <1>5, <1>6, <1>7, <1>8 DEF Next

\* Whoever gets the row of the user is a request.
LEMMA UserLockTyped ==
  ASSUME IInv, NEW w \in Workers, Kind(w)
  PROVE  userLock' \in Lockers
<1>1. userLock \in Lockers /\ w \in Lockers /\ Nobody \in Lockers
  BY DEF IInv, TypeOK, Lockers
<1>2. userLock' \in {userLock, w, Nobody}
  BY DEF Kind, Quiet, Makes, Enters, Ends, Commit, Collects, Replaces, Issue, Stops,
    Abort, Takes, Rotates, Withdraws, GivesUp, Claims
<1> QED BY <1>1, <1>2

LEMMA TypeKept ==
  ASSUME IInv, [Next]_vars, NEW w \in Workers, Kind(w)
  PROVE  TypeOK'
<1>1. room' = room /\ Tokens' = Tokens /\ Links' = Links /\ room \in Rooms
  BY RoomStays DEF IInv, TypeOK
<1>2. now' \in 0..MaxTime /\ user' \in {"none", "ACTIVE", "BLOCKED"}
  BY ClockKept DEF IInv
<1>3. revoked' \in 0..room.revocations
  BY RoomKept
<1>4. userLock' \in Lockers
  BY UserLockTyped
<1>5. tokens' \in [Tokens -> TokenType]
  BY TokensDo DEF TokensMove
<1>6. links' \in [Links -> LinkType]
  BY LinksTyped
<1>7. ASSUME NEW v \in Workers
      PROVE  worker'[v].pc = "idle" <=> worker'[v] = Idle
  <2>1. InPhase(worker'[v])
    BY RoomStays DEF Moves, IInv, WorkersTyped
  <2> QED BY <2>1, IdleIsRequest DEF InPhase, IInv
<1> QED BY <1>1, <1>2, <1>3, <1>4, <1>5, <1>6, <1>7 DEF TypeOK, TokenType, LinkType

\* A step of no request keeps all of it.
LEMMA RestKeeps ==
  ASSUME IInv, [Next]_vars, Rests
  PROVE  IInv'
<1>1. /\ UNCHANGED <<userLock, tokens, links, revoked, worker, room>>
      /\ Tokens' = Tokens /\ Links' = Links
  BY DEF Rests, Tokens, Links
<1>2. TypeOK'
  BY <1>1, ClockKept DEF IInv, TypeOK
<1>3. WorkersTyped'
  BY <1>1 DEF IInv, WorkersTyped, RequestType, InPhase
<1>4. UserLocked' /\ TokensLocked' /\ LinksLocked'
  BY <1>1 DEF IInv, UserLocked, TokensLocked, LinksLocked, HoldsUser, HoldsToken,
    HoldsLink
<1>5. MadeTokens' = MadeTokens /\ MadeLinks' = MadeLinks
  BY <1>1 DEF MadeTokens, MadeLinks
<1>6. HeldIsLive' /\ HeldIsUnused' /\ UnseenIsStray' /\ RevocationReaches'
  BY <1>1 DEF IInv, HeldIsLive, HeldIsUnused, UnseenIsStray, RevocationReaches, Live
<1>7. LinkChangesOnce' /\ TokensMade' /\ LinksMade'
  BY <1>1, <1>5 DEF IInv, LinkChangesOnce, TokensMade, LinksMade, Live
<1>8. Childless' /\ ParentsMade'
  BY <1>1, <1>5 DEF IInv, Childless, ParentsMade, Live, Children
<1>9. RoomEnough'
  BY <1>1, <1>5 DEF IInv, RoomEnough, Busy
<1> QED BY <1>2, <1>3, <1>4, <1>6, <1>7, <1>8, <1>9 DEF IInv

\* Every step keeps the invariant.
LEMMA SessionsStep == IInv /\ [Next]_vars => IInv'
<1> SUFFICES ASSUME IInv, [Next]_vars PROVE IInv'
  OBVIOUS
<1>1. CASE Rests
  BY <1>1, RestKeeps
<1>2. ASSUME NEW w \in Workers, Kind(w) PROVE IInv'
  <2>1. TypeOK' /\ WorkersTyped'
    BY <1>2, TypeKept, WorkersKept, RoomStays
  <2>2. UserLocked' /\ TokensLocked' /\ LinksLocked'
    BY <1>2, UserLockKept, TokenLocksKept, LinkLocksKept
  <2>3. HeldIsLive' /\ HeldIsUnused'
    BY <1>2, HeldLiveKept, HeldUnusedKept
  <2>4. TokensMade' /\ LinksMade' /\ RoomEnough'
    BY <1>2, TokensMadeKept, LinksMadeKept, RoomKept
  <2>5. Childless' /\ ParentsMade' /\ UnseenIsStray'
    BY <1>2, ChildlessKept, ParentsKept, UnseenKept
  <2>6. RevocationReaches' /\ LinkChangesOnce'
    BY <1>2, RevocationKept, ChangesKept
  <2> QED BY <2>1, <2>2, <2>3, <2>4, <2>5, <2>6 DEF IInv
<1> QED BY <1>1, <1>2, EveryStep

\* In the beginning nothing is made, and nobody holds anything.
LEMMA SessionsInit == Init => IInv
<1> SUFFICES ASSUME Init PROVE IInv
  OBVIOUS
<1>1. /\ room \in [tokens : Nat, links : Nat, revocations : Nat]
      /\ MaxTime \in Nat /\ LinkTTL \in Nat \ {0} /\ Nobody \notin Workers
  BY SessionsAssumption DEF Init
<1>2. /\ room.tokens \in Nat /\ room.links \in Nat /\ room.revocations \in Nat
      /\ room \in Rooms /\ now = 0 /\ user = "none" /\ userLock = Nobody
      /\ revoked = 0
  BY <1>1 DEF Init
<1>3. \A w \in Workers : worker[w] = Idle
  BY DEF Init
<1>4. \A t \in Tokens : tokens[t] = NoToken
  BY DEF Init
<1>5. \A l \in Links : links[l] = NoLink
  BY DEF Init
<1>6. NoToken \in TokenType
  BY <1>2 DEF NoToken, TokenType, Lockers
<1>7. NoLink \in LinkType
  BY <1>1 DEF NoLink, LinkType, Lockers
<1>8. TypeOK
  <2>1. tokens \in [Tokens -> TokenType] /\ links \in [Links -> LinkType]
    BY <1>6, <1>7 DEF Init
  <2>2. 0 \in 0..MaxTime /\ 0 \in 0..room.revocations /\ userLock \in Lockers
    BY <1>1, <1>2 DEF Lockers
  <2>3. \A w \in Workers : worker[w].pc = "idle" <=> worker[w] = Idle
    BY <1>3 DEF Idle
  <2> QED BY <1>2, <2>1, <2>2, <2>3 DEF TypeOK, TokenType, LinkType
<1>9. WorkersTyped
  <2>1. Idle \in RequestType /\ InPhase(Idle)
    BY <1>8, IdleIsRequest
  <2> QED BY <1>3, <2>1 DEF Init, WorkersTyped
<1>10. /\ Idle.pc = "idle" /\ Idle.op = "none"
       /\ NoToken.lock = Nobody /\ ~NoToken.live /\ ~NoToken.made
       /\ NoLink.lock = Nobody /\ ~NoLink.made /\ NoLink.until = 0
       /\ ~NoLink.used /\ NoLink.changes = 0
  BY DEF Idle, NoToken, NoLink
<1>11. UserLocked /\ TokensLocked /\ LinksLocked
  BY <1>1, <1>2, <1>3, <1>4, <1>5, <1>10
  DEF UserLocked, TokensLocked, LinksLocked, HoldsUser, HoldsToken, HoldsLink
<1>12. HeldIsLive /\ HeldIsUnused /\ UnseenIsStray /\ RevocationReaches
  BY <1>3, <1>4, <1>5, <1>10
  DEF HeldIsLive, HeldIsUnused, UnseenIsStray, RevocationReaches, Live
<1>13. LinkChangesOnce
  BY <1>5, <1>10 DEF LinkChangesOnce
<1>14. MadeTokens = {} /\ MadeLinks = {}
  BY <1>4, <1>5, <1>10 DEF MadeTokens, MadeLinks
<1>15. Cardinality(MadeTokens) = 0 /\ Cardinality(MadeLinks) = 0
  BY <1>14, FS_EmptySet
<1>16. TokensMade /\ LinksMade
  BY <1>4, <1>5, <1>10, <1>14, <1>15 DEF TokensMade, LinksMade, Live
<1>17. Childless /\ ParentsMade
  BY <1>4, <1>10, <1>14 DEF Childless, ParentsMade, Live
<1>18. RoomEnough
  <2>1. ASSUME NEW ops, "none" \notin ops PROVE Busy(ops) = 0
    <3>1. {w \in Workers : worker[w].op \in ops} = {}
      BY <1>3, <1>10, <2>1
    <3> QED BY <3>1, FS_EmptySet DEF Busy
  <2>2. "none" \notin TokenOps /\ "none" \notin LinkOps /\ "none" \notin RevokingOps
    BY DEF TokenOps, LinkOps, RevokingOps
  <2> QED BY <1>2, <1>15, <2>1, <2>2 DEF RoomEnough
<1> QED BY <1>8, <1>9, <1>11, <1>12, <1>13, <1>16, <1>17, <1>18 DEF IInv

\* Who holds which row, what a holder found there and in what order the rows
\* are made is as the invariant says, in every reachable state.
THEOREM SessionsInvariant == Spec => []IInv
BY SessionsInit, SessionsStep, PTL DEF Spec

\* A change of password, a reset or a block ends every session but those that a
\* request was making at the same time, and a reset link changes one password
\* (auth.service.ts, password-reset.service.ts).
THEOREM SessionsAreKept == Spec => []SessionsKept
<1>1. IInv => SessionsKept
  BY DEF IInv, SessionsKept
<1> QED BY <1>1, SessionsInvariant, PTL

\* What a step does to the successors of each token.
RotatedOnce ==
  \A t \in Tokens : Children(t)' # Children(t) =>
    /\ Live(t) /\ ~Live(t)'
    /\ Cardinality(Children(t)') = 1

LEMMA RotationStep == IInv /\ [Next]_vars => RotatedOnce \/ UNCHANGED vars
<1> SUFFICES ASSUME IInv, [Next]_vars PROVE RotatedOnce
  OBVIOUS
<1>1. CASE Rests
  BY <1>1 DEF Rests, RotatedOnce, Children, MadeTokens, Tokens
<1>2. ASSUME NEW w \in Workers, Kind(w), NEW t \in Tokens,
             Children(t)' # Children(t)
      PROVE  Live(t) /\ ~Live(t)' /\ Cardinality(Children(t)') = 1
  <2>1. Tokens' = Tokens
    BY <1>2, RoomStays
  <2>2. Children(t)' = {c \in Tokens : tokens'[c].made /\ tokens'[c].parent = t}
    BY <2>1 DEF Children, MadeTokens
  <2>3. Children(t) = {c \in Tokens : tokens[c].made /\ tokens[c].parent = t}
    BY DEF Children, MadeTokens
  <2>4. PICK f \in Tokens : ~SameToken(f)
    BY <1>2, <2>2, <2>3 DEF SameToken
  <2>5. \A c \in Tokens : c # f => SameToken(c)
    BY <1>2, <2>4, NewTokenIs
  <2>6. ~tokens[f].made
    BY <1>2, <2>4, NewTokenIs
  <2>7. tokens'[f].made /\ tokens'[f].parent = t
    BY <1>2, <2>2, <2>3, <2>5, <2>6 DEF SameToken
  <2>8. Live(t) /\ ~tokens'[t].live
    <3>1. t # None
      BY DEF Tokens, None
    <3> QED BY <1>2, <2>4, <2>7, <3>1, NewTokenIs
  <2>9. Children(t) = {}
    BY <2>8 DEF IInv, Childless
  <2>10. Children(t)' = {f}
    BY <2>2, <2>3, <2>5, <2>7, <2>9 DEF SameToken
  <2> QED BY <2>8, <2>10, FS_Singleton DEF Live
<1> QED BY <1>1, <1>2, EveryStep DEF RotatedOnce

\* Two refreshes with one token, or a refresh that races a logout or a change of
\* password, leave one line of sessions (auth.service.ts, refresh and logout).
THEOREM TokenRotatesOnce == Spec => RotatesOnce
<1>1. IInv /\ [Next]_vars => [RotatedOnce]_vars
  BY RotationStep
<1> QED BY <1>1, SessionsInvariant, PTL DEF Spec, RotatesOnce, RotatedOnce

-----------------------------------------------------------------------------
(* The connection to Bito                                                  *)

Budget == bitoLeft.begins + bitoLeft.connects
Issued == 1..provider.given
Key == Bito!Key
Home(t) == Bito!Home(t)

BitoRowOf ==
  [id : Nat, write : Nat, url : {"none", "home", "other"}, mode : {"NONE", "BEARER", "KEY"},
   status : {"DISCONNECTED", "AUTHORIZING", "CONNECTED", "ERROR"}, state : Nat,
   access : Nat, refresh : Nat]
BitoCallOf ==
  [pc : {"idle", "credentials", "token", "decide", "check", "waiting", "call", "listed",
         "authFailed", "failed"},
   op : {"list", "read", "write"}, force : BOOLEAN, attempt : {1, 2},
   seen : BitoRowOf, again : BitoRowOf, token : Nat]
BitoRefreshOf == [pc : {"none", "ask", "save", "refused"}, seen : BitoRowOf, token : Nat]
CallbackOf == [pc : {"none", "read", "write"}, seen : BitoRowOf, token : Nat]

BitoTyped ==
  /\ bitoRow \in BitoRowOf /\ callback \in CallbackOf
  /\ bitoWorker \in [Workers -> BitoCallOf] /\ bitoRefresh \in BitoRefreshOf
  /\ provider \in [given : 0..MaxTokens, good : SUBSET Nat, writes : Nat, asked : Nat]
  /\ bitoHistory \in [overtaken : BOOLEAN, lost : BOOLEAN]
  /\ bitoLeft \in [begins : Nat, connects : Nat, disconnects : Nat, calls : Nat,
                   faults : Nat]

BitoAwaited ==
  bitoRefresh.pc # "none" <=> \E w \in Workers : bitoWorker[w].pc = "waiting"

\* The connection is the one that was read: no later write made it.
SameRow(seen) == /\ bitoRow.id # 0
                 /\ bitoRow.id = seen.id /\ bitoRow.write = seen.write

\* What the row is: written once for each that the budget no longer has, with
\* tokens that were issued for its address, and at rest only if it has none.
RowSound ==
  /\ bitoRow.id # 0 => bitoRow.write > Budget
  /\ bitoRow.access \in Issued \cup {0, Key} /\ bitoRow.refresh \in Issued \cup {0}
  /\ bitoRow.status = "AUTHORIZING" =>
       bitoRow.state # 0 /\ bitoRow.url = "home" /\ bitoRow.refresh = 0
  /\ ~bitoHistory.overtaken =>
       /\ bitoRow.access # 0 => Home(bitoRow.access) = bitoRow.url
       /\ bitoRow.refresh # 0 => bitoRow.url = "home" /\ Bito!Usable(bitoRow)

\* What a call knows of the row it has read, and of the one it read again.
Reading == {"token", "decide", "check", "waiting", "call"}
Sound(q) ==
  /\ q.pc \in Reading => /\ q.seen.id # 0 /\ q.seen.write > Budget
                         /\ SameRow(q.seen) => bitoRow.url = q.seen.url
  /\ q.pc = "decide" =>
       /\ q.again.access \in Issued \cup {0, Key} /\ q.again.refresh \in Issued \cup {0}
       /\ q.again.refresh # 0 /\ bitoRow.refresh = q.again.refresh => SameRow(q.again)
       /\ ~bitoHistory.overtaken /\ SameRow(q.seen) /\ q.again.access # 0 =>
            Home(q.again.access) = bitoRow.url
  /\ q.pc = "check" /\ ~bitoHistory.overtaken /\ SameRow(q.seen) /\ q.token # 0 =>
       Home(q.token) = bitoRow.url
  /\ q.pc = "call" /\ ~bitoHistory.overtaken /\ q.token # 0 =>
       Home(q.token) = q.seen.url
CallsSound == \A w \in Workers : Sound(bitoWorker[w])

\* A token on its way to the row: it is good, and nobody has it yet.
Unseen(t) ==
  /\ t \in Issued /\ t \in provider.good /\ bitoRow.refresh # t
  /\ bitoRefresh.pc # "none" => bitoRefresh.seen.refresh # t
  /\ \A w \in Workers : bitoWorker[w].pc = "decide" => bitoWorker[w].again.refresh # t

CallbackSound ==
  /\ callback.pc # "none" =>
       /\ callback.seen.status = "AUTHORIZING" /\ callback.seen.url = "home"
       /\ callback.seen.id # 0
  /\ callback.pc = "write" => Unseen(callback.token)

RefreshSound ==
  /\ bitoRefresh.pc # "none" =>
       /\ bitoRefresh.seen.refresh \in Issued
       /\ bitoRow.refresh = bitoRefresh.seen.refresh => SameRow(bitoRefresh.seen)
  /\ bitoRefresh.pc = "save" => Unseen(bitoRefresh.token)
  /\ bitoRefresh.pc = "save" /\ callback.pc = "write" =>
       callback.token # bitoRefresh.token

\* The token that was refreshed is behind only until the new one is saved.
Latest ==
  bitoRow.refresh # 0 /\ ~bitoHistory.lost /\ ~bitoHistory.overtaken =>
    \/ bitoRow.refresh \in provider.good
    \/ bitoRefresh.pc = "save" /\ bitoRefresh.seen.refresh = bitoRow.refresh

\* There is one write, and it is done only by the call that asked for it.
Wrote ==
  /\ provider.writes <= provider.asked /\ provider.asked <= 1
  /\ \A w \in Workers : bitoWorker[w].pc # "idle" /\ bitoWorker[w].op = "write" =>
       /\ provider.asked = 1 /\ provider.writes = 0
       /\ \A v \in Workers : bitoWorker[v].pc # "idle" /\ bitoWorker[v].op = "write" => v = w

BitoInv == /\ BitoTyped /\ BitoAwaited /\ RowSound /\ CallsSound /\ CallbackSound
           /\ RefreshSound /\ Latest /\ Wrote

-----------------------------------------------------------------------------
LEMMA NoRowTyped ==
  /\ Bito!NoRow \in BitoRowOf /\ Bito!NoCallback \in CallbackOf
  /\ Bito!NoRefresh \in BitoRefreshOf /\ Bito!Idle \in BitoCallOf
<1>1. Bito!NoRow \in BitoRowOf
  BY DEF Bito!NoRow, Bito!NoToken, BitoRowOf
<1> QED BY <1>1 DEF Bito!NoCallback, Bito!NoRefresh, Bito!Idle, Bito!NoToken,
           CallbackOf, BitoRefreshOf, BitoCallOf

LEMMA BitoInit == Bito!Init => BitoInv
<1> SUFFICES ASSUME Bito!Init PROVE BitoInv
  OBVIOUS
<1>1. /\ MaxTokens \in Nat
      /\ bitoLeft \in [begins : Nat, connects : Nat, disconnects : Nat, calls : Nat,
                       faults : Nat]
  BY BitoAssumption DEF Bito!BitoAccountAssumption, Bito!Init
<1>2. BitoTyped
  BY <1>1, NoRowTyped DEF Bito!Init, BitoTyped
<1>3. /\ \A w \in Workers : bitoWorker[w] = Bito!Idle
      /\ bitoRefresh = Bito!NoRefresh /\ callback = Bito!NoCallback /\ bitoRow = Bito!NoRow
  BY DEF Bito!Init
<1>4. BitoAwaited /\ CallsSound /\ CallbackSound /\ RefreshSound
  BY <1>3 DEF BitoAwaited, CallsSound, CallbackSound, RefreshSound, Bito!Idle,
     Bito!NoRefresh, Bito!NoCallback, Sound, Reading
<1>5. RowSound /\ Latest
  BY <1>3 DEF RowSound, Latest, Bito!NoRow, Bito!NoToken
<1>6. Wrote
  BY <1>3 DEF Bito!Init, Wrote, Bito!Idle
<1> QED BY <1>2, <1>4, <1>5, <1>6 DEF BitoInv

\* What a step leaves alone of the row: only its status and state may change.
KeepsRow ==
  /\ bitoRow'.id = bitoRow.id /\ bitoRow'.write = bitoRow.write
  /\ bitoRow'.url = bitoRow.url /\ bitoRow'.access = bitoRow.access
  /\ bitoRow'.refresh = bitoRow.refresh
Marks ==
  /\ KeepsRow /\ bitoRow' \in BitoRowOf
  /\ \/ bitoRow' = bitoRow
     \/ /\ bitoRow'.status # "AUTHORIZING"
        /\ bitoRow.id # 0
        /\ bitoRow'.status \in {"CONNECTED", "ERROR"}
             \/ bitoRow.refresh = 0 \/ bitoHistory'.overtaken
\* The budgets only fall, and the tokens issued and the excuses stay.
Onward ==
  /\ bitoLeft' \in [begins : Nat, connects : Nat, disconnects : Nat, calls : Nat,
                    faults : Nat]
  /\ Budget' <= Budget
  /\ provider' \in [given : 0..MaxTokens, good : SUBSET Nat, writes : Nat, asked : Nat]
  /\ provider'.given >= provider.given
  /\ bitoHistory' \in [overtaken : BOOLEAN, lost : BOOLEAN]
  /\ bitoHistory.overtaken => bitoHistory'.overtaken
  /\ bitoHistory.lost => bitoHistory'.lost

LEMMA OnwardIssued ==
  ASSUME BitoTyped, Onward
  PROVE  /\ Issued \subseteq Issued' /\ Budget \in Nat /\ Budget' \in Nat
         /\ Issued \subseteq 1..MaxTokens /\ Issued' \subseteq 1..MaxTokens
<1>1. MaxTokens \in Nat
  BY BitoAssumption DEF Bito!BitoAccountAssumption
<1>2. provider.given \in Nat /\ provider'.given \in Nat
  BY <1>1 DEF BitoTyped, Onward
<1> QED BY <1>1, <1>2 DEF BitoTyped, Onward, Issued, Budget

LEMMA MarksSound ==
  ASSUME BitoInv, Marks, Onward
  PROVE  /\ RowSound'
         /\ \A q \in BitoCallOf : Sound(q) => Sound(q)'
         /\ \A s : SameRow(s)' <=> SameRow(s)
<1>1. \A s : SameRow(s)' <=> SameRow(s)
  BY DEF Marks, KeepsRow, SameRow
<1>2. \A t : Home(t)' <=> Home(t)
  BY DEF Home, Bito!Home
<1>3. RowSound'
  BY OnwardIssued DEF BitoInv, BitoTyped, BitoRowOf, RowSound, Marks, KeepsRow, Onward,
     Home, Bito!Home, Bito!Usable, Key, Bito!Key
<1>4. ASSUME NEW q \in BitoCallOf, Sound(q) PROVE Sound(q)'
  <2>1. q.seen.write \in Nat
    BY DEF BitoCallOf, BitoRowOf
  <2> QED BY <1>1, <1>4, <2>1, OnwardIssued
       DEF BitoInv, Sound, Marks, KeepsRow, Onward, Home, Bito!Home, Key, Bito!Key
<1> QED BY <1>1, <1>3, <1>4

\* The steps that only mark the row, or leave it, and end the callback, or leave it.
LEMMA MarksKeeps ==
  ASSUME BitoInv, Marks, Onward, UNCHANGED <<bitoWorker, bitoRefresh, provider>>,
         callback' \in {callback, Bito!NoCallback}
  PROVE  BitoInv'
<1>1. BitoTyped'
  BY NoRowTyped DEF BitoInv, BitoTyped, Marks, Onward
<1>2. BitoAwaited' /\ Wrote'
  BY DEF BitoInv, BitoAwaited, Wrote
<1>3. RowSound' /\ CallsSound'
  <2>1. ASSUME NEW w \in Workers PROVE Sound(bitoWorker[w])'
    <3>1. PICK q \in BitoCallOf : q = bitoWorker[w]
      BY DEF BitoInv, BitoTyped
    <3>2. Sound(q)'
      BY <3>1, MarksSound DEF BitoInv, CallsSound
    <3> QED BY <3>1, <3>2 DEF Sound
  <2> QED BY <2>1, MarksSound DEF CallsSound
<1>4. \A t : Unseen(t) => Unseen(t)'
  BY DEF Unseen, Marks, KeepsRow, Issued
<1>5. CallbackSound'
  BY <1>4 DEF BitoInv, CallbackSound, Bito!NoCallback, Unseen
<1>6. RefreshSound'
  <2>1. callback'.pc = "write" => callback' = callback
    BY DEF Bito!NoCallback
  <2>2. PICK s : s = bitoRefresh.seen
    OBVIOUS
  <2>3. bitoRefresh.pc # "none" =>
          s.refresh \in Issued /\ (bitoRow'.refresh = s.refresh => SameRow(s)')
    BY <2>2, MarksSound DEF BitoInv, RefreshSound, Marks, KeepsRow
  <2>4. bitoRefresh.pc = "save" => Unseen(bitoRefresh.token)'
    BY <1>4 DEF BitoInv, RefreshSound, Unseen
  <2> QED BY <2>1, <2>2, <2>3, <2>4 DEF BitoInv, RefreshSound, SameRow, Issued
<1>7. Latest'
  BY DEF BitoInv, Latest, Marks, KeepsRow, Onward
<1> QED BY <1>1, <1>2, <1>3, <1>5, <1>6, <1>7 DEF BitoInv

\* The steps of a call that neither begin nor end a wait: what the call becomes
\* is sound, and it has read no token that is on its way.
LEMMA CallKeeps ==
  ASSUME BitoInv, Marks, Onward, UNCHANGED <<bitoRefresh, callback>>,
         provider'.given = provider.given, provider'.good = provider.good,
         NEW w \in Workers, NEW q \in BitoCallOf,
         bitoWorker' = [bitoWorker EXCEPT ![w] = q],
         bitoWorker[w].pc # "waiting", q.pc # "waiting", Sound(q)',
         q.pc = "decide" => q.again.refresh = bitoRow.refresh,
         Wrote'
  PROVE  BitoInv'
<1>1. BitoTyped'
  BY DEF BitoInv, BitoTyped, Marks, Onward
<1>2. /\ bitoWorker'[w] = q
      /\ \A v \in Workers : v # w => bitoWorker'[v] = bitoWorker[v]
  BY DEF BitoInv, BitoTyped
<1>3. BitoAwaited'
  BY <1>2 DEF BitoInv, BitoAwaited
<1>4. RowSound' /\ CallsSound'
  <2>1. ASSUME NEW v \in Workers PROVE Sound(bitoWorker[v])'
    <3>1. PICK p \in BitoCallOf : p = bitoWorker'[v]
      BY <1>1 DEF BitoTyped
    <3>2. Sound(p)'
      <4>1. CASE v = w
        BY <1>2, <3>1, <4>1
      <4>2. CASE v # w
        <5>1. Sound(p)
          BY <1>2, <3>1, <4>2 DEF BitoInv, CallsSound
        <5> QED BY <5>1, MarksSound
      <4> QED BY <4>1, <4>2
    <3> QED BY <3>1, <3>2 DEF Sound
  <2> QED BY <2>1, MarksSound DEF CallsSound
<1>5. \A t : Unseen(t) => Unseen(t)'
  BY <1>2 DEF Unseen, Marks, KeepsRow, Issued
<1>6. CallbackSound'
  BY <1>5 DEF BitoInv, CallbackSound, Unseen
<1>7. RefreshSound'
  <2>2. PICK s : s = bitoRefresh.seen
    OBVIOUS
  <2>3. bitoRefresh.pc # "none" =>
          s.refresh \in Issued /\ (bitoRow'.refresh = s.refresh => SameRow(s)')
    BY <2>2, MarksSound DEF BitoInv, RefreshSound, Marks, KeepsRow
  <2>4. bitoRefresh.pc = "save" => Unseen(bitoRefresh.token)'
    BY <1>5 DEF BitoInv, RefreshSound, Unseen
  <2> QED BY <2>2, <2>3, <2>4 DEF BitoInv, RefreshSound, SameRow, Issued
<1>8. Latest'
  BY DEF BitoInv, Latest, Marks, KeepsRow, Onward
<1> QED BY <1>1, <1>3, <1>4, <1>6, <1>7, <1>8 DEF BitoInv

\* The steps after which the row is another one, or none, without tokens to
\* refresh: what was read of it before is not what it is.
LEMMA AnotherRow ==
  ASSUME BitoInv, Onward, bitoRow' \in BitoRowOf, bitoRow'.refresh = 0, RowSound',
         \A s \in BitoRowOf : s.write > Budget => ~SameRow(s)',
         UNCHANGED <<callback, bitoWorker, bitoRefresh, provider, bitoHistory>>
  PROVE  BitoInv'
<1>1. BitoTyped'
  BY DEF BitoInv, BitoTyped, Onward
<1>2. BitoAwaited' /\ Wrote' /\ Latest'
  BY DEF BitoInv, BitoAwaited, Wrote, Latest
<1>3. CallsSound'
  <2>1. ASSUME NEW w \in Workers PROVE Sound(bitoWorker[w])'
    <3>1. PICK q \in BitoCallOf : q = bitoWorker[w]
      BY DEF BitoInv, BitoTyped
    <3>2. Sound(q) /\ q.seen \in BitoRowOf /\ q.seen.write \in Nat
      BY <3>1 DEF BitoInv, CallsSound, BitoCallOf, BitoRowOf
    <3>3. q.pc \in Reading => ~SameRow(q.seen)'
      BY <3>2 DEF Sound
    <3>4. Sound(q)'
      BY <3>2, <3>3, OnwardIssued DEF Sound, Onward, BitoInv, Issued, Home, Bito!Home,
         Reading, Key, Bito!Key
    <3> QED BY <3>1, <3>4 DEF Sound
  <2> QED BY <2>1 DEF CallsSound
<1>4. 0 \notin Issued /\ Issued' = Issued
  BY OnwardIssued DEF Issued, BitoInv
<1>5. \A t : Unseen(t) => Unseen(t)'
  BY <1>4 DEF Unseen
<1>6. CallbackSound'
  BY <1>5 DEF BitoInv, CallbackSound, Unseen
<1>7. RefreshSound'
  BY <1>4, <1>5 DEF BitoInv, RefreshSound, Unseen
<1> QED BY <1>1, <1>2, <1>3, <1>6, <1>7 DEF BitoInv

-----------------------------------------------------------------------------
\* The owner's steps.
LEMMA RewrittenKeeps ==
  ASSUME BitoInv, Bito!Begin \/ \E mode \in {"KEY", "BEARER"} : Bito!Connect(mode)
  PROVE  BitoInv'
<1>1. /\ Budget \in Nat /\ bitoLeft'.begins + bitoLeft'.connects = Budget - 1
      /\ bitoLeft' \in [begins : Nat, connects : Nat, disconnects : Nat, calls : Nat,
                        faults : Nat]
      /\ bitoLeft.begins \in Nat /\ bitoLeft.connects \in Nat /\ Budget > 0
      /\ UNCHANGED <<callback, bitoWorker, bitoRefresh, provider, bitoHistory>>
  BY DEF Bito!Begin, Bito!Connect, BitoInv, BitoTyped, Budget
<1>2. Onward /\ Budget' = Budget - 1
  BY <1>1 DEF Onward, Budget, BitoInv, BitoTyped
<1>3. /\ bitoRow'.id = IF bitoRow.id # 0 THEN bitoRow.id ELSE Budget
      /\ bitoRow'.write = Budget /\ bitoRow'.refresh = 0 /\ bitoRow' \in BitoRowOf
      /\ \/ /\ bitoRow'.url = "home" /\ bitoRow'.access = 0
            /\ bitoRow'.status = "AUTHORIZING" /\ bitoRow'.state # 0
         \/ /\ bitoRow'.url = "other" /\ bitoRow'.access = Key
            /\ bitoRow'.status = "CONNECTED"
  <2>1. bitoRow.id \in Nat /\ MaxTokens \in Nat
    BY BitoAssumption DEF BitoInv, BitoTyped, BitoRowOf, Bito!BitoAccountAssumption
  <2>2. CASE Bito!Begin
    BY <1>1, <2>1, <2>2 DEF Bito!Begin, Bito!Rewritten, Bito!There, Bito!NoToken, Budget,
       BitoRowOf
  <2>3. CASE \E mode \in {"KEY", "BEARER"} : Bito!Connect(mode)
    BY <1>1, <2>1, <2>3 DEF Bito!Connect, Bito!Rewritten, Bito!There, Bito!NoToken, Budget,
       BitoRowOf, Key, Bito!Key
  <2> QED BY <2>2, <2>3
<1>4. RowSound'
  BY <1>1, <1>2, <1>3 DEF RowSound, Home, Bito!Home, Key, Bito!Key
<1>5. \A s \in BitoRowOf : s.write > Budget => ~SameRow(s)'
  BY <1>1, <1>3 DEF SameRow, BitoRowOf
<1> QED BY <1>1, <1>2, <1>3, <1>4, <1>5, AnotherRow

LEMMA LeavingKeeps ==
  ASSUME BitoInv, Bito!Disconnect \/ Bito!Delete
  PROVE  BitoInv'
<1>1. CASE Bito!Disconnect
  <2>1. Marks /\ Onward
    BY <1>1 DEF Bito!Disconnect, Marks, KeepsRow, Onward, BitoInv, BitoTyped, Budget
  <2> QED BY <1>1, <2>1, MarksKeeps DEF Bito!Disconnect
<1>2. CASE Bito!Delete
  <2>1. /\ bitoRow' = Bito!NoRow /\ bitoRow'.id = 0 /\ bitoRow'.refresh = 0
        /\ bitoRow'.access = 0 /\ bitoRow'.status = "DISCONNECTED"
        /\ UNCHANGED <<callback, bitoWorker, bitoRefresh, provider, bitoHistory, bitoLeft>>
    BY <1>2 DEF Bito!Delete, Bito!NoRow, Bito!NoToken
  <2>2. Onward
    BY <2>1 DEF Onward, BitoInv, BitoTyped, Budget
  <2>3. RowSound' /\ \A s \in BitoRowOf : ~SameRow(s)'
    BY <2>1 DEF RowSound, SameRow
  <2> QED BY <2>1, <2>2, <2>3, NoRowTyped, AnotherRow
<1> QED BY <1>1, <1>2

-----------------------------------------------------------------------------
\* The callback.
LEMMA CallbackReadsKeeps ==
  ASSUME BitoInv, Bito!CallbackReads
  PROVE  BitoInv'
<1>1. /\ callback' \in CallbackOf /\ callback'.pc = "read" /\ callback'.seen = bitoRow
      /\ bitoRow.id # 0 /\ bitoRow.status = "AUTHORIZING"
      /\ UNCHANGED <<bitoRow, bitoWorker, bitoRefresh, provider, bitoHistory, bitoLeft>>
  BY NoRowTyped DEF Bito!CallbackReads, Bito!NoCallback, Bito!There, BitoInv, BitoTyped,
     CallbackOf
<1>2. CallbackSound'
  BY <1>1 DEF BitoInv, RowSound, CallbackSound
<1> QED BY <1>1, <1>2 DEF BitoInv, BitoTyped, BitoAwaited, RowSound, CallsSound, RefreshSound,
        Latest, Wrote, Sound, SameRow, Unseen, Issued, Budget, Home, Key

\* A token that was just issued is good, and nobody has it.
LEMMA IssuedUnseen ==
  ASSUME BitoInv, MaxTokens \in Nat, UNCHANGED bitoRow, NEW t,
         t = provider.given + 1, t = provider'.given, t \in provider'.good,
         bitoRefresh'.seen = bitoRefresh.seen,
         bitoRefresh'.pc # "none" => bitoRefresh.pc # "none",
         UNCHANGED bitoWorker
  PROVE  Unseen(t)'
<1>1. provider.given \in Nat /\ t \notin Issued /\ t \in Issued' /\ t # 0
  BY DEF BitoInv, BitoTyped, Issued
<1>2. /\ bitoRow.refresh # t
      /\ bitoRefresh.pc # "none" => bitoRefresh.seen.refresh # t
      /\ \A w \in Workers : bitoWorker[w].pc = "decide" => bitoWorker[w].again.refresh # t
  BY <1>1 DEF BitoInv, RowSound, RefreshSound, CallsSound, Sound
<1> QED BY <1>1, <1>2 DEF Unseen

LEMMA CallbackExchangesKeeps ==
  ASSUME BitoInv, Bito!CallbackExchanges
  PROVE  BitoInv'
<1>1. MaxTokens \in Nat
  BY BitoAssumption DEF Bito!BitoAccountAssumption
<1>2. /\ provider'.given = provider.given + 1 /\ provider.given < MaxTokens
      /\ provider'.good = provider.good \cup {provider'.given}
      /\ provider'.writes = provider.writes /\ provider'.asked = provider.asked
      /\ provider' \in [given : 0..MaxTokens, good : SUBSET Nat, writes : Nat, asked : Nat]
      /\ callback' \in CallbackOf /\ callback'.pc = "write"
      /\ callback'.seen = callback.seen /\ callback.pc = "read"
      /\ callback'.token = provider'.given
      /\ UNCHANGED <<bitoRow, bitoWorker, bitoRefresh, bitoHistory, bitoLeft>>
  <2>1. provider.given \in 0..MaxTokens /\ provider.given < MaxTokens
        /\ provider.given + 1 \in 0..MaxTokens /\ provider.given + 1 \in Nat
    BY <1>1 DEF Bito!CallbackExchanges, Bito!Spare, BitoInv, BitoTyped
  <2> QED BY <2>1 DEF Bito!CallbackExchanges, Bito!Granted, BitoInv, BitoTyped, CallbackOf
<1>3. Marks /\ Onward
  BY <1>1, <1>2 DEF Marks, KeepsRow, Onward, BitoInv, BitoTyped, Budget
<1>4. BitoTyped' /\ BitoAwaited' /\ Wrote' /\ Latest'
  BY <1>2 DEF BitoInv, BitoTyped, BitoAwaited, Wrote, Latest
<1>5. CallsSound' /\ RowSound'
  <2>1. ASSUME NEW w \in Workers PROVE Sound(bitoWorker[w])'
    <3>1. PICK q \in BitoCallOf : q = bitoWorker[w]
      BY DEF BitoInv, BitoTyped
    <3>2. Sound(q)'
      BY <1>3, <3>1, MarksSound DEF BitoInv, CallsSound
    <3> QED BY <1>2, <3>1, <3>2 DEF Sound
  <2> QED BY <1>3, <2>1, MarksSound DEF CallsSound
<1>6. PICK t : t = provider'.given
  OBVIOUS
<1>7. CallbackSound'
  <2>1. Unseen(t)'
    BY <1>1, <1>2, <1>6, IssuedUnseen
  <2> QED BY <1>2, <1>6, <2>1 DEF BitoInv, CallbackSound, Unseen
<1>8. RefreshSound'
  <2>1. Issued \subseteq Issued' /\ provider'.given \notin Issued
    BY <1>1, <1>2 DEF BitoInv, BitoTyped, Issued
  <2> QED BY <1>2, <2>1 DEF BitoInv, RefreshSound, SameRow, Unseen
<1> QED BY <1>4, <1>5, <1>7, <1>8 DEF BitoInv

\* The callback's token becomes the row's, whatever the row has become.
LEMMA CallbackWritesKeeps ==
  ASSUME BitoInv, Bito!CallbackWrites
  PROVE  BitoInv'
<1>1. /\ bitoHistory' \in [overtaken : BOOLEAN, lost : BOOLEAN]
      /\ bitoHistory'.lost = bitoHistory.lost
      /\ bitoHistory.overtaken => bitoHistory'.overtaken
      /\ callback' = Bito!NoCallback /\ callback.pc = "write"
      /\ UNCHANGED <<bitoWorker, bitoRefresh, provider, bitoLeft>>
  BY DEF Bito!CallbackWrites, BitoInv, BitoTyped
<1>2. Onward
  BY <1>1 DEF Onward, BitoInv, BitoTyped, Budget
<1>3. CASE bitoRow.id # callback.seen.id
  <2>1. Marks
    BY <1>3 DEF Bito!CallbackWrites, Marks, KeepsRow, BitoInv, BitoTyped
  <2> QED BY <1>1, <1>2, <2>1, MarksKeeps
<1>4. CASE bitoRow.id = callback.seen.id
  <2>1. /\ bitoRow' \in BitoRowOf
        /\ bitoRow'.id = bitoRow.id /\ bitoRow'.write = bitoRow.write
        /\ bitoRow'.url = bitoRow.url /\ bitoRow'.access = callback.token
        /\ bitoRow'.refresh = callback.token /\ bitoRow'.status = "CONNECTED"
        /\ ~bitoHistory'.overtaken => bitoRow = callback.seen
        /\ bitoRow.id # 0
    BY <1>1, <1>4 DEF Bito!CallbackWrites, BitoInv, BitoTyped, BitoRowOf, CallbackOf,
       CallbackSound
  <2>2. Unseen(callback.token) /\ callback.token # 0 /\ Home(callback.token) = "home"
    BY <1>1, OnwardIssued, <1>2, BitoAssumption DEF BitoInv, CallbackSound, Unseen, Home,
       Bito!Home, Bito!Key, Bito!BitoAccountAssumption
  <2>3. \A s : SameRow(s)' <=> SameRow(s)
    BY <2>1 DEF SameRow
  <2>4. RowSound'
    BY <1>1, <1>2, <2>1, <2>2 DEF BitoInv, CallbackSound, RowSound, Unseen, Issued, Home,
       Bito!Home, Bito!Usable, Budget
  <2>5. CallsSound'
    <3>1. ASSUME NEW w \in Workers PROVE Sound(bitoWorker[w])'
      <4>1. PICK q \in BitoCallOf : q = bitoWorker[w]
        BY DEF BitoInv, BitoTyped
      <4>2. Sound(q) /\ (q.pc = "decide" => q.again.refresh # callback.token)
        BY <2>2, <4>1 DEF BitoInv, CallsSound, Unseen
      <4>3. Sound(q)'
        BY <1>1, <2>1, <2>3, <4>2 DEF Sound, Issued, Home, Budget, Key
      <4> QED BY <1>1, <4>1, <4>3 DEF Sound
    <3> QED BY <3>1 DEF CallsSound
  <2>6. RefreshSound'
    BY <1>1, <2>1, <2>2, <2>3 DEF BitoInv, RefreshSound, Unseen, Issued, Bito!NoCallback
  <2>7. BitoTyped' /\ BitoAwaited' /\ Wrote' /\ Latest' /\ CallbackSound'
    BY <1>1, <2>1, <2>2, NoRowTyped DEF BitoInv, BitoTyped, BitoAwaited, Wrote, Latest,
       CallbackSound, Unseen, Bito!NoCallback
  <2> QED BY <2>4, <2>5, <2>6, <2>7 DEF BitoInv
<1> QED BY <1>3, <1>4

LEMMA CallbackEndsKeeps ==
  ASSUME BitoInv, Bito!CallbackCancelled \/ Bito!CallbackFails
  PROVE  BitoInv'
<1>1. CASE Bito!CallbackCancelled
  <2>0. /\ callback' = Bito!NoCallback
        /\ UNCHANGED <<bitoWorker, bitoRefresh, provider, bitoLeft>>
        /\ bitoHistory' \in [overtaken : BOOLEAN, lost : BOOLEAN]
        /\ bitoHistory.overtaken => bitoHistory'.overtaken
        /\ bitoHistory'.lost = bitoHistory.lost
    BY <1>1 DEF Bito!CallbackCancelled, BitoInv, BitoTyped
  <2>1. Onward
    BY <2>0 DEF Onward, BitoInv, BitoTyped, Budget
  <2>2. CASE bitoRow.id # callback.seen.id
    BY <1>1, <2>0, <2>1, <2>2, MarksKeeps DEF Bito!CallbackCancelled, Marks, KeepsRow, BitoInv,
       BitoTyped
  <2>3. CASE bitoRow.id = callback.seen.id
    <3>1. bitoRow.refresh = 0 \/ bitoHistory'.overtaken
      BY <1>1, <2>3 DEF Bito!CallbackCancelled, BitoInv, BitoTyped, RowSound, CallbackSound
    <3>2. Marks
      BY <1>1, <2>3, <3>1 DEF Bito!CallbackCancelled, Marks, KeepsRow, BitoInv, BitoTyped,
         BitoRowOf, CallbackSound
    <3> QED BY <2>0, <2>1, <3>2, MarksKeeps
  <2> QED BY <2>2, <2>3
<1>2. CASE Bito!CallbackFails
  <2>1. /\ callback' = Bito!NoCallback
        /\ UNCHANGED <<bitoWorker, bitoRefresh, provider, bitoHistory>>
    BY <1>2 DEF Bito!CallbackFails
  <2>2. Onward
    BY <1>2, <2>1 DEF Bito!CallbackFails, Onward, BitoInv, BitoTyped, Budget
  <2>3. Marks
    BY <1>2 DEF Bito!CallbackFails, Bito!There, Marks, KeepsRow, BitoInv, BitoTyped, BitoRowOf
  <2> QED BY <2>1, <2>2, <2>3, MarksKeeps
<1> QED BY <1>1, <1>2

-----------------------------------------------------------------------------
\* The refresh.
LEMMA RefreshAskedKeeps ==
  ASSUME BitoInv, Bito!RefreshAsks
  PROVE  BitoInv'
<1>1. MaxTokens \in Nat
  BY BitoAssumption DEF Bito!BitoAccountAssumption
<1>2. /\ bitoRefresh.pc = "ask" /\ bitoRefresh.seen.refresh \in Issued
      /\ bitoRefresh'.seen = bitoRefresh.seen
      /\ UNCHANGED <<bitoRow, callback, bitoWorker, bitoHistory, bitoLeft>>
  BY DEF Bito!RefreshAsks, BitoInv, BitoTyped, BitoRefreshOf, RefreshSound
<1>3. CASE bitoRefresh.seen.refresh \notin provider.good
  <2>1. /\ bitoRefresh' \in BitoRefreshOf /\ bitoRefresh'.pc = "refused" /\ UNCHANGED provider
    BY <1>3 DEF Bito!RefreshAsks, BitoInv, BitoTyped, BitoRefreshOf
  <2>2. BitoTyped' /\ BitoAwaited' /\ RowSound' /\ Wrote' /\ Latest'
    BY <1>2, <2>1 DEF BitoInv, BitoTyped, BitoAwaited, RowSound, Latest, Wrote, Issued, Budget,
       Home, Key
  <2>3. CallsSound' /\ CallbackSound' /\ RefreshSound'
    BY <1>2, <2>1 DEF BitoInv, CallsSound, Sound, SameRow, CallbackSound, RefreshSound, Unseen,
       Issued, Budget, Home, Key
  <2> QED BY <2>2, <2>3 DEF BitoInv
<1>4. CASE bitoRefresh.seen.refresh \in provider.good
  <2>1. PICK t : t = provider'.given
    OBVIOUS
  <2>2. /\ t = provider.given + 1 /\ provider.given < MaxTokens
        /\ provider'.good = (provider.good \ {bitoRefresh.seen.refresh}) \cup {t}
        /\ provider'.writes = provider.writes /\ provider'.asked = provider.asked
        /\ provider' \in [given : 0..MaxTokens, good : SUBSET Nat, writes : Nat, asked : Nat]
        /\ bitoRefresh' \in BitoRefreshOf
        /\ bitoRefresh'.pc = "save" /\ bitoRefresh'.token = t
    <3>1. /\ provider.given \in 0..MaxTokens /\ provider.given < MaxTokens
          /\ provider.given + 1 \in 0..MaxTokens /\ provider.given + 1 \in Nat
      BY <1>1, <1>2, <1>4 DEF Bito!RefreshAsks, Bito!Spare, BitoInv, BitoTyped
    <3>2. /\ provider' = [provider EXCEPT !.given = provider.given + 1,
                !.good = (@ \ {bitoRefresh.seen.refresh}) \cup {provider.given + 1}]
          /\ bitoRefresh' = [bitoRefresh EXCEPT !.pc = "save",
                                               !.token = provider.given + 1]
      BY <1>2, <1>4 DEF Bito!RefreshAsks, Bito!Granted
    <3>3. bitoRefresh' \in BitoRefreshOf /\ bitoRefresh'.pc = "save"
          /\ bitoRefresh'.token = provider.given + 1
      BY <3>1, <3>2 DEF BitoInv, BitoTyped, BitoRefreshOf
    <3>4. /\ provider'.given = provider.given + 1
          /\ provider'.writes = provider.writes /\ provider'.asked = provider.asked
          /\ provider'.good = (provider.good \ {bitoRefresh.seen.refresh})
                                \cup {provider.given + 1}
      BY <3>2 DEF BitoInv, BitoTyped
    <3>5. provider' \in [given : 0..MaxTokens, good : SUBSET Nat, writes : Nat, asked : Nat]
      <4>1. (provider.good \ {bitoRefresh.seen.refresh}) \cup {provider.given + 1}
              \in SUBSET Nat
        BY <3>1 DEF BitoInv, BitoTyped
      <4> QED BY <3>1, <3>2, <4>1 DEF BitoInv, BitoTyped
    <3> QED BY <2>1, <3>1, <3>3, <3>4, <3>5
  <2>3. Marks /\ Onward
    BY <1>1, <1>2, <2>1, <2>2 DEF Marks, KeepsRow, Onward, BitoInv, BitoTyped, Budget
  <2>4. BitoTyped' /\ BitoAwaited' /\ Wrote'
    BY <1>2, <2>2 DEF BitoInv, BitoTyped, BitoAwaited, Wrote
  <2>5. Latest'
    BY <1>2, <2>2 DEF BitoInv, Latest
  <2>6. CallsSound' /\ RowSound'
    <3>1. ASSUME NEW w \in Workers PROVE Sound(bitoWorker[w])'
      <4>1. PICK q \in BitoCallOf : q = bitoWorker[w]
        BY DEF BitoInv, BitoTyped
      <4>2. Sound(q)'
        BY <2>3, <4>1, MarksSound DEF BitoInv, CallsSound
      <4> QED BY <1>2, <4>1, <4>2 DEF Sound
    <3> QED BY <2>3, <3>1, MarksSound DEF CallsSound
  <2>7. Unseen(t)' /\ t \notin Issued /\ Issued \subseteq Issued'
    <3>1. Unseen(t)'
      BY <1>1, <1>2, <2>1, <2>2, IssuedUnseen
    <3> QED BY <1>1, <2>1, <2>2, <3>1 DEF BitoInv, BitoTyped, Issued
  <2>8. callback.pc = "write" => Unseen(callback.token)' /\ callback.token # t
    BY <1>2, <2>2, <2>7 DEF BitoInv, CallbackSound, Unseen
  <2>9. CallbackSound' /\ RefreshSound'
    BY <1>2, <2>2, <2>7, <2>8 DEF BitoInv, CallbackSound, RefreshSound, SameRow, Unseen
  <2> QED BY <2>4, <2>5, <2>6, <2>9 DEF BitoInv
<1> QED BY <1>3, <1>4

\* The refresh was not answered, or the row is not the one that was refreshed.
LEMMA RefreshRefusedKeeps ==
  ASSUME BitoInv, bitoRefresh.pc = "save",
         bitoRefresh' = [bitoRefresh EXCEPT !.pc = "refused"],
         \/ Bito!RefreshLost
         \/ Bito!RefreshSaves /\ ~Bito!Saves(bitoRow, bitoRefresh.seen)
  PROVE  BitoInv'
<1>1. /\ UNCHANGED <<bitoRow, callback, bitoWorker, provider>>
      /\ Onward
  <2>1. CASE Bito!RefreshLost
    <3>1. bitoHistory' \in [overtaken : BOOLEAN, lost : BOOLEAN]
          /\ bitoHistory'.overtaken = bitoHistory.overtaken /\ bitoHistory'.lost
          /\ UNCHANGED <<bitoRow, callback, bitoWorker, provider>>
      BY <2>1 DEF Bito!RefreshLost, BitoInv, BitoTyped
    <3> QED BY <2>1, <3>1 DEF Bito!RefreshLost, Onward, BitoInv, BitoTyped, Budget
  <2>2. CASE Bito!RefreshSaves /\ ~Bito!Saves(bitoRow, bitoRefresh.seen)
    BY <2>2 DEF Bito!RefreshSaves, Onward, BitoInv, BitoTyped, Budget
  <2> QED BY <2>1, <2>2
<1>2. /\ bitoRefresh' \in BitoRefreshOf /\ bitoRefresh'.pc = "refused"
      /\ bitoRefresh'.seen = bitoRefresh.seen
  BY DEF BitoInv, BitoTyped, BitoRefreshOf
<1>3. BitoTyped' /\ BitoAwaited' /\ Wrote'
  BY <1>1, <1>2 DEF BitoInv, BitoTyped, BitoAwaited, Wrote, Onward
<1>4. Latest'
  <2>1. CASE Bito!RefreshLost
    BY <2>1 DEF Bito!RefreshLost, BitoInv, BitoTyped, Latest
  <2>2. CASE Bito!RefreshSaves /\ ~Bito!Saves(bitoRow, bitoRefresh.seen)
    <3>1. UNCHANGED bitoHistory
      BY <2>2 DEF Bito!RefreshSaves
    <3>2. ASSUME bitoRow.refresh # 0, ~bitoHistory.lost, ~bitoHistory.overtaken
          PROVE  bitoRow.refresh \in provider.good
      BY <2>2, <3>2 DEF BitoInv, Latest, RefreshSound, RowSound, SameRow, Bito!Saves
    <3> QED BY <1>1, <3>1, <3>2 DEF Latest
  <2> QED BY <2>1, <2>2
<1>5. RowSound' /\ CallsSound'
  <2>1. Marks
    BY <1>1 DEF Marks, KeepsRow, BitoInv, BitoTyped
  <2>2. ASSUME NEW w \in Workers PROVE Sound(bitoWorker[w])'
    <3>1. PICK q \in BitoCallOf : q = bitoWorker[w]
      BY DEF BitoInv, BitoTyped
    <3>2. Sound(q)'
      BY <1>1, <2>1, <3>1, MarksSound DEF BitoInv, CallsSound
    <3> QED BY <1>1, <3>1, <3>2 DEF Sound
  <2> QED BY <1>1, <2>1, <2>2, MarksSound DEF CallsSound
<1>6. CallbackSound' /\ RefreshSound'
  BY <1>1, <1>2 DEF BitoInv, CallbackSound, RefreshSound, SameRow, Unseen, Issued
<1> QED BY <1>3, <1>4, <1>5, <1>6 DEF BitoInv

\* Who waited goes on, and the others where they are.
LEMMA WokenCalls ==
  ASSUME BitoInv, NEW pc \in {"check", "failed"}, NEW t \in Nat,
         bitoWorker' = Bito!Woken(pc, t), bitoRefresh' = Bito!NoRefresh,
         provider'.writes = provider.writes, provider'.asked = provider.asked
  PROVE  /\ bitoWorker' \in [Workers -> BitoCallOf] /\ BitoAwaited' /\ Wrote'
         /\ \A w \in Workers :
              \/ /\ bitoWorker[w].pc = "waiting"
                 /\ bitoWorker'[w].pc = pc /\ bitoWorker'[w].token = t
                 /\ bitoWorker'[w].seen = bitoWorker[w].seen
              \/ bitoWorker'[w] = bitoWorker[w]
<1>1. \A w \in Workers :
        bitoWorker'[w] = IF bitoWorker[w].pc = "waiting"
                         THEN [bitoWorker[w] EXCEPT !.pc = pc, !.token = t]
                         ELSE bitoWorker[w]
  BY DEF Bito!Woken
<1>2. \A w \in Workers :
        /\ bitoWorker'[w] \in BitoCallOf /\ bitoWorker'[w].op = bitoWorker[w].op
        /\ bitoWorker'[w].pc # "waiting"
        /\ bitoWorker'[w].pc = "idle" <=> bitoWorker[w].pc = "idle"
        /\ \/ /\ bitoWorker[w].pc = "waiting"
              /\ bitoWorker'[w].pc = pc /\ bitoWorker'[w].token = t
              /\ bitoWorker'[w].seen = bitoWorker[w].seen
           \/ bitoWorker'[w] = bitoWorker[w]
  <2> SUFFICES ASSUME NEW w \in Workers
               PROVE  /\ bitoWorker'[w] \in BitoCallOf /\ bitoWorker'[w].op = bitoWorker[w].op
                      /\ bitoWorker'[w].pc # "waiting"
                      /\ bitoWorker'[w].pc = "idle" <=> bitoWorker[w].pc = "idle"
                      /\ \/ /\ bitoWorker[w].pc = "waiting"
                            /\ bitoWorker'[w].pc = pc /\ bitoWorker'[w].token = t
                            /\ bitoWorker'[w].seen = bitoWorker[w].seen
                         \/ bitoWorker'[w] = bitoWorker[w]
    OBVIOUS
  <2>1. bitoWorker[w] \in BitoCallOf
    BY DEF BitoInv, BitoTyped
  <2>2. CASE bitoWorker[w].pc = "waiting"
    <3>1. bitoWorker'[w] = [bitoWorker[w] EXCEPT !.pc = pc, !.token = t]
      BY <1>1, <2>2
    <3>2. bitoWorker'[w] \in BitoCallOf
      BY <2>1, <3>1 DEF BitoCallOf
    <3> QED BY <2>1, <2>2, <3>1, <3>2 DEF BitoCallOf
  <2>3. CASE bitoWorker[w].pc # "waiting"
    BY <1>1, <2>1, <2>3
  <2> QED BY <2>2, <2>3
<1>3. bitoWorker' \in [Workers -> BitoCallOf]
  BY <1>2 DEF Bito!Woken
<1>4. BitoAwaited'
  BY <1>2 DEF BitoAwaited, Bito!NoRefresh
<1>5. Wrote'
  BY <1>2 DEF BitoInv, Wrote
<1> QED BY <1>2, <1>3, <1>4, <1>5

\* The new tokens are the row's, which is the one they were asked for.
LEMMA RefreshSavedKeeps ==
  ASSUME BitoInv, Bito!RefreshSaves, Bito!Saves(bitoRow, bitoRefresh.seen)
  PROVE  BitoInv'
<1>1. PICK t \in Nat : t = bitoRefresh.token
  BY DEF BitoInv, BitoTyped, BitoRefreshOf
<1>2. /\ bitoRefresh.pc = "save" /\ bitoRefresh' = Bito!NoRefresh
      /\ bitoWorker' = Bito!Woken("check", t)
      /\ UNCHANGED <<callback, provider, bitoHistory, bitoLeft>>
      /\ bitoRow'.id = bitoRow.id /\ bitoRow'.write = bitoRow.write
      /\ bitoRow'.url = bitoRow.url /\ bitoRow'.access = t /\ bitoRow'.refresh = t
      /\ bitoRow'.status = "CONNECTED" /\ bitoRow' \in BitoRowOf
  <2>1. /\ bitoRefresh.pc = "save" /\ bitoRefresh' = Bito!NoRefresh
        /\ bitoWorker' = Bito!Woken("check", t)
        /\ UNCHANGED <<callback, provider, bitoHistory, bitoLeft>>
        /\ bitoRow' = [bitoRow EXCEPT !.access = t, !.refresh = t, !.status = "CONNECTED"]
    BY <1>1 DEF Bito!RefreshSaves
  <2>2. bitoRow \in BitoRowOf
    BY DEF BitoInv, BitoTyped
  <2> QED BY <2>1, <2>2 DEF BitoRowOf
<1>3. Unseen(t) /\ t # 0 /\ Home(t) = "home" /\ Onward
  <2>1. Onward
    BY <1>2 DEF Onward, BitoInv, BitoTyped, Budget
  <2>2. Unseen(t)
    BY <1>1, <1>2 DEF BitoInv, RefreshSound
  <2> QED BY <2>1, <2>2, OnwardIssued, BitoAssumption DEF BitoInv, Unseen, Home, Bito!Home,
       Bito!Key, Bito!BitoAccountAssumption
<1>4. /\ bitoRow.id # 0 /\ bitoRow.refresh # 0
      /\ ~bitoHistory.overtaken => bitoRow.url = "home"
  BY <1>2 DEF BitoInv, RefreshSound, RowSound, Bito!Saves, Bito!Usable, Issued
<1>5. \A s : SameRow(s)' <=> SameRow(s)
  BY <1>2 DEF SameRow
<1>6. /\ bitoWorker' \in [Workers -> BitoCallOf] /\ BitoAwaited' /\ Wrote'
      /\ \A w \in Workers :
           \/ /\ bitoWorker[w].pc = "waiting"
              /\ bitoWorker'[w].pc = "check" /\ bitoWorker'[w].token = t
              /\ bitoWorker'[w].seen = bitoWorker[w].seen
           \/ bitoWorker'[w] = bitoWorker[w]
  BY <1>2, WokenCalls
<1>7. RowSound'
  BY <1>2, <1>3, <1>4 DEF BitoInv, RowSound, Unseen, Issued, Home, Bito!Home, Bito!Usable,
     Budget
<1>8. CallsSound'
  <2>1. ASSUME NEW w \in Workers PROVE Sound(bitoWorker[w])'
    <3>1. PICK q \in BitoCallOf : q = bitoWorker'[w]
      BY <1>6
    <3>2. Sound(q)'
      <4>1. CASE q.pc = "check" /\ q.token = t /\ q.seen = bitoWorker[w].seen
                   /\ bitoWorker[w].pc = "waiting"
        <5>1. Sound(bitoWorker[w])
          BY DEF BitoInv, CallsSound
        <5>2. q.seen.id # 0 /\ q.seen.write > Budget
              /\ (SameRow(q.seen) => bitoRow.url = q.seen.url)
          BY <4>1, <5>1 DEF Sound, Reading
        <5> QED BY <1>2, <1>3, <1>4, <1>5, <4>1, <5>2 DEF Sound, Budget, Home
      <4>2. CASE q = bitoWorker[w]
        <5>1. Sound(q) /\ (q.pc = "decide" => q.again.refresh # t)
          BY <1>3, <4>2 DEF BitoInv, CallsSound, Unseen
        <5> QED BY <1>2, <1>5, <5>1 DEF Sound, Issued, Home, Budget, Key
      <4> QED BY <1>6, <3>1, <4>1, <4>2
    <3> QED BY <3>1, <3>2 DEF Sound
  <2> QED BY <2>1 DEF CallsSound
<1>9. CallbackSound'
  <2>1. callback.pc = "write" => Unseen(callback.token) /\ callback.token # t
    BY <1>1, <1>2 DEF BitoInv, CallbackSound, RefreshSound
  <2> QED BY <1>2, <1>6, <2>1 DEF BitoInv, CallbackSound, Unseen, Issued, Bito!NoRefresh
<1>10. RefreshSound' /\ Latest' /\ BitoTyped'
  BY <1>2, <1>3, <1>6, NoRowTyped DEF BitoInv, BitoTyped, RefreshSound, Latest, Unseen,
     Bito!NoRefresh
<1> QED BY <1>6, <1>7, <1>8, <1>9, <1>10 DEF BitoInv

LEMMA RefreshFailsKeeps ==
  ASSUME BitoInv, Bito!RefreshFails
  PROVE  BitoInv'
<1>1. /\ bitoRefresh.pc = "refused" /\ bitoRefresh' = Bito!NoRefresh
      /\ bitoWorker' = Bito!Woken("failed", 0)
      /\ UNCHANGED <<callback, provider, bitoHistory, bitoLeft>>
  BY DEF Bito!RefreshFails, Bito!NoToken
<1>2. Marks /\ Onward
  BY <1>1 DEF Bito!RefreshFails, Bito!There, Marks, KeepsRow, Onward, Budget, BitoInv,
     BitoTyped, BitoRowOf
<1>3. /\ bitoWorker' \in [Workers -> BitoCallOf] /\ BitoAwaited' /\ Wrote'
      /\ \A w \in Workers :
           \/ bitoWorker'[w].pc = "failed"
           \/ bitoWorker'[w] = bitoWorker[w]
  BY <1>1, WokenCalls
<1>4. RowSound' /\ CallsSound'
  <2>1. ASSUME NEW w \in Workers PROVE Sound(bitoWorker[w])'
    <3>1. PICK q \in BitoCallOf : q = bitoWorker'[w]
      BY <1>3
    <3>2. Sound(q)'
      <4>1. CASE q.pc = "failed"
        BY <4>1 DEF Sound, Reading
      <4>2. CASE q = bitoWorker[w]
        BY <1>2, <4>2, MarksSound DEF BitoInv, CallsSound
      <4> QED BY <1>3, <3>1, <4>1, <4>2
    <3> QED BY <3>1, <3>2 DEF Sound
  <2> QED BY <1>2, <2>1, MarksSound DEF CallsSound
<1>5. CallbackSound'
  BY <1>1, <1>2, <1>3 DEF BitoInv, CallbackSound, Unseen, Issued, Bito!NoRefresh, Marks,
     KeepsRow
<1>6. RefreshSound' /\ Latest' /\ BitoTyped'
  BY <1>1, <1>2, <1>3, NoRowTyped DEF BitoInv, BitoTyped, RefreshSound, Latest, Bito!NoRefresh,
     Marks, KeepsRow
<1> QED BY <1>3, <1>4, <1>5, <1>6 DEF BitoInv

\* A call waits for a refresh, which it begins if there is none.
LEMMA RefreshesKeeps ==
  ASSUME BitoInv, NEW w \in Workers, Bito!Refreshes(w)
  PROVE  BitoInv'
<1>1. PICK q \in BitoCallOf : q = [bitoWorker[w] EXCEPT !.pc = "waiting"]
  <2>1. bitoWorker[w] \in BitoCallOf
    BY DEF BitoInv, BitoTyped
  <2> QED BY <2>1 DEF BitoCallOf
<1>2. /\ bitoWorker[w].pc = "decide" /\ bitoWorker[w].again.refresh # 0
      /\ bitoWorker' = [bitoWorker EXCEPT ![w] = q]
      /\ UNCHANGED <<bitoRow, callback, provider, bitoHistory, bitoLeft>>
  BY <1>1 DEF Bito!Refreshes, Bito!Set, Bito!NoToken
<1>3. PICK s \in BitoRowOf : s = bitoWorker[w].again
  BY DEF BitoInv, BitoTyped, BitoCallOf
<1>4. /\ bitoRefresh.pc # "none" => bitoRefresh' = bitoRefresh
      /\ bitoRefresh.pc = "none" =>
           /\ bitoRefresh' \in BitoRefreshOf
           /\ bitoRefresh'.pc = "ask" /\ bitoRefresh'.seen = s
      /\ bitoRefresh'.pc # "none"
  BY <1>3, NoRowTyped DEF Bito!Refreshes, Bito!NoRefresh, BitoRefreshOf
<1>5. /\ bitoWorker'[w] = q /\ q.pc = "waiting" /\ q.seen = bitoWorker[w].seen
      /\ q.op = bitoWorker[w].op
      /\ \A v \in Workers : v # w => bitoWorker'[v] = bitoWorker[v]
  BY <1>1, <1>2 DEF BitoInv, BitoTyped, BitoCallOf
<1>6. Sound(bitoWorker[w])
  BY DEF BitoInv, CallsSound
<1>7. BitoTyped' /\ BitoAwaited' /\ RowSound'
  BY <1>2, <1>4, <1>5 DEF BitoInv, BitoTyped, BitoAwaited, RowSound, Issued, Budget, Home, Key
<1>8. Wrote'
  BY <1>2, <1>5 DEF BitoInv, Wrote
<1>9. CallsSound'
  <2>1. ASSUME NEW v \in Workers PROVE Sound(bitoWorker[v])'
    <3>1. CASE v = w
      BY <1>2, <1>5, <1>6, <3>1 DEF Sound, Reading, SameRow, Budget
    <3>2. CASE v # w
      <4>1. Sound(bitoWorker[v])
        BY DEF BitoInv, CallsSound
      <4> QED BY <1>2, <1>5, <3>2, <4>1 DEF Sound, SameRow, Budget, Issued, Home, Key
    <3> QED BY <3>1, <3>2
  <2> QED BY <2>1 DEF CallsSound
<1>10. s.refresh \in Issued /\ (bitoRow.refresh = s.refresh => SameRow(s))
  BY <1>2, <1>3, <1>6 DEF Sound
<1>11. CallbackSound'
  <2>1. callback.pc = "write" => Unseen(callback.token) /\ s.refresh # callback.token
    BY <1>2, <1>3 DEF BitoInv, CallbackSound, Unseen
  <2>3. callback.pc = "write" => bitoRefresh'.seen.refresh # callback.token
    BY <1>4, <2>1 DEF Unseen
  <2>4. callback.pc = "write" =>
          /\ \A v \in Workers : bitoWorker'[v].pc = "decide"
               => bitoWorker'[v].again.refresh # callback.token
          /\ callback.token \in Issued /\ callback.token \in provider.good
          /\ bitoRow.refresh # callback.token
    BY <1>5, <2>1 DEF Unseen
  <2> QED BY <1>2, <2>3, <2>4 DEF BitoInv, CallbackSound, Unseen, Issued
<1>12. RefreshSound' /\ Latest'
  <2>1. CASE bitoRefresh.pc = "none"
    BY <1>2, <1>4, <1>10, <2>1 DEF BitoInv, RefreshSound, Latest, SameRow, Issued
  <2>2. CASE bitoRefresh.pc # "none"
    <3>1. bitoRefresh.pc = "save" => Unseen(bitoRefresh.token)'
      BY <1>2, <1>4, <1>5, <2>2 DEF BitoInv, RefreshSound, Unseen, Issued
    <3> QED BY <1>2, <1>4, <2>2, <3>1 DEF BitoInv, RefreshSound, Latest, SameRow, Issued,
         Unseen
  <2> QED BY <2>1, <2>2
<1> QED BY <1>7, <1>8, <1>9, <1>11, <1>12 DEF BitoInv

-----------------------------------------------------------------------------
\* The other steps of a call.
LEMMA WroteKeeps ==
  ASSUME BitoInv, NEW w \in Workers, NEW q \in BitoCallOf,
         bitoWorker' = [bitoWorker EXCEPT ![w] = q],
         q.pc # "idle" => q.op = bitoWorker[w].op /\ bitoWorker[w].pc # "idle",
         provider'.writes = provider.writes, provider'.asked = provider.asked
  PROVE  Wrote'
<1>1. bitoWorker'[w] = q /\ \A v \in Workers : v # w => bitoWorker'[v] = bitoWorker[v]
  BY DEF BitoInv, BitoTyped
<1> QED BY <1>1 DEF BitoInv, Wrote

LEMMA CallStepsKeep ==
  ASSUME BitoInv, NEW w \in Workers,
         \/ Bito!Credentials(w) \/ Bito!AccessReads(w) \/ Bito!TakesToken(w)
         \/ Bito!CannotRefresh(w) \/ Bito!Checks(w) \/ Bito!Refused(w) \/ Bito!Records(w)
  PROVE  BitoInv'
<1> DEFINE c == bitoWorker[w]
<1>1. c \in BitoCallOf /\ Sound(c)
  BY DEF BitoInv, BitoTyped, CallsSound
<1>2. bitoRow \in BitoRowOf /\ RowSound
  BY DEF BitoInv, BitoTyped
<1>3. UNCHANGED <<bitoRefresh, callback, provider, bitoHistory>>
  BY DEF Bito!Credentials, Bito!AccessReads, Bito!TakesToken, Bito!CannotRefresh, Bito!Checks,
     Bito!Refused, Bito!Records
<1>4. Onward
  <2>1. CASE UNCHANGED bitoLeft
    BY <1>3, <2>1 DEF Onward, BitoInv, BitoTyped, Budget
  <2>2. CASE Bito!Refused(w)
    BY <1>3, <2>2 DEF Onward, BitoInv, BitoTyped, Budget, Bito!Refused
  <2> QED BY <2>1, <2>2 DEF Bito!Credentials, Bito!AccessReads, Bito!TakesToken,
             Bito!CannotRefresh, Bito!Checks, Bito!Records
<1>5. Marks
  <2>1. CASE UNCHANGED bitoRow
    BY <1>2, <2>1 DEF Marks, KeepsRow
  <2>2. CASE Bito!CannotRefresh(w) \/ Bito!Records(w)
    BY <1>2, <2>2 DEF Marks, KeepsRow, BitoRowOf, Bito!CannotRefresh, Bito!Records, Bito!There
  <2> QED BY <2>1, <2>2 DEF Bito!Credentials, Bito!AccessReads, Bito!TakesToken, Bito!Checks,
             Bito!Refused
<1>6. c.pc # "waiting" /\ c.pc # "idle"
  BY DEF Bito!Credentials, Bito!AccessReads, Bito!TakesToken, Bito!CannotRefresh, Bito!Checks,
     Bito!Refused, Bito!Records
<1>7. ASSUME NEW q \in BitoCallOf, bitoWorker' = [bitoWorker EXCEPT ![w] = q], Sound(q),
             q.pc # "waiting", q.pc = "idle" \/ q.op = c.op,
             q.pc = "decide" => q.again.refresh = bitoRow.refresh
      PROVE  BitoInv'
  <2>1. Sound(q)'
    BY <1>4, <1>5, <1>7, MarksSound
  <2>2. Wrote'
    BY <1>3, <1>6, <1>7, WroteKeeps
  <2> QED BY <1>3, <1>4, <1>5, <1>6, <1>7, <2>1, <2>2, CallKeeps
<1>8. /\ Bito!Idle \in BitoCallOf /\ Sound(Bito!Idle) /\ Bito!Idle.pc = "idle"
  BY NoRowTyped DEF Sound, Reading, Bito!Idle
<1>9. LET q == Bito!Failed(w, "authFailed") IN
        q \in BitoCallOf /\ q.pc = "authFailed" /\ q.op = c.op /\ Sound(q)
  BY <1>1 DEF Bito!Failed, Bito!NoToken, BitoCallOf, Sound, Reading
<1>10. CASE Bito!Credentials(w)
  <2>1. CASE ~Bito!Usable(bitoRow)
    <3>1. bitoWorker' = [bitoWorker EXCEPT ![w] = Bito!Idle]
      BY <1>10, <2>1 DEF Bito!Credentials, Bito!Set
    <3> QED BY <1>7, <1>8, <3>1
  <2>2. CASE Bito!Usable(bitoRow)
    <3> DEFINE q == [c EXCEPT !.seen = bitoRow,
                       !.pc = IF bitoRow.mode = "BEARER" THEN "token" ELSE "call",
                       !.token = bitoRow.access]
    <3>1. bitoWorker' = [bitoWorker EXCEPT ![w] = q]
      BY <1>10, <2>2 DEF Bito!Credentials, Bito!Set
    <3>2. q \in BitoCallOf /\ q.pc \in {"token", "call"} /\ q.op = c.op
            /\ q.seen = bitoRow /\ q.token = bitoRow.access
      BY <1>1, <1>2 DEF BitoCallOf, BitoRowOf
    <3> HIDE DEF q
    <3>3. Sound(q)
      BY <1>2, <2>2, <3>2 DEF Sound, Reading, RowSound, Bito!Usable
    <3> QED BY <1>7, <3>1, <3>2, <3>3
  <2> QED BY <2>1, <2>2
<1>11. CASE Bito!AccessReads(w)
  <2>1. CASE ~(Bito!Usable(bitoRow) /\ bitoRow.mode = "BEARER")
    <3>1. bitoWorker' = [bitoWorker EXCEPT ![w] = Bito!Failed(w, "authFailed")]
      BY <1>11, <2>1 DEF Bito!AccessReads, Bito!Set
    <3> QED BY <1>7, <1>9, <3>1
  <2>2. CASE Bito!Usable(bitoRow) /\ bitoRow.mode = "BEARER"
    <3> DEFINE q == [c EXCEPT !.pc = "decide", !.again = bitoRow]
    <3>1. bitoWorker' = [bitoWorker EXCEPT ![w] = q] /\ c.pc = "token"
      BY <1>11, <2>2 DEF Bito!AccessReads, Bito!Set
    <3>2. q \in BitoCallOf /\ q.pc = "decide" /\ q.op = c.op
            /\ q.seen = c.seen /\ q.again = bitoRow
      BY <1>1, <1>2 DEF BitoCallOf
    <3> HIDE DEF q
    <3>3. Sound(q)
      BY <1>1, <1>2, <2>2, <3>1, <3>2 DEF Sound, Reading, RowSound, Bito!Usable, SameRow
    <3> QED BY <1>7, <3>1, <3>2, <3>3
  <2> QED BY <2>1, <2>2
<1>12. CASE Bito!TakesToken(w)
  <2> DEFINE q == [c EXCEPT !.pc = "check", !.token = c.again.access]
  <2>1. bitoWorker' = [bitoWorker EXCEPT ![w] = q] /\ c.pc = "decide"
    BY <1>12 DEF Bito!TakesToken, Bito!Set
  <2>2. q \in BitoCallOf /\ q.pc = "check" /\ q.op = c.op
          /\ q.seen = c.seen /\ q.token = c.again.access
    BY <1>1 DEF BitoCallOf, BitoRowOf
  <2> HIDE DEF q
  <2>3. Sound(q)
    BY <1>1, <2>1, <2>2 DEF Sound, Reading
  <2> QED BY <1>7, <2>1, <2>2, <2>3
<1>13. CASE Bito!CannotRefresh(w)
  <2>1. bitoWorker' = [bitoWorker EXCEPT ![w] = Bito!Failed(w, "authFailed")]
    BY <1>13 DEF Bito!CannotRefresh, Bito!Set
  <2> QED BY <1>7, <1>9, <2>1
<1>14. CASE Bito!Checks(w)
  <2>1. CASE ~Bito!SameConnection(c.seen)
    <3>1. bitoWorker' = [bitoWorker EXCEPT ![w] = Bito!Failed(w, "authFailed")]
      BY <1>14, <2>1 DEF Bito!Checks, Bito!Set
    <3> QED BY <1>7, <1>9, <3>1
  <2>2. CASE Bito!SameConnection(c.seen)
    <3> DEFINE q == [c EXCEPT !.pc = "call"]
    <3>1. bitoWorker' = [bitoWorker EXCEPT ![w] = q] /\ c.pc = "check"
      BY <1>14, <2>2 DEF Bito!Checks, Bito!Set
    <3>2. q \in BitoCallOf /\ q.pc = "call" /\ q.op = c.op
            /\ q.seen = c.seen /\ q.token = c.token
      BY <1>1 DEF BitoCallOf
    <3> HIDE DEF q
    <3>3. SameRow(c.seen)
      BY <2>2 DEF Bito!SameConnection, Bito!There, SameRow
    <3>4. Sound(q)
      BY <1>1, <3>1, <3>2, <3>3 DEF Sound, Reading
    <3> QED BY <1>7, <3>1, <3>2, <3>4
  <2> QED BY <2>1, <2>2
<1>15. CASE Bito!Refused(w)
  <2> DEFINE q == [c EXCEPT !.pc = "credentials", !.force = TRUE, !.attempt = 2]
  <2>1. \/ bitoWorker' = [bitoWorker EXCEPT ![w] = q]
        \/ bitoWorker' = [bitoWorker EXCEPT ![w] = Bito!Failed(w, "authFailed")]
    BY <1>15 DEF Bito!Refused, Bito!Set
  <2>2. q \in BitoCallOf /\ q.pc = "credentials" /\ q.op = c.op
    BY <1>1 DEF BitoCallOf
  <2>3. Sound(q)
    BY <2>2 DEF Sound, Reading
  <2> QED BY <1>7, <1>9, <2>1, <2>2, <2>3
<1>16. CASE Bito!Records(w)
  <2>1. bitoWorker' = [bitoWorker EXCEPT ![w] = Bito!Idle]
    BY <1>16 DEF Bito!Records, Bito!Set
  <2> QED BY <1>7, <1>8, <2>1
<1> QED BY <1>10, <1>11, <1>12, <1>13, <1>14, <1>15, <1>16

\* A request for a write is the only one.
LEMMA RequestKeeps ==
  ASSUME BitoInv, NEW w \in Workers, NEW op \in {"list", "read", "write"}, Bito!Call(w, op)
  PROVE  BitoInv'
<1>1. PICK q \in BitoCallOf : q = [Bito!Idle EXCEPT !.pc = "credentials", !.op = op]
  BY NoRowTyped DEF BitoCallOf
<1>2. /\ bitoWorker' = [bitoWorker EXCEPT ![w] = q] /\ bitoWorker[w].pc = "idle"
      /\ q.pc = "credentials" /\ q.op = op
      /\ UNCHANGED <<bitoRow, callback, bitoRefresh, bitoHistory>>
  BY <1>1, NoRowTyped DEF Bito!Call, Bito!Set, BitoCallOf
<1>3. /\ provider'.given = provider.given /\ provider'.good = provider.good
      /\ provider'.writes = provider.writes
      /\ op # "write" => provider'.asked = provider.asked
      /\ op = "write" => provider.asked = 0 /\ provider'.asked = 1
      /\ provider' \in [given : 0..MaxTokens, good : SUBSET Nat, writes : Nat, asked : Nat]
  BY DEF Bito!Call, BitoInv, BitoTyped
<1>4. Marks /\ Onward
  <2>1. bitoLeft' \in [begins : Nat, connects : Nat, disconnects : Nat, calls : Nat,
                       faults : Nat]
        /\ bitoLeft'.begins = bitoLeft.begins /\ bitoLeft'.connects = bitoLeft.connects
    BY DEF Bito!Call, BitoInv, BitoTyped
  <2>2. provider.given \in Int
    BY BitoAssumption DEF Bito!BitoAccountAssumption, BitoInv, BitoTyped
  <2> QED BY <1>2, <1>3, <2>1, <2>2 DEF Marks, KeepsRow, Onward, Budget, BitoInv, BitoTyped
<1>5. Wrote'
  <2>1. bitoWorker'[w] = q /\ \A v \in Workers : v # w => bitoWorker'[v] = bitoWorker[v]
    BY <1>2 DEF BitoInv, BitoTyped
  <2>2. CASE op # "write"
    BY <1>2, <1>3, <2>1, <2>2 DEF BitoInv, Wrote
  <2>3. CASE op = "write"
    <3>1. provider.writes = 0
      BY <1>3, <2>3 DEF BitoInv, BitoTyped, Wrote
    <3>2. \A v \in Workers : ~(bitoWorker[v].pc # "idle" /\ bitoWorker[v].op = "write")
      BY <1>3, <2>3 DEF BitoInv, Wrote
    <3> QED BY <1>2, <1>3, <2>1, <2>3, <3>1, <3>2 DEF Wrote
  <2> QED BY <2>2, <2>3
<1>6. Sound(q)'
  BY <1>2 DEF Sound, Reading
<1> QED BY <1>2, <1>3, <1>4, <1>5, <1>6, CallKeeps

\* An answer to a write, or none, is the end of the call that asked for it.
LEMMA AnswersKeeps ==
  ASSUME BitoInv, NEW w \in Workers, Bito!Answered(w) \/ Bito!TimesOut(w)
  PROVE  BitoInv'
<1> DEFINE c == bitoWorker[w]
<1>1. c \in BitoCallOf /\ c.pc = "call"
  BY DEF BitoInv, BitoTyped, Bito!Answered, Bito!TimesOut
<1>2. /\ UNCHANGED <<bitoRow, callback, bitoRefresh, bitoHistory>>
      /\ bitoLeft' \in [begins : Nat, connects : Nat, disconnects : Nat, calls : Nat,
                        faults : Nat]
      /\ bitoLeft'.begins = bitoLeft.begins /\ bitoLeft'.connects = bitoLeft.connects
  BY DEF Bito!Answered, Bito!TimesOut, BitoInv, BitoTyped
<1>3. /\ provider'.given = provider.given /\ provider'.good = provider.good
      /\ provider'.asked = provider.asked
      /\ c.op # "write" => provider'.writes = provider.writes
      /\ \/ provider'.writes = provider.writes
         \/ provider'.writes = provider.writes + 1
      /\ provider' \in [given : 0..MaxTokens, good : SUBSET Nat, writes : Nat, asked : Nat]
  <2>1. provider \in [given : 0..MaxTokens, good : SUBSET Nat, writes : Nat, asked : Nat]
    BY DEF BitoInv, BitoTyped
  <2>2. CASE Bito!Answered(w)
    BY <2>1, <2>2 DEF Bito!Answered
  <2>3. CASE Bito!TimesOut(w)
    <3>1. PICK done \in {0, 1} :
            provider' = [provider EXCEPT !.writes = IF c.op = "write" THEN @ + done ELSE @]
      BY <2>3 DEF Bito!TimesOut
    <3> QED BY <2>1, <3>1
  <2> QED BY <2>2, <2>3
<1>4. Marks /\ Onward
  <2>1. provider.given \in Int
    BY BitoAssumption DEF Bito!BitoAccountAssumption, BitoInv, BitoTyped
  <2> QED BY <1>2, <1>3, <2>1 DEF Marks, KeepsRow, Onward, Budget, BitoInv, BitoTyped
<1>5. PICK q \in BitoCallOf :
        /\ bitoWorker' = [bitoWorker EXCEPT ![w] = q]
        /\ q.pc \in {"idle", "listed", "credentials"}
        /\ q.pc # "idle" => q.op = c.op /\ c.op # "write"
  <2>1. Bito!Idle \in BitoCallOf /\ Bito!Idle.pc = "idle"
    BY NoRowTyped DEF Bito!Idle
  <2>2. LET q == [c EXCEPT !.pc = "listed"] IN
          q \in BitoCallOf /\ q.pc = "listed" /\ q.op = c.op
    BY <1>1 DEF BitoCallOf
  <2>3. LET q == [c EXCEPT !.pc = "credentials", !.attempt = 2] IN
          q \in BitoCallOf /\ q.pc = "credentials" /\ q.op = c.op
    BY <1>1 DEF BitoCallOf
  <2>4. CASE Bito!Answered(w)
    BY <2>1, <2>2, <2>4 DEF Bito!Answered, Bito!Set
  <2>5. CASE Bito!TimesOut(w)
    BY <2>1, <2>3, <2>5 DEF Bito!TimesOut, Bito!Set, Bito!Repeatable
  <2> QED BY <2>4, <2>5
<1>6. Wrote'
  <2>1. bitoWorker'[w] = q /\ \A v \in Workers : v # w => bitoWorker'[v] = bitoWorker[v]
    BY <1>5 DEF BitoInv, BitoTyped
  <2>2. CASE c.op # "write"
    BY <1>1, <1>3, <1>5, <2>2, WroteKeeps
  <2>3. CASE c.op = "write"
    <3>1. /\ provider.asked = 1 /\ provider.writes = 0
          /\ \A v \in Workers : v # w =>
               ~(bitoWorker[v].pc # "idle" /\ bitoWorker[v].op = "write")
      BY <1>1, <2>3 DEF BitoInv, Wrote
    <3> QED BY <1>3, <1>5, <2>1, <2>3, <3>1 DEF Wrote
  <2> QED BY <2>2, <2>3
<1>7. Sound(q)'
  BY <1>5 DEF Sound, Reading
<1> QED BY <1>1, <1>2, <1>3, <1>4, <1>5, <1>6, <1>7, CallKeeps

-----------------------------------------------------------------------------
LEMMA BitoStep == BitoInv /\ [Bito!Next]_(Bito!vars) => BitoInv'
<1> SUFFICES ASSUME BitoInv, [Bito!Next]_(Bito!vars) PROVE BitoInv'
  OBVIOUS
<1>1. CASE UNCHANGED Bito!vars
  <2>1. UNCHANGED <<bitoRow, callback, bitoWorker, bitoRefresh, provider, bitoHistory,
                    bitoLeft>>
    BY <1>1 DEF Bito!vars
  <2> QED BY <2>1 DEF BitoInv, BitoTyped, BitoAwaited, RowSound, CallsSound, Sound,
       CallbackSound, RefreshSound, Latest, Wrote, SameRow, Unseen, Issued, Budget, Home, Key
<1>2. CASE Bito!Owner
  BY <1>2, RewrittenKeeps, LeavingKeeps DEF Bito!Owner
<1>3. CASE Bito!Back
  BY <1>3, CallbackReadsKeeps, CallbackExchangesKeeps, CallbackWritesKeeps, CallbackEndsKeeps
     DEF Bito!Back
<1>4. CASE Bito!Renew
  <2>1. CASE Bito!RefreshSaves
    BY <2>1, RefreshSavedKeeps, RefreshRefusedKeeps DEF Bito!RefreshSaves
  <2>2. CASE Bito!RefreshLost
    <3>1. bitoRefresh.pc = "save" /\ bitoRefresh' = [bitoRefresh EXCEPT !.pc = "refused"]
      BY <2>2 DEF Bito!RefreshLost
    <3> QED BY <2>2, <3>1, RefreshRefusedKeeps
  <2> QED BY <1>4, <2>1, <2>2, RefreshAskedKeeps, RefreshFailsKeeps DEF Bito!Renew
<1>5. ASSUME NEW w \in Workers, Bito!Work(w) PROVE BitoInv'
  <2>1. CASE \E op \in {"list", "read", "write"} : Bito!Call(w, op)
    BY <2>1, RequestKeeps
  <2>2. CASE Bito!Refreshes(w)
    BY <2>2, RefreshesKeeps
  <2>3. CASE Bito!Answered(w) \/ Bito!TimesOut(w)
    BY <2>3, AnswersKeeps
  <2> QED BY <1>5, <2>1, <2>2, <2>3, CallStepsKeep DEF Bito!Work
<1> QED BY <1>1, <1>2, <1>3, <1>4, <1>5 DEF Bito!Next

LEMMA BitoPromised == BitoInv => BitoKept
<1> SUFFICES ASSUME BitoInv
             PROVE  Bito!TypeOK /\ Bito!TokenStaysHome /\ Bito!LatestKept /\ Bito!WrittenOnce
  BY DEF BitoKept
<1>1. MaxTokens \in Nat
  BY BitoAssumption DEF Bito!BitoAccountAssumption
<1>2. Bito!TypeOK
  <2>1. provider.given \in 0..MaxTokens
    BY DEF BitoInv, BitoTyped
  <2>2. bitoRow.access \in Bito!Tokens /\ bitoRow.refresh \in Bito!Tokens
    BY <1>1, <2>1 DEF BitoInv, RowSound, Bito!Tokens, Issued, Key
  <2> QED BY <2>2 DEF BitoInv, BitoTyped, BitoRowOf, BitoRefreshOf, RowSound, BitoAwaited,
       Bito!TypeOK
<1>3. Bito!TokenStaysHome
  BY DEF BitoInv, CallsSound, Sound, Home, Bito!TokenStaysHome, Bito!NoToken
<1>4. Bito!LatestKept
  BY DEF BitoInv, Latest, Bito!LatestKept, Bito!NoToken
<1>5. Bito!WrittenOnce
  BY DEF BitoInv, Wrote, Bito!WrittenOnce
<1> QED BY <1>2, <1>3, <1>4, <1>5

\* However the owner, the callback, the calls and a refresh overlap, a token of
\* the home server is sent nowhere else, the row has the newest refresh token, and
\* no write is sent twice (bito-oauth.service.ts, bito-tool-bridge.service.ts).
THEOREM BitoIsKept == MCSpec => []BitoKept
<1>1. MCInit => BitoInv
  BY BitoInit DEF MCInit
<1>2. BitoInv /\ [MCNext]_parts => BitoInv'
  <2>1. [MCNext]_parts => [Bito!Next]_(Bito!vars)
    BY DEF MCNext, OfSessions, parts, bito, Bito!vars
  <2> QED BY <2>1, BitoStep
<1> QED BY <1>1, <1>2, BitoPromised, PTL DEF MCSpec

-----------------------------------------------------------------------------
(* The connection to Google                                                *)

\* What each step of a request on a meeting stands at; one that is about to
\* save has its event.
MeetingSteps == {"idle", "sync", "token", "waiting", "call", "save", "failed", "synced",
                 "remove"}
MeetingRequest == [pc : MeetingSteps, op : {"create", "get", "update", "delete"},
                   event : 0..MaxEvents, attempt : 1..3]
GoogleType ==
  [grants : SUBSET Nat, given : Nat, events : SUBSET (1..MaxEvents), made : 0..MaxEvents]
SignIns == [pc : {"none", "exchanged", "save"}, grant : Nat, kept : Nat,
            out : {"none", "clear"}]
CalendarTyped ==
  /\ conn \in [there : BOOLEAN, status : {"DISCONNECTED", "CONNECTED", "ERROR"},
               token : BOOLEAN, grant : Nat, scopes : BOOLEAN]
  /\ google \in GoogleType
  /\ google.events \subseteq 1..google.made
  /\ meeting \in [there : BOOLEAN, event : 0..MaxEvents, error : BOOLEAN]
  /\ calendarRefresh \in [pc : {"none", "ask", "save", "invalid"}, grant : Nat]
  /\ signIn \in SignIns
  /\ signIn.pc = "none" => signIn.grant = 0
  /\ calendarHistory \in [raced : BOOLEAN, lost : BOOLEAN, offline : BOOLEAN]
  /\ calendarWorker \in [Workers -> MeetingRequest]
  /\ \A w \in Workers : calendarWorker[w].pc = "save" => calendarWorker[w].event # 0

\* One refresh is under way while somebody waits for it.
RefreshAwaited ==
  calendarRefresh.pc # "none" <=> \E w \in Workers : calendarWorker[w].pc = "waiting"

\* A meeting without an event is silent about it only while a request is on the
\* way to make one.
OnTheWay == {"sync", "token", "waiting", "call", "save", "failed"}
Pursued ==
  meeting.there /\ meeting.event = 0 /\ ~meeting.error /\ ~calendarHistory.offline
    => \E w \in Workers : calendarWorker[w].pc \in OnTheWay

\* While nothing raced: what Google allows is on the row or about to be; who
\* signs in without a refresh token has the one there is; who refreshes took it
\* from the row; a disconnect has ended what was allowed.
GrantHeld ==
  ~calendarHistory.raced =>
    /\ google.grants # {} => conn.grant # 0 \/ signIn.grant # 0
    /\ signIn.pc = "exchanged" => signIn.grant # 0 \/ conn.grant # 0
    /\ signIn.pc = "save" => signIn.grant # 0 \/ signIn.kept # 0
    /\ calendarRefresh.pc # "none" => conn.grant # 0
    /\ conn.status = "CONNECTED" => conn.grant # 0
    /\ signIn.out = "clear" => google.grants = {} \/ signIn.pc # "none"

CalendarInv == CalendarTyped /\ RefreshAwaited /\ Pursued /\ GrantHeld

-----------------------------------------------------------------------------
LEMMA EventMade ==
  ASSUME NEW g \in GoogleType, g.events \subseteq 1..g.made, g.made < MaxEvents,
         NEW h, h = [g EXCEPT !.made = g.made + 1, !.events = @ \cup {g.made + 1}]
  PROVE  /\ h \in GoogleType /\ h.events \subseteq 1..h.made /\ h.grants = g.grants
         /\ g.made + 1 \in 0..MaxEvents /\ g.made + 1 # 0
<1> DEFINE m == g.made + 1
           e == g.events \cup {m}
<1>1. MaxEvents \in Nat
  BY CalendarAssumption DEF Google!CalendarSyncAssumption
<1>2. m \in 0..MaxEvents /\ m # 0 /\ e \in SUBSET (1..MaxEvents) /\ e \subseteq 1..m
  BY <1>1 DEF GoogleType
<1>3. h = [g EXCEPT !.made = m, !.events = e]
  OBVIOUS
<1> HIDE DEF m, e
<1>4. h \in GoogleType /\ h.made = m /\ h.events = e /\ h.grants = g.grants
  BY <1>2, <1>3 DEF GoogleType
<1> QED BY <1>2, <1>4 DEF m

LEMMA CalendarInit == Google!Init => CalendarInv
<1> SUFFICES ASSUME Google!Init PROVE CalendarInv
  OBVIOUS
<1>1. MaxEvents \in Nat
  BY CalendarAssumption DEF Google!CalendarSyncAssumption
<1>2. calendarWorker = [w \in Workers |-> Google!Idle] /\ Google!Idle \in MeetingRequest
  BY <1>1 DEF Google!Init, Google!Idle, MeetingRequest, MeetingSteps, Google!None
<1>3. CalendarTyped
  BY <1>1, <1>2 DEF GoogleType, Google!Init, CalendarTyped, Google!Idle, Google!NoConn,
     Google!NoMeeting,
     Google!NoRefresh, Google!None, SignIns
<1>4. RefreshAwaited
  BY <1>2 DEF Google!Init, RefreshAwaited, Google!NoRefresh, Google!Idle
<1>5. Pursued /\ GrantHeld
  BY <1>2 DEF Google!Init, Pursued, GrantHeld, Google!NoRefresh, Google!NoConn,
     Google!NoMeeting
<1> QED BY <1>3, <1>4, <1>5 DEF CalendarInv

\* A step of request w, as far as the others are concerned.
RequestMoves(w) ==
  \E r \in MeetingRequest :
    /\ calendarWorker' = [calendarWorker EXCEPT ![w] = r]
    /\ r.pc = "save" => r.event # 0

LEMMA AccountKeeps ==
  ASSUME CalendarInv, Google!Account
  PROVE  CalendarInv'
<1>1. CalendarTyped'
  <2>1. CASE Google!Exchange
    <3>1. PICK again \in BOOLEAN :
            /\ google' = IF again THEN google
                         ELSE [google EXCEPT !.given = google.given + 1,
                                 !.grants = @ \cup {google.given + 1}]
            /\ signIn' = [signIn EXCEPT !.pc = "exchanged",
                            !.grant = IF again THEN 0 ELSE google.given + 1]
      BY <2>1 DEF Google!Exchange, Google!None
    <3> DEFINE given == google.given + 1
               grant == IF again THEN 0 ELSE given
    <3>0. given \in Nat /\ google.grants \cup {given} \in SUBSET Nat /\ grant \in Nat
      BY DEF GoogleType, CalendarInv, CalendarTyped
    <3> HIDE DEF given
    <3>2. signIn' \in SignIns /\ signIn'.pc = "exchanged"
      BY <3>0, <3>1 DEF CalendarInv, CalendarTyped, SignIns, given
    <3>3. /\ google' \in GoogleType
          /\ google'.events = google.events /\ google'.made = google.made
      BY <3>0, <3>1 DEF GoogleType, CalendarInv, CalendarTyped, given
    <3> QED BY <2>1, <3>2, <3>3 DEF CalendarInv, CalendarTyped, Google!Exchange
  <2>2. CASE Google!ReadExisting
    <3>1. conn.grant \in Nat /\ signIn \in SignIns
      BY DEF CalendarInv, CalendarTyped
    <3>2. signIn' = [signIn EXCEPT !.pc = "save", !.kept = conn.grant]
      BY <2>2 DEF Google!ReadExisting, Google!KeptGrant
    <3>3. signIn' \in SignIns /\ signIn'.pc = "save"
      BY <3>1, <3>2 DEF SignIns
    <3> QED BY <2>2, <3>3 DEF CalendarInv, CalendarTyped, Google!ReadExisting
  <2>3. CASE Google!Connect
    BY <2>3 DEF CalendarInv, CalendarTyped, Google!Connect, Google!None, SignIns
  <2>4. CASE Google!Revoke
    BY <2>4 DEF GoogleType, CalendarInv, CalendarTyped, Google!Revoke, SignIns
  <2>5. CASE Google!Clear
    BY <2>5 DEF CalendarInv, CalendarTyped, Google!Clear, Google!NoConn, Google!None, SignIns
  <2> QED BY <2>1, <2>2, <2>3, <2>4, <2>5 DEF Google!Account
<1>2. RefreshAwaited' /\ Pursued'
  BY DEF CalendarInv, CalendarTyped, RefreshAwaited, Pursued, Google!Account,
     Google!Exchange, Google!ReadExisting, Google!Connect, Google!Revoke, Google!Clear
<1>3. GrantHeld'
  <2>1. CASE Google!Exchange
    <3>1. PICK again \in BOOLEAN :
            /\ again => google.grants # {} /\ google' = google
            /\ signIn' = [signIn EXCEPT !.pc = "exchanged",
                            !.grant = IF again THEN 0 ELSE google.given + 1]
      BY <2>1 DEF Google!Exchange, Google!None
    <3>2. /\ signIn'.pc = "exchanged" /\ signIn'.out = signIn.out
          /\ signIn'.grant = IF again THEN 0 ELSE google.given + 1
      BY <3>1 DEF CalendarInv, CalendarTyped, SignIns
    <3>3. google.given + 1 # 0 /\ signIn.pc = "none" /\ signIn.grant = 0
      BY <2>1 DEF GoogleType, CalendarInv, CalendarTyped, Google!Exchange
    <3>4. UNCHANGED <<conn, calendarRefresh, calendarHistory>>
      BY <2>1 DEF Google!Exchange
    <3> QED BY <3>1, <3>2, <3>3, <3>4 DEF CalendarInv, GrantHeld
  <2>2. CASE Google!ReadExisting
    BY <2>2 DEF CalendarInv, CalendarTyped, GrantHeld, Google!ReadExisting,
       Google!KeptGrant, SignIns
  <2>3. CASE Google!Connect
    BY <2>3 DEF CalendarInv, CalendarTyped, GrantHeld, Google!Connect, Google!None, SignIns
  <2>4. CASE Google!Revoke
    BY <2>4 DEF CalendarInv, CalendarTyped, GrantHeld, Google!Revoke, Google!Racing, SignIns
  <2>5. CASE Google!Clear
    BY <2>5 DEF CalendarInv, CalendarTyped, GrantHeld, Google!Clear, Google!NoConn,
       Google!None, SignIns
  <2> QED BY <2>1, <2>2, <2>3, <2>4, <2>5 DEF Google!Account
<1> QED BY <1>1, <1>2, <1>3 DEF CalendarInv

\* When a refresh ends, who waited for it goes on at pc.
LEMMA WokenMove ==
  ASSUME CalendarTyped, NEW pc \in {"call", "failed"},
         calendarWorker' = Google!Woken(pc)
  PROVE  /\ calendarWorker' \in [Workers -> MeetingRequest]
         /\ \A w \in Workers :
              /\ calendarWorker'[w].pc # "waiting"
              /\ calendarWorker'[w].pc = "save" => calendarWorker'[w].event # 0
              /\ calendarWorker[w].pc \in OnTheWay => calendarWorker'[w].pc \in OnTheWay
<1> DEFINE Went(w) == [calendarWorker[w] EXCEPT !.pc = pc]
<1>1. \A w \in Workers :
        calendarWorker'[w] = IF calendarWorker[w].pc = "waiting" THEN Went(w)
                             ELSE calendarWorker[w]
  BY DEF Google!Woken
<1>2. \A w \in Workers : Went(w) \in MeetingRequest /\ Went(w).pc = pc
  BY DEF CalendarTyped, MeetingRequest, MeetingSteps
<1>3. calendarWorker' = [w \in Workers |-> IF calendarWorker[w].pc = "waiting" THEN Went(w)
                                           ELSE calendarWorker[w]]
  BY DEF Google!Woken
<1> HIDE DEF Went
<1>4. calendarWorker' \in [Workers -> MeetingRequest]
  BY <1>2, <1>3 DEF CalendarTyped
<1> QED BY <1>1, <1>2, <1>4 DEF CalendarTyped, OnTheWay

LEMMA RenewKeeps ==
  ASSUME CalendarInv, Google!Renew
  PROVE  CalendarInv'
<1>1. CASE Google!RefreshAsks
  BY <1>1 DEF CalendarInv, CalendarTyped, RefreshAwaited, Pursued, GrantHeld,
     Google!RefreshAsks
<1>2. ASSUME NEW pc \in {"call", "failed"}, calendarWorker' = Google!Woken(pc),
             calendarRefresh.pc # "none", calendarRefresh' = Google!NoRefresh,
             conn' \in {conn, [conn EXCEPT !.status = "ERROR"],
                        [conn EXCEPT !.token = TRUE, !.status = "CONNECTED"]},
             UNCHANGED <<google, meeting, signIn, calendarHistory>>
      PROVE  CalendarInv'
  <2>1. CalendarTyped'
    BY <1>2, WokenMove DEF CalendarInv, CalendarTyped, Google!NoRefresh, Google!None
  <2>2. RefreshAwaited'
    BY <1>2, WokenMove DEF CalendarInv, RefreshAwaited, Google!NoRefresh
  <2>3. Pursued'
    BY <1>2, WokenMove DEF CalendarInv, Pursued
  <2>4. GrantHeld'
    BY <1>2 DEF CalendarInv, CalendarTyped, GrantHeld, Google!NoRefresh
  <2> QED BY <2>1, <2>2, <2>3, <2>4 DEF CalendarInv
<1>3. CASE Google!RefreshUnavailable
  BY <1>2, <1>3 DEF Google!RefreshUnavailable, Google!Marked
<1>4. CASE Google!RefreshSaves
  BY <1>2, <1>4 DEF Google!RefreshSaves
<1>5. CASE Google!RefreshInvalid
  BY <1>2, <1>5 DEF Google!RefreshInvalid, Google!Marked
<1> QED BY <1>1, <1>3, <1>4, <1>5 DEF Google!Renew

\* A request that neither begins nor ends to wait, and leaves the meeting as it
\* is unless it says what it came to.
Handles(w, r) ==
  /\ r \in MeetingRequest
  /\ calendarWorker' = [calendarWorker EXCEPT ![w] = r]
  /\ r.pc = "save" => r.event # 0
  /\ calendarWorker[w].pc \in OnTheWay /\ r.pc \notin OnTheWay
       => ~meeting'.there \/ meeting'.event # 0 \/ meeting'.error
          \/ calendarHistory'.offline
  /\ meeting' = meeting \/ r.pc \in OnTheWay
       \/ ~meeting'.there \/ meeting'.event # 0 \/ meeting'.error
  /\ meeting' \in [there : BOOLEAN, event : 0..MaxEvents, error : BOOLEAN]
  /\ calendarHistory.offline => calendarHistory'.offline
  /\ calendarHistory'.raced = calendarHistory.raced
  /\ calendarHistory' \in [raced : BOOLEAN, lost : BOOLEAN, offline : BOOLEAN]
  /\ google' \in GoogleType
  /\ google'.events \subseteq 1..google'.made /\ google'.grants = google.grants
  /\ UNCHANGED <<conn, signIn>>

LEMMA HandledKeeps ==
  ASSUME CalendarInv, NEW w \in Workers, NEW r, Handles(w, r),
         \/ /\ UNCHANGED calendarRefresh
            /\ calendarWorker[w].pc # "waiting" /\ r.pc # "waiting"
         \/ /\ r.pc = "waiting" /\ conn.status = "CONNECTED"
            /\ calendarRefresh' = IF calendarRefresh.pc # "none" THEN calendarRefresh
                                  ELSE [pc |-> "ask", grant |-> conn.grant]
  PROVE  CalendarInv'
<1>1. /\ calendarWorker'[w] = r
      /\ \A v \in Workers : v # w => calendarWorker'[v] = calendarWorker[v]
      /\ calendarWorker' \in [Workers -> MeetingRequest]
  BY DEF CalendarInv, CalendarTyped, Handles
<1>2. CalendarTyped'
  BY <1>1 DEF CalendarInv, CalendarTyped, Handles
<1>3. RefreshAwaited'
  BY <1>1 DEF CalendarInv, RefreshAwaited
<1>4. Pursued'
  BY <1>1 DEF CalendarInv, Pursued, Handles
<1>5. GrantHeld'
  BY DEF CalendarInv, GrantHeld, Handles
<1> QED BY <1>2, <1>3, <1>4, <1>5 DEF CalendarInv

LEMMA WorkKeeps ==
  ASSUME CalendarInv, NEW w \in Workers, Google!Work(w)
  PROVE  CalendarInv'
<1> DEFINE r == calendarWorker[w]
           On(pc) == [r EXCEPT !.pc = pc]
<1>0. /\ r \in MeetingRequest /\ MaxEvents \in Nat
      /\ meeting \in [there : BOOLEAN, event : 0..MaxEvents, error : BOOLEAN]
      /\ google \in GoogleType
      /\ google.events \subseteq 1..google.made
      /\ calendarHistory \in [raced : BOOLEAN, lost : BOOLEAN, offline : BOOLEAN]
      /\ calendarWorker \in [Workers -> MeetingRequest]
      /\ r.pc = "save" => r.event # 0
  BY CalendarAssumption DEF CalendarInv, CalendarTyped, Google!CalendarSyncAssumption
<1>1. ASSUME NEW pc \in MeetingSteps \ {"save"}
      PROVE  On(pc) \in MeetingRequest /\ On(pc).pc = pc
  BY <1>0 DEF MeetingRequest
<1>2. Google!Idle \in MeetingRequest
  BY <1>0 DEF MeetingRequest, MeetingSteps, Google!Idle, Google!None
<1>3. CASE \/ Google!Create(w)
           \/ \E op \in {"get", "update", "delete"} : Google!Get(w, op)
  <2>1. ASSUME NEW q \in MeetingRequest, q.pc = "sync",
               calendarWorker' = [calendarWorker EXCEPT ![w] = q],
               r.pc = "idle",
               meeting' \in [there : BOOLEAN, event : 0..MaxEvents, error : BOOLEAN],
               UNCHANGED <<conn, google, calendarRefresh, signIn, calendarHistory>>
        PROVE  CalendarInv'
    <3>1. Handles(w, q)
      BY <1>0, <2>1 DEF Handles, OnTheWay
    <3> QED BY <2>1, <3>1, HandledKeeps
  <2>2. CASE Google!Create(w)
    <3> DEFINE q == [Google!Idle EXCEPT !.pc = "sync", !.op = "create"]
    <3>1. q \in MeetingRequest /\ q.pc = "sync"
      BY <1>2 DEF MeetingRequest, MeetingSteps
    <3>2. meeting' \in [there : BOOLEAN, event : 0..MaxEvents, error : BOOLEAN]
      <4>1. 0 \in 0..MaxEvents
        BY <1>0
      <4> QED BY <2>2, <4>1 DEF Google!Create, Google!NoMeeting, Google!None
    <3>3. calendarWorker' = [calendarWorker EXCEPT ![w] = q]
      BY <2>2 DEF Google!Create, Google!Set
    <3> HIDE DEF q
    <3> QED BY <1>0, <2>1, <2>2, <3>1, <3>2, <3>3 DEF Google!Create
  <2>3. ASSUME NEW op \in {"get", "update", "delete"}, Google!Get(w, op)
        PROVE  CalendarInv'
    <3> DEFINE q == [Google!Idle EXCEPT !.pc = "sync", !.op = op, !.event = meeting.event]
    <3>1. q \in MeetingRequest /\ q.pc = "sync"
      BY <1>0, <1>2 DEF MeetingRequest, MeetingSteps
    <3>2. calendarWorker' = [calendarWorker EXCEPT ![w] = q]
      BY <2>3 DEF Google!Get, Google!Set
    <3> HIDE DEF q
    <3> QED BY <1>0, <2>1, <2>3, <3>1, <3>2 DEF Google!Get
  <2> QED BY <1>3, <2>2, <2>3
<1>4. CASE Google!Sync(w)
  <2>1. PICK pc \in {"token", "synced"} :
          /\ calendarWorker' = [calendarWorker EXCEPT ![w] = On(pc)]
          /\ pc = "synced" => calendarHistory'.offline
    BY <1>0, <1>4 DEF Google!Sync, Google!Set
  <2>2. Handles(w, On(pc))
    BY <1>0, <1>1, <1>4, <2>1 DEF Handles, OnTheWay, Google!Sync, MeetingSteps
  <2> QED BY <1>1, <1>4, <2>2, HandledKeeps DEF Google!Sync, MeetingSteps
<1>5. CASE Google!TokenFresh(w)
  <2>1. PICK pc \in {"call", "failed"} :
          calendarWorker' = [calendarWorker EXCEPT ![w] = On(pc)]
    BY <1>5 DEF Google!TokenFresh, Google!Set, Google!Fails
  <2>2. Handles(w, On(pc))
    BY <1>0, <1>1, <1>5, <2>1 DEF Handles, OnTheWay, Google!TokenFresh, MeetingSteps
  <2> QED BY <1>1, <1>5, <2>2, HandledKeeps DEF Google!TokenFresh, MeetingSteps
<1>6. CASE Google!TokenStale(w)
  <2>1. Handles(w, On("waiting"))
    BY <1>0, <1>1, <1>6 DEF Handles, OnTheWay, Google!TokenStale, Google!Set, MeetingSteps
  <2> QED BY <1>1, <1>6, <2>1, HandledKeeps DEF Google!TokenStale, MeetingSteps
<1>7. CASE Google!CallAnswered(w)
  <2> DEFINE n == google.made + 1
             s == [r EXCEPT !.pc = "save", !.event = n]
  <2>2. /\ google' = [google EXCEPT !.made = n, !.events = @ \cup {n}]
        /\ calendarWorker' = [calendarWorker EXCEPT ![w] = s]
        /\ UNCHANGED <<conn, meeting, signIn, calendarHistory>>
    BY <1>7 DEF Google!CallAnswered, Google!Set, Google!New
  <2>3. /\ google' \in GoogleType
        /\ google'.events \subseteq 1..google'.made /\ google'.grants = google.grants
        /\ n \in 0..MaxEvents /\ n # 0
    BY <1>0, <1>7, <2>2, EventMade DEF Google!CallAnswered
  <2>1. s \in MeetingRequest /\ s.pc = "save" /\ s.event # 0
    <3>1. r \in MeetingRequest /\ n # 0
      BY <1>0, <2>3
    <3> HIDE DEF r, n
    <3> QED BY <2>3, <3>1 DEF MeetingRequest, MeetingSteps
  <2>4. Handles(w, s)
    BY <1>0, <2>1, <2>2, <2>3 DEF Handles, OnTheWay
  <2> QED BY <1>7, <2>1, <2>4, HandledKeeps DEF Google!CallAnswered
<1>8. CASE Google!CallLost(w) \/ Google!CallRefused(w)
  <2> DEFINE again == [r EXCEPT !.attempt = @ + 1]
  <2>1. r.attempt < 3 => again \in MeetingRequest /\ again.pc = r.pc
    BY <1>0 DEF MeetingRequest
  <2>2. PICK s \in {again, On("failed")} :
          /\ calendarWorker' = [calendarWorker EXCEPT ![w] = s]
          /\ s = again => r.attempt < 3 \/ s = On("failed")
    BY <1>8 DEF Google!CallLost, Google!CallRefused, Google!Set, Google!Fails
  <2>3. r.pc = "call" /\ s \in MeetingRequest /\ s.pc \in {"call", "failed"}
    BY <1>1, <1>8, <2>1, <2>2 DEF Google!CallLost, Google!CallRefused, MeetingSteps
  <2>4. /\ google' \in GoogleType
        /\ google'.events \subseteq 1..google'.made /\ google'.grants = google.grants
    <3>1. CASE google' = google
      BY <1>0, <3>1
    <3>2. CASE google.made < MaxEvents
               /\ google' = [google EXCEPT !.made = google.made + 1,
                                           !.events = @ \cup {google.made + 1}]
      BY <1>0, <3>2, EventMade
    <3> QED BY <1>8, <3>1, <3>2 DEF Google!CallLost, Google!CallRefused, Google!New
  <2>5. /\ calendarHistory' \in [raced : BOOLEAN, lost : BOOLEAN, offline : BOOLEAN]
        /\ calendarHistory'.raced = calendarHistory.raced
        /\ calendarHistory'.offline = calendarHistory.offline
        /\ UNCHANGED <<conn, meeting, signIn>>
    BY <1>0, <1>8 DEF Google!CallLost, Google!CallRefused
  <2>6. Handles(w, s)
    BY <1>0, <2>2, <2>3, <2>4, <2>5 DEF Handles, OnTheWay
  <2> QED BY <1>8, <2>3, <2>6, HandledKeeps DEF Google!CallLost, Google!CallRefused
<1>9. CASE Google!SaveEvent(w)
  <2>1. PICK pc \in {"synced", "failed"} :
          /\ calendarWorker' = [calendarWorker EXCEPT ![w] = On(pc)]
          /\ pc = "synced" =>
               /\ meeting.there /\ meeting' = [meeting EXCEPT !.event = r.event, !.error = FALSE]
          /\ pc = "failed" => meeting' = meeting
    BY <1>9 DEF Google!SaveEvent, Google!Set, Google!Fails
  <2>2. On(pc) \in MeetingRequest /\ On(pc).pc = pc /\ r.event \in 0..MaxEvents
    BY <1>0, <1>1 DEF MeetingSteps, MeetingRequest
  <2>3. r.pc = "save" /\ UNCHANGED <<conn, google, calendarRefresh, signIn, calendarHistory>>
    BY <1>9 DEF Google!SaveEvent
  <2> HIDE DEF On, r
  <2>4. Handles(w, On(pc))
    BY <1>0, <2>1, <2>2, <2>3 DEF Handles, OnTheWay
  <2> QED BY <2>2, <2>3, <2>4, HandledKeeps DEF r
<1>10. CASE Google!MarkFailure(w)
  <2> DEFINE s == [r EXCEPT !.pc = "synced", !.event = meeting.event]
  <2>1. s \in MeetingRequest /\ s.pc = "synced"
    BY <1>0 DEF MeetingRequest, MeetingSteps
  <2>2. CASE meeting.there
    <3>1. Handles(w, s)
      BY <1>0, <1>10, <2>1, <2>2 DEF Handles, OnTheWay, Google!MarkFailure, Google!Set,
         Google!FailureNoted
    <3> QED BY <1>10, <2>1, <3>1, HandledKeeps DEF Google!MarkFailure
  <2>3. CASE ~meeting.there
    <3>1. Handles(w, Google!Idle)
      BY <1>0, <1>2, <1>10, <2>3 DEF Handles, OnTheWay, Google!MarkFailure, Google!Set,
         Google!Idle
    <3> QED BY <1>10, <3>1, HandledKeeps DEF Google!MarkFailure, Google!Idle
  <2> QED BY <2>2, <2>3
<1>11. CASE Google!DeleteRow(w)
  <2>1. PICK s \in {On("remove"), Google!Idle} :
          calendarWorker' = [calendarWorker EXCEPT ![w] = s]
    BY <1>11 DEF Google!DeleteRow, Google!Set
  <2>2. s \in MeetingRequest /\ s.pc \in {"remove", "idle"}
    <3>1. On("remove") \in MeetingRequest /\ On("remove").pc = "remove"
      BY <1>1 DEF MeetingSteps
    <3> HIDE DEF On
    <3> QED BY <1>2, <2>1, <3>1 DEF Google!Idle
  <2>3. Handles(w, s)
    BY <1>0, <1>11, <2>1, <2>2 DEF Handles, OnTheWay, Google!DeleteRow, Google!NoMeeting,
       Google!None
  <2> QED BY <1>11, <2>2, <2>3, HandledKeeps DEF Google!DeleteRow
<1>12. CASE Google!Finish(w) \/ Google!DeleteEvent(w) \/ Google!DeleteEventFails(w)
  <2>1. Handles(w, Google!Idle)
    BY <1>0, <1>2, <1>12 DEF GoogleType, Handles, OnTheWay, Google!Finish, Google!DeleteEvent,
       Google!DeleteEventFails, Google!Set, Google!Idle
  <2> QED BY <1>12, <2>1, HandledKeeps
          DEF Google!Finish, Google!DeleteEvent, Google!DeleteEventFails, Google!Idle
<1> QED BY <1>3, <1>4, <1>5, <1>6, <1>7, <1>8, <1>9, <1>10, <1>11, <1>12 DEF Google!Work

LEMMA CalendarStep == CalendarInv /\ [Google!Next]_(Google!vars) => CalendarInv'
<1> SUFFICES ASSUME CalendarInv, [Google!Next]_(Google!vars) PROVE CalendarInv'
  OBVIOUS
<1>1. CASE UNCHANGED Google!vars
  BY <1>1 DEF Google!vars, CalendarInv, CalendarTyped, RefreshAwaited, Pursued, GrantHeld
<1> QED BY <1>1, AccountKeeps, RenewKeeps, WorkKeeps DEF Google!Next

LEMMA CalendarPromised == CalendarInv => CalendarKept
<1> SUFFICES ASSUME CalendarInv
             PROVE  Google!TypeOK /\ Google!SyncedOrSaid /\ Google!GrantKept
  BY DEF CalendarKept
<1>1. Google!TypeOK
  BY DEF CalendarInv, CalendarTyped, RefreshAwaited, Google!TypeOK
<1>2. Google!SyncedOrSaid
  BY DEF CalendarInv, CalendarTyped, Pursued, OnTheWay, Google!SyncedOrSaid,
     Google!Resting, Google!None
<1>3. Google!GrantKept
  BY DEF CalendarInv, GrantHeld, Google!GrantKept, Google!None
<1> QED BY <1>1, <1>2, <1>3

\* For any number of requests, sign-ins and faults, a meeting made with a
\* calendar at hand has its event or says that the sync failed, and who signs in
\* again keeps the grant he had (meetings.service.ts, google-auth.service.ts).
THEOREM CalendarIsKept == MCSpec => []CalendarKept
<1>1. MCInit => CalendarInv
  BY CalendarInit DEF MCInit
<1>2. CalendarInv /\ [MCNext]_parts => CalendarInv'
  <2>1. [MCNext]_parts => [Google!Next]_(Google!vars)
    BY DEF MCNext, OfSessions, parts, calendar, Google!vars
  <2> QED BY <2>1, CalendarStep
<1> QED BY <1>1, <1>2, CalendarPromised, PTL DEF MCSpec

-----------------------------------------------------------------------------
(* The connection to Instagram                                             *)

Given(t) == t \in 1..Len(instagramTokens)
Good(t) == Instagram!Good(t)

TokenOf == [account : Accounts, login : BOOLEAN, life : {"fresh", "due", "expired"},
            dead : BOOLEAN]
RowOf == [there : BOOLEAN, account : Accounts \cup {0}, token : Nat, login : BOOLEAN,
          status : {"DISCONNECTED", "CONNECTED", "DEGRADED", "ERROR"}]
BrowserOf == [pc : {"idle", "consume", "exchange", "subscribe", "save"},
              state : States \cup {0}, token : Nat, good : BOOLEAN]
CallerOf == [pc : {"idle", "read", "waiting", "call", "note"}, test : BOOLEAN,
             conn : RowOf, note : {"none", "CONNECTED", "DEGRADED", "ERROR"}]
RenewalOf == [pc : {"none", "ask", "save", "invalid"}, conn : RowOf, token : Nat]

\* A row that is there has a token that was given.
Read(c) == c.there => Given(c.token) /\ c.account \in Accounts
TokensTyped ==
  instagramTokens \in Seq(TokenOf) /\ Len(instagramTokens) <= MaxTokens
RowTyped == /\ instagramRow \in RowOf /\ Read(instagramRow)
            /\ ~instagramRow.there => instagramRow.token = 0 /\ ~instagramRow.login
BrowsersTyped ==
  /\ states \in [States -> {"open", "used"}]
  /\ browser \in [Browsers -> BrowserOf]
  /\ \A b \in Browsers :
       /\ browser[b].pc \in {"consume", "exchange"} => browser[b].state \in States
       /\ browser[b].pc \in {"subscribe", "save"} => Given(browser[b].token)
CallersTyped ==
  /\ caller \in [Callers -> CallerOf]
  /\ \A k \in Callers :
       /\ caller[k].pc \in {"waiting", "call"} => caller[k].conn.there
       /\ Read(caller[k].conn)
       /\ caller[k].pc = "note" => caller[k].note # "none"
RenewalTyped ==
  /\ instagramRefresh \in RenewalOf
  /\ instagramRefresh.pc # "none" =>
       instagramRefresh.conn.there /\ Read(instagramRefresh.conn)
  /\ instagramRefresh.pc = "save" => Given(instagramRefresh.token)
HistoryTyped ==
  instagramHistory \in [raced : BOOLEAN, wanted : BOOLEAN, grants : [States -> Nat]]

RenewalAwaited ==
  instagramRefresh.pc # "none" <=> \E k \in Callers : caller[k].pc = "waiting"

\* A sign-in that was not used was not redeemed, and one callback of those that
\* brought it is about to redeem it.
Redeemed ==
  \A s \in States :
    /\ instagramHistory.grants[s] <= 1
    /\ states[s] = "open" => instagramHistory.grants[s] = 0
    /\ \A b \in Browsers : browser[b].pc = "exchange" /\ browser[b].state = s =>
         /\ states[s] = "used" /\ instagramHistory.grants[s] = 0
         /\ \A c \in Browsers :
              browser[c].pc = "exchange" /\ browser[c].state = s => c = b

\* Of token u nothing better can be said than of t: both are of one account, and
\* when t is no longer good neither is u.
NoBetter(u, t) ==
  /\ instagramTokens[u].account = instagramTokens[t].account
  /\ ~Good(t) => ~Good(u)

\* While nothing raced, a call or a renewal speaks of the row as it is: what
\* tells of an error of its token tells of one of the row's.
Followed ==
  ~instagramHistory.raced /\ instagramRow.there =>
    /\ instagramTokens[instagramRow.token].account = instagramRow.account
    /\ instagramRow.status = "ERROR" => ~Good(instagramRow.token)
    /\ \A k \in Callers :
         /\ caller[k].pc \in {"waiting", "call"} =>
              NoBetter(instagramRow.token, caller[k].conn.token)
         /\ caller[k].pc = "note" /\ caller[k].note = "ERROR" =>
              ~Good(instagramRow.token)
    /\ instagramRefresh.pc # "none" =>
         /\ instagramRow.token = instagramRefresh.conn.token
         /\ instagramRow.account = instagramRefresh.conn.account
    /\ instagramRefresh.pc = "save" =>
         NoBetter(instagramRefresh.token, instagramRow.token)
    /\ instagramRefresh.pc = "invalid" => ~Good(instagramRow.token)

InstagramTyped == /\ TokensTyped /\ RowTyped /\ BrowsersTyped /\ CallersTyped
                  /\ RenewalTyped /\ HistoryTyped
InstagramInv == /\ InstagramTyped /\ RenewalAwaited /\ Redeemed /\ Followed
                /\ Instagram!DisconnectHolds

-----------------------------------------------------------------------------
\* Tokens are given one after the other; they get older, and do not come back.
LEMMA TokenGiven ==
  ASSUME TokensTyped, NEW n, n = Len(instagramTokens), n < MaxTokens,
         NEW a \in Accounts, NEW login \in BOOLEAN,
         instagramTokens' = Append(instagramTokens, Instagram!Given(a, login))
  PROVE  /\ TokensTyped' /\ Given(n + 1)' /\ n + 1 \in Nat
         /\ instagramTokens'[n + 1].account = a /\ instagramTokens'[n + 1].login = login
         /\ Good(n + 1)'
         /\ \A t : Given(t) => /\ Given(t)' /\ instagramTokens'[t] = instagramTokens[t]
                               /\ Good(t)' <=> Good(t)
<1> DEFINE new == Instagram!Given(a, login)
<1>1. /\ new \in TokenOf /\ ~new.dead /\ new.life = "fresh"
      /\ new.account = a /\ new.login = login
  BY DEF Instagram!Given, TokenOf
<1>2. n \in Nat /\ MaxTokens \in Nat /\ n < MaxTokens /\ instagramTokens \in Seq(TokenOf)
  BY InstagramAssumption DEF Instagram!InstagramAccountAssumption, TokensTyped
<1> HIDE DEF new
<1>3. /\ instagramTokens' \in Seq(TokenOf) /\ Len(instagramTokens') = n + 1
      /\ instagramTokens'[n + 1] = new
      /\ \A t \in 1..n : instagramTokens'[t] = instagramTokens[t]
  BY <1>1, <1>2 DEF new
<1>4. TokensTyped' /\ \A t \in 1..(n + 1) : Given(t)'
  BY <1>2, <1>3 DEF TokensTyped, Given
<1> QED BY <1>1, <1>2, <1>3, <1>4 DEF Given, Good, Instagram!Good

\* What time and the owner of the account do to the tokens.
LEMMA TokensAge ==
  ASSUME TokensTyped, NEW f,
         f \in [DOMAIN instagramTokens -> TokenOf], instagramTokens' = f
  PROVE  TokensTyped' /\ \A t : Given(t)' <=> Given(t)
<1> DEFINE n == Len(instagramTokens)
<1>1. n \in Nat /\ DOMAIN instagramTokens = 1..n
  BY DEF TokensTyped
<1>2. f \in [1..n -> TokenOf]
  BY <1>1
<1>3. f \in Seq(TokenOf) /\ Len(f) = n
  BY <1>1, <1>2
<1> QED BY <1>3 DEF TokensTyped, Given

LEMMA TimePassesOn ==
  ASSUME TokensTyped, Instagram!TimePasses
  PROVE  /\ TokensTyped' /\ \A t : Given(t)' <=> Given(t)
         /\ \A t : Given(t) =>
              /\ instagramTokens'[t].account = instagramTokens[t].account
              /\ ~Good(t) => ~Good(t)'
<1> DEFINE F(t) == IF instagramTokens[t].login
                   THEN [instagramTokens[t] EXCEPT !.life = Instagram!Older[@]]
                   ELSE instagramTokens[t]
<1>1. /\ DOMAIN instagramTokens = 1..Len(instagramTokens)
      /\ \A t \in DOMAIN instagramTokens : instagramTokens[t] \in TokenOf
  BY DEF TokensTyped
<1>2. \A t \in DOMAIN instagramTokens :
        /\ F(t) \in TokenOf /\ F(t).account = instagramTokens[t].account
        /\ F(t).dead = instagramTokens[t].dead
        /\ instagramTokens[t].life = "expired" => F(t).life = "expired"
  BY <1>1 DEF TokenOf, Instagram!Older
<1>3. instagramTokens' = [t \in DOMAIN instagramTokens |-> F(t)]
  BY DEF Instagram!TimePasses
<1> HIDE DEF F
<1>4. instagramTokens' \in [DOMAIN instagramTokens -> TokenOf]
  BY <1>2, <1>3
<1>5. TokensTyped' /\ \A t : Given(t)' <=> Given(t)
  BY <1>4, TokensAge
<1> QED BY <1>1, <1>2, <1>3, <1>5 DEF Given, Good, Instagram!Good

LEMMA AccountWithdrawn ==
  ASSUME TokensTyped, NEW account \in Accounts, Instagram!Withdrawn(account)
  PROVE  /\ TokensTyped' /\ \A t : Given(t)' <=> Given(t)
         /\ \A t : Given(t) =>
              /\ instagramTokens'[t].account = instagramTokens[t].account
              /\ Good(t)' <=> Good(t) /\ instagramTokens[t].account # account
<1> DEFINE F(t) == [instagramTokens[t] EXCEPT !.dead = @ \/ instagramTokens[t].account = account]
<1>1. /\ DOMAIN instagramTokens = 1..Len(instagramTokens)
      /\ \A t \in DOMAIN instagramTokens : instagramTokens[t] \in TokenOf
  BY DEF TokensTyped
<1>2. \A t \in DOMAIN instagramTokens :
        /\ F(t) \in TokenOf /\ F(t).account = instagramTokens[t].account
        /\ F(t).dead <=> instagramTokens[t].dead \/ instagramTokens[t].account = account
        /\ F(t).life = instagramTokens[t].life
  BY <1>1 DEF TokenOf
<1>3. instagramTokens' = [t \in DOMAIN instagramTokens |-> F(t)]
  BY DEF Instagram!Withdrawn
<1> HIDE DEF F
<1>4. instagramTokens' \in [DOMAIN instagramTokens -> TokenOf]
  BY <1>2, <1>3
<1>5. TokensTyped' /\ \A t : Given(t)' <=> Given(t)
  BY <1>4, TokensAge
<1> QED BY <1>1, <1>2, <1>3, <1>5 DEF Given, Good, Instagram!Good

LEMMA InstagramInit == Instagram!Init => InstagramInv
<1> SUFFICES ASSUME Instagram!Init PROVE InstagramInv
  OBVIOUS
<1>1. /\ Instagram!NoRow \in RowOf /\ Read(Instagram!NoRow)
      /\ Instagram!IdleBrowser \in BrowserOf
  BY DEF Instagram!NoRow, Instagram!IdleBrowser, Instagram!None, RowOf, Read, BrowserOf
<1>2. Instagram!IdleCaller \in CallerOf /\ Instagram!NoRefresh \in RenewalOf
  BY <1>1 DEF Instagram!IdleCaller, Instagram!NoRefresh, Instagram!None, CallerOf, RenewalOf
<1>3. TokensTyped /\ RowTyped /\ HistoryTyped
  BY <1>1, InstagramAssumption DEF Instagram!Init, TokensTyped, RowTyped, HistoryTyped,
     Instagram!InstagramAccountAssumption, Instagram!NoRow, Instagram!None
<1>4. /\ \A b \in Browsers : browser[b] = Instagram!IdleBrowser
      /\ \A k \in Callers : caller[k] = Instagram!IdleCaller
      /\ instagramRefresh = Instagram!NoRefresh
  BY DEF Instagram!Init
<1>5. BrowsersTyped
  BY <1>1, <1>4 DEF Instagram!Init, BrowsersTyped, Instagram!IdleBrowser
<1>6. CallersTyped
  BY <1>1, <1>2, <1>4 DEF Instagram!Init, CallersTyped, Instagram!IdleCaller
<1>7. RenewalTyped
  BY <1>1, <1>2, <1>4 DEF RenewalTyped, Instagram!NoRefresh
<1>8. RenewalAwaited
  BY <1>4 DEF RenewalAwaited, Instagram!NoRefresh, Instagram!IdleCaller
<1>9. Redeemed
  BY <1>4 DEF Instagram!Init, Redeemed, Instagram!IdleBrowser
<1>10. Followed /\ Instagram!DisconnectHolds
  BY DEF Instagram!Init, Followed, Instagram!DisconnectHolds, Instagram!NoRow
<1> QED BY <1>3, <1>5, <1>6, <1>7, <1>8, <1>9, <1>10 DEF InstagramInv, InstagramTyped

-----------------------------------------------------------------------------
\* What was read stays so: a token that was given has been given.
LEMMA ReadStays ==
  ASSUME \A t : Given(t) => Given(t)'
  PROVE  /\ CallersTyped /\ UNCHANGED caller => CallersTyped'
         /\ RenewalTyped /\ UNCHANGED instagramRefresh => RenewalTyped'
         /\ RowTyped /\ UNCHANGED instagramRow => RowTyped'
         /\ BrowsersTyped /\ UNCHANGED <<states, browser>> => BrowsersTyped'
<1>1. CallersTyped /\ UNCHANGED caller => CallersTyped'
  BY DEF CallersTyped, Read
<1>2. RenewalTyped /\ UNCHANGED instagramRefresh => RenewalTyped'
  BY DEF RenewalTyped, Read
<1>3. RowTyped /\ UNCHANGED instagramRow => RowTyped'
  BY DEF RowTyped, Read
<1>4. BrowsersTyped /\ UNCHANGED <<states, browser>> => BrowsersTyped'
  BY DEF BrowsersTyped
<1> QED BY <1>1, <1>2, <1>3, <1>4

\* Whatever adds tokens, and leaves row, calls and renewal as they are.
LEMMA TokensOnly ==
  ASSUME Followed, InstagramTyped,
         \A t : Given(t) => /\ instagramTokens'[t].account = instagramTokens[t].account
                            /\ Good(t)' <=> Good(t),
         instagramHistory'.raced = instagramHistory.raced,
         UNCHANGED <<instagramRow, caller, instagramRefresh>>
  PROVE  Followed'
BY DEF Followed, InstagramTyped, RowTyped, CallersTyped, RenewalTyped, Read, NoBetter

LEMMA ReturnsKeeps ==
  ASSUME InstagramInv, NEW b \in Browsers,
         \/ \E s \in States : Instagram!Returns(b, s)
         \/ Instagram!Consume(b) \/ Instagram!ConnectFails(b) \/ Instagram!Subscribe(b)
  PROVE  InstagramInv'
<1> DEFINE r == browser[b]
<1>1. /\ UNCHANGED <<instagramRow, instagramTokens, caller, instagramRefresh,
                     instagramHistory>>
      /\ browser \in [Browsers -> BrowserOf] /\ r \in BrowserOf
      /\ states \in [States -> {"open", "used"}]
  BY DEF Instagram!Returns, Instagram!Consume, Instagram!ConnectFails,
     Instagram!Subscribe, InstagramInv, InstagramTyped, BrowsersTyped
<1>2. Instagram!IdleBrowser \in BrowserOf /\ Instagram!IdleBrowser.pc = "idle"
  BY DEF Instagram!IdleBrowser, Instagram!None, BrowserOf
<1>3. ASSUME NEW q \in BrowserOf, browser' = [browser EXCEPT ![b] = q],
             \/ /\ UNCHANGED states
                /\ q.pc = "consume" => q.state \in States
                /\ q.pc = "save" => Given(q.token)
                /\ q.pc \in {"idle", "consume", "save"}
             \/ /\ q.pc = "exchange" /\ q.state \in States /\ states[q.state] = "open"
                /\ states' = [states EXCEPT ![q.state] = "used"]
      PROVE  InstagramInv'
  <2>1. /\ browser'[b] = q /\ browser' \in [Browsers -> BrowserOf]
        /\ \A c \in Browsers : c # b => browser'[c] = browser[c]
    BY <1>1, <1>3
  <2>2. BrowsersTyped'
    BY <1>1, <1>3, <2>1 DEF InstagramInv, InstagramTyped, BrowsersTyped, Given
  <2>3. InstagramTyped'
    BY <1>1, <2>2 DEF InstagramInv, InstagramTyped, TokensTyped, RowTyped, CallersTyped,
       RenewalTyped, HistoryTyped, Read, Given
  <2>4. Redeemed'
    BY <1>1, <1>3, <2>1 DEF InstagramInv, Redeemed
  <2>5. RenewalAwaited' /\ Followed' /\ Instagram!DisconnectHolds'
    BY <1>1 DEF InstagramInv, RenewalAwaited, Followed, Instagram!DisconnectHolds,
       NoBetter, Good, Instagram!Good
  <2> QED BY <2>3, <2>4, <2>5 DEF InstagramInv
<1>4. ASSUME NEW s \in States, Instagram!Returns(b, s) PROVE InstagramInv'
  <2> DEFINE q == [Instagram!IdleBrowser EXCEPT !.pc = "consume", !.state = s]
  <2>1. q \in BrowserOf /\ q.pc = "consume" /\ q.state = s
    BY <1>2 DEF BrowserOf
  <2>2. browser' = [browser EXCEPT ![b] = q] /\ UNCHANGED states
    BY <1>4 DEF Instagram!Returns, Instagram!SetB
  <2> HIDE DEF q
  <2> QED BY <1>3, <2>1, <2>2
<1>5. CASE Instagram!Consume(b)
  <2> DEFINE q == [r EXCEPT !.pc = "exchange"]
  <2>0. r.state \in States
    BY <1>5 DEF Instagram!Consume, InstagramInv, InstagramTyped, BrowsersTyped
  <2>1. CASE states[r.state] = "open"
    <3>1. q \in BrowserOf /\ q.pc = "exchange" /\ q.state = r.state
      BY <1>1 DEF BrowserOf
    <3>2. /\ browser' = [browser EXCEPT ![b] = q]
          /\ states' = [states EXCEPT ![r.state] = "used"]
      BY <1>5, <2>1 DEF Instagram!Consume, Instagram!SetB, Instagram!Unused
    <3> HIDE DEF q, r
    <3> QED BY <1>3, <2>0, <2>1, <3>1, <3>2
  <2>2. CASE states[r.state] # "open"
    <3>1. browser' = [browser EXCEPT ![b] = Instagram!IdleBrowser] /\ UNCHANGED states
      BY <1>5, <2>2 DEF Instagram!Consume, Instagram!SetB, Instagram!Unused
    <3> QED BY <1>2, <1>3, <3>1
  <2> QED BY <2>1, <2>2
<1>6. CASE Instagram!ConnectFails(b)
  <2>1. browser' = [browser EXCEPT ![b] = Instagram!IdleBrowser] /\ UNCHANGED states
    BY <1>6 DEF Instagram!ConnectFails, Instagram!SetB
  <2> QED BY <1>2, <1>3, <2>1
<1>7. CASE Instagram!Subscribe(b)
  <2>1. PICK good \in BOOLEAN :
          browser' = [browser EXCEPT ![b] = [r EXCEPT !.pc = "save", !.good = good]]
    BY <1>7 DEF Instagram!Subscribe, Instagram!SetB
  <2> DEFINE q == [r EXCEPT !.pc = "save", !.good = good]
  <2>2. q \in BrowserOf /\ q.pc = "save" /\ q.token = r.token
    BY <1>1 DEF BrowserOf
  <2>3. Given(r.token) /\ UNCHANGED states
    BY <1>7 DEF Instagram!Subscribe, InstagramInv, InstagramTyped, BrowsersTyped
  <2> HIDE DEF q, r
  <2> QED BY <1>3, <2>1, <2>2, <2>3 DEF q
<1> QED BY <1>4, <1>5, <1>6, <1>7

\* A token is given for a code, or pasted.
LEMMA ExchangeKeeps ==
  ASSUME InstagramInv, NEW b \in Browsers, NEW account \in Accounts,
         Instagram!Exchange(b, account) \/ Instagram!Paste(b, account)
  PROVE  InstagramInv'
<1>1. PICK n : n = Len(instagramTokens)
  OBVIOUS
<1>2. PICK login \in BOOLEAN :
        instagramTokens' = Append(instagramTokens, Instagram!Given(account, login))
  BY DEF Instagram!Exchange, Instagram!Paste
<1>3. n < MaxTokens /\ UNCHANGED <<instagramRow, states, caller, instagramRefresh>>
  BY <1>1 DEF Instagram!Exchange, Instagram!Paste
<1>4. /\ TokensTyped' /\ Given(n + 1)' /\ n + 1 \in Nat
      /\ \A t : Given(t) => /\ Given(t)' /\ instagramTokens'[t] = instagramTokens[t]
                            /\ Good(t)' <=> Good(t)
  BY <1>1, <1>2, <1>3, TokenGiven DEF InstagramInv, InstagramTyped
<1>5. /\ browser \in [Browsers -> BrowserOf] /\ browser[b] \in BrowserOf
      /\ Instagram!IdleBrowser \in BrowserOf
  BY DEF Instagram!IdleBrowser, Instagram!None, BrowserOf, InstagramInv, InstagramTyped,
     BrowsersTyped
<1>6. PICK q \in BrowserOf : /\ q.pc = "subscribe" /\ q.token = n + 1
                             /\ browser' = [browser EXCEPT ![b] = q]
  <2> DEFINE A(r) == [r EXCEPT !.pc = "subscribe", !.token = n + 1]
  <2>1. \A r \in BrowserOf : /\ A(r) \in BrowserOf /\ A(r).pc = "subscribe"
                             /\ A(r).token = n + 1
    BY <1>4 DEF BrowserOf
  <2>2. \/ browser' = [browser EXCEPT ![b] = A(browser[b])]
        \/ browser' = [browser EXCEPT ![b] = A(Instagram!IdleBrowser)]
    BY <1>1 DEF Instagram!Exchange, Instagram!Paste, Instagram!SetB
  <2> HIDE DEF A
  <2> QED BY <1>5, <2>1, <2>2
<1>7. /\ browser'[b] = q /\ browser' \in [Browsers -> BrowserOf]
      /\ \A c \in Browsers : c # b => browser'[c] = browser[c]
  BY <1>5, <1>6
<1>8. BrowsersTyped'
  BY <1>3, <1>4, <1>6, <1>7 DEF InstagramInv, InstagramTyped, BrowsersTyped
<1>9. HistoryTyped' /\ Redeemed' /\ instagramHistory'.raced = instagramHistory.raced
      /\ instagramHistory'.wanted = instagramHistory.wanted
  <2>1. CASE Instagram!Exchange(b, account)
    <3> DEFINE s == browser[b].state
               g == instagramHistory.grants
    <3>1. s \in States /\ browser[b].pc = "exchange"
      BY <2>1 DEF Instagram!Exchange, InstagramInv, InstagramTyped, BrowsersTyped
    <3>2. g \in [States -> Nat] /\ g[s] = 0
      BY <3>1 DEF InstagramInv, InstagramTyped, HistoryTyped, Redeemed
    <3>3. instagramHistory' = [instagramHistory EXCEPT !.grants = [g EXCEPT ![s] = g[s] + 1]]
      BY <2>1 DEF Instagram!Exchange
    <3>4. [g EXCEPT ![s] = g[s] + 1] \in [States -> Nat]
      BY <3>1, <3>2
    <3>5. HistoryTyped' /\ instagramHistory'.raced = instagramHistory.raced
          /\ instagramHistory'.wanted = instagramHistory.wanted
          /\ instagramHistory'.grants = [g EXCEPT ![s] = g[s] + 1]
      <4> DEFINE h == [g EXCEPT ![s] = g[s] + 1]
      <4> HIDE DEF h
      <4> QED BY <3>3, <3>4 DEF InstagramInv, InstagramTyped, HistoryTyped, h
    <3>6. /\ \A z \in States : z # s => instagramHistory'.grants[z] = g[z]
          /\ instagramHistory'.grants[s] = 1
      BY <3>1, <3>2, <3>5
    <3> HIDE DEF s, g
    <3>7. Redeemed'
      BY <1>3, <1>6, <1>7, <3>1, <3>6 DEF InstagramInv, Redeemed, s, g
    <3> QED BY <3>5, <3>7
  <2>2. CASE Instagram!Paste(b, account)
    BY <1>3, <1>6, <1>7, <2>2
       DEF Instagram!Paste, InstagramInv, InstagramTyped, HistoryTyped, Redeemed
  <2> QED BY <2>1, <2>2
<1>10. InstagramTyped'
  BY <1>3, <1>4, <1>8, <1>9, ReadStays DEF InstagramInv, InstagramTyped
<1>11. Followed'
  BY <1>3, <1>4, <1>9, TokensOnly DEF InstagramInv
<1>12. RenewalAwaited' /\ Instagram!DisconnectHolds'
  BY <1>3, <1>9 DEF InstagramInv, RenewalAwaited, Instagram!DisconnectHolds
<1> QED BY <1>9, <1>10, <1>11, <1>12 DEF InstagramInv

\* The row is written by who connects, disconnects or notes a status.
LEMMA SaveKeeps ==
  ASSUME InstagramInv, NEW b \in Browsers, Instagram!Save(b)
  PROVE  InstagramInv'
<1> DEFINE t == browser[b].token
<1>1. /\ Given(t) /\ instagramTokens[t] \in TokenOf /\ t \in Nat /\ t # 0
      /\ browser \in [Browsers -> BrowserOf] /\ Instagram!IdleBrowser \in BrowserOf
  BY DEF Instagram!Save, Instagram!IdleBrowser, Instagram!None, InstagramInv,
     InstagramTyped, BrowsersTyped, BrowserOf, TokensTyped, Given
<1>2. PICK status \in {"CONNECTED", "DEGRADED"} :
        instagramRow' = [there |-> TRUE, account |-> instagramTokens[t].account,
                         token |-> t, login |-> instagramTokens[t].login,
                         status |-> status]
  BY DEF Instagram!Save, Instagram!AccountSaved
<1>3. /\ browser' = [browser EXCEPT ![b] = Instagram!IdleBrowser]
      /\ instagramHistory' = [instagramHistory EXCEPT
                                !.raced = @ \/ Instagram!Busy, !.wanted = TRUE]
      /\ UNCHANGED <<instagramTokens, states, caller, instagramRefresh>>
  BY DEF Instagram!Save, Instagram!SetB
<1>4. /\ browser'[b].pc = "idle" /\ browser' \in [Browsers -> BrowserOf]
      /\ \A c \in Browsers : c # b => browser'[c] = browser[c]
  BY <1>1, <1>3 DEF Instagram!IdleBrowser
<1>5. /\ instagramHistory \in [raced : BOOLEAN, wanted : BOOLEAN, grants : [States -> Nat]]
      /\ instagramHistory' \in [raced : BOOLEAN, wanted : BOOLEAN, grants : [States -> Nat]]
      /\ instagramHistory'.raced <=> instagramHistory.raced \/ Instagram!Busy
      /\ instagramHistory'.wanted /\ instagramHistory'.grants = instagramHistory.grants
  BY <1>3 DEF InstagramInv, InstagramTyped, HistoryTyped, Instagram!Busy
<1>6. \A u : Given(u) => Given(u)'
  BY <1>3 DEF Given
<1>7. RowTyped'
  BY <1>1, <1>2, <1>6 DEF RowTyped, RowOf, Read, TokenOf
<1>8. InstagramTyped'
  BY <1>3, <1>4, <1>5, <1>6, <1>7, ReadStays
     DEF InstagramInv, InstagramTyped, BrowsersTyped, TokensTyped, HistoryTyped
<1>9. RenewalAwaited' /\ Redeemed' /\ Instagram!DisconnectHolds'
  BY <1>3, <1>4, <1>5 DEF InstagramInv, RenewalAwaited, Redeemed, Instagram!DisconnectHolds
<1>10. Followed'
  BY <1>1, <1>2, <1>3, <1>5 DEF Followed, Instagram!Busy
<1> QED BY <1>8, <1>9, <1>10 DEF InstagramInv

LEMMA DisconnectKeeps ==
  ASSUME InstagramInv, Instagram!Disconnect
  PROVE  InstagramInv'
<1>1. /\ instagramRow' = Instagram!NoRow
      /\ instagramHistory' = [instagramHistory EXCEPT !.wanted = FALSE]
      /\ UNCHANGED <<instagramTokens, states, browser, caller, instagramRefresh>>
  BY DEF Instagram!Disconnect
<1>2. /\ ~instagramRow'.there /\ RowTyped'
  BY <1>1 DEF Instagram!NoRow, Instagram!None, RowTyped, RowOf, Read
<1>3. HistoryTyped' /\ instagramHistory'.grants = instagramHistory.grants
  BY <1>1 DEF InstagramInv, InstagramTyped, HistoryTyped
<1>4. InstagramTyped'
  BY <1>1, <1>2, <1>3, ReadStays DEF InstagramInv, InstagramTyped, TokensTyped, Given
<1>5. /\ RenewalAwaited' /\ Redeemed' /\ Followed' /\ Instagram!DisconnectHolds'
  BY <1>1, <1>2, <1>3
     DEF InstagramInv, RenewalAwaited, Redeemed, Followed, Instagram!DisconnectHolds
<1> QED BY <1>4, <1>5 DEF InstagramInv

\* A call that goes on as q, when nothing but it and the row's status change.
Goes(k, q) ==
  /\ q \in CallerOf /\ Read(q.conn)
  /\ caller' = [caller EXCEPT ![k] = q]
  /\ q.pc \in {"waiting", "call"} => q.conn.there
  /\ q.pc = "note" => q.note # "none"
  /\ UNCHANGED <<instagramTokens, states, browser, instagramHistory>>

LEMMA GoesTyped ==
  ASSUME InstagramInv, NEW k \in Callers, NEW q, Goes(k, q), RowTyped', RenewalTyped'
  PROVE  /\ InstagramTyped' /\ Redeemed'
         /\ caller'[k] = q /\ \A j \in Callers : j # k => caller'[j] = caller[j]
<1>1. /\ caller'[k] = q /\ caller' \in [Callers -> CallerOf]
      /\ \A j \in Callers : j # k => caller'[j] = caller[j]
  BY DEF Goes, InstagramInv, InstagramTyped, CallersTyped
<1>2. \A u : Given(u)' <=> Given(u)
  BY DEF Goes, Given
<1>3. CallersTyped'
  <2>1. \A c : Read(c)' <=> Read(c)
    BY <1>2 DEF Read
  <2> QED BY <1>1, <2>1 DEF Goes, InstagramInv, InstagramTyped, CallersTyped, Read
<1>4. BrowsersTyped'
  BY <1>2, ReadStays DEF Goes, InstagramInv, InstagramTyped
<1> QED BY <1>1, <1>3, <1>4 DEF Goes, InstagramInv, InstagramTyped, TokensTyped,
           HistoryTyped, Redeemed

\* A call that reads nothing, or the row, and tells of an error only if the row's
\* token has one.
LEMMA CallerKeeps ==
  ASSUME InstagramInv, NEW k \in Callers, NEW q, Goes(k, q),
         UNCHANGED <<instagramRow, instagramRefresh>>,
         caller[k].pc # "waiting", q.pc # "waiting",
         q.pc = "call" => q.conn = instagramRow,
         q.pc = "note" /\ q.note = "ERROR" /\ instagramRow.there
           /\ ~instagramHistory.raced => ~Good(instagramRow.token)
  PROVE  InstagramInv'
<1>1. \A u : Given(u)' <=> Given(u)
  BY DEF Goes, Given
<1>2. RowTyped' /\ RenewalTyped'
  BY <1>1, ReadStays DEF InstagramInv, InstagramTyped
<1>3. /\ InstagramTyped' /\ Redeemed'
      /\ caller'[k] = q /\ \A j \in Callers : j # k => caller'[j] = caller[j]
  BY <1>2, GoesTyped
<1>4. RenewalAwaited' /\ Instagram!DisconnectHolds'
  BY <1>3 DEF Goes, InstagramInv, RenewalAwaited, Instagram!DisconnectHolds
<1>5. Followed'
  <2>1. \A t : Good(t)' <=> Good(t)
    BY DEF Goes, Good, Instagram!Good
  <2>2. \A t, u : NoBetter(u, t)' <=> NoBetter(u, t)
    BY <2>1 DEF NoBetter, Goes
  <2>3. NoBetter(instagramRow.token, instagramRow.token)
    BY DEF NoBetter
  <2> QED BY <1>3, <2>1, <2>2, <2>3 DEF Goes, InstagramInv, Followed
<1> QED BY <1>3, <1>4, <1>5 DEF InstagramInv

LEMMA AsksKeeps ==
  ASSUME InstagramInv, NEW k \in Callers,
         \/ \E test \in BOOLEAN : Instagram!Ask(k, test)
         \/ Instagram!ReadRow(k) \/ Instagram!CallApi(k) \/ Instagram!TestApi(k)
         \/ Instagram!TestUnavailable(k)
  PROVE  InstagramInv'
<1> DEFINE r == caller[k]
<1>1. r \in CallerOf /\ Read(r.conn) /\ instagramRow \in RowOf /\ Read(instagramRow)
  BY DEF InstagramInv, InstagramTyped, CallersTyped, RowTyped
<1>2. /\ UNCHANGED <<instagramRow, instagramTokens, states, browser, instagramRefresh,
                     instagramHistory>>
      /\ r.pc # "waiting"
  BY DEF Instagram!Ask, Instagram!ReadRow, Instagram!CallApi, Instagram!TestApi,
     Instagram!TestUnavailable
<1>3. /\ Instagram!IdleCaller \in CallerOf /\ Read(Instagram!IdleCaller.conn)
      /\ Instagram!IdleCaller.pc = "idle"
  BY DEF Instagram!IdleCaller, Instagram!NoRow, Instagram!None, CallerOf, RowOf, Read
<1>4. ASSUME caller' = [caller EXCEPT ![k] = Instagram!IdleCaller] PROVE InstagramInv'
  <2>1. Goes(k, Instagram!IdleCaller)
    BY <1>2, <1>3, <1>4 DEF Goes
  <2> QED BY <1>2, <1>3, <2>1, CallerKeeps
<1>5. ASSUME NEW test \in BOOLEAN, Instagram!Ask(k, test) PROVE InstagramInv'
  <2> DEFINE q == [Instagram!IdleCaller EXCEPT !.pc = "read", !.test = test]
  <2>1. q \in CallerOf /\ q.pc = "read" /\ q.conn = Instagram!IdleCaller.conn
    BY <1>3 DEF CallerOf
  <2>2. caller' = [caller EXCEPT ![k] = q]
    BY <1>5 DEF Instagram!Ask, Instagram!SetC
  <2> HIDE DEF q
  <2>3. Goes(k, q)
    BY <1>2, <1>3, <2>1, <2>2 DEF Goes
  <2> QED BY <1>2, <2>1, <2>3, CallerKeeps
<1>6. CASE Instagram!ReadRow(k)
  <2> DEFINE u == Instagram!Usable(r.test)
             called == Instagram!Holding(k, "call")
             noted == [Instagram!Holding(k, "note") EXCEPT !.note = "ERROR"]
  <2>1. CASE ~u
    BY <1>4, <1>6, <2>1 DEF Instagram!ReadRow, Instagram!SetC
  <2>2. CASE u /\ Instagram!Life = "expired"
    <3>1. noted \in CallerOf /\ noted.pc = "note" /\ noted.note = "ERROR"
          /\ noted.conn = instagramRow
      BY <1>1 DEF Instagram!Holding, CallerOf
    <3>2. caller' = [caller EXCEPT ![k] = noted]
      BY <1>6, <2>2 DEF Instagram!ReadRow, Instagram!SetC
    <3>3. ~Good(instagramRow.token)
      BY <2>2 DEF Instagram!Life, Good, Instagram!Good
    <3> HIDE DEF noted
    <3>4. Goes(k, noted)
      BY <1>1, <1>2, <3>1, <3>2 DEF Goes
    <3> QED BY <1>2, <3>1, <3>3, <3>4, CallerKeeps
  <2>3. CASE u /\ Instagram!Life = "fresh"
    <3>1. called \in CallerOf /\ called.pc = "call" /\ called.conn = instagramRow
      BY <1>1 DEF Instagram!Holding, CallerOf
    <3>2. caller' = [caller EXCEPT ![k] = called]
      BY <1>6, <2>3 DEF Instagram!ReadRow, Instagram!SetC
    <3>3. instagramRow.there
      BY <2>3 DEF Instagram!Usable
    <3> HIDE DEF called
    <3>4. Goes(k, called)
      BY <1>1, <1>2, <3>1, <3>2, <3>3 DEF Goes
    <3> QED BY <1>2, <3>1, <3>4, CallerKeeps
  <2>4. Instagram!Life \in {"fresh", "due", "expired"}
    <3>1. instagramRow.login => instagramTokens[instagramRow.token] \in TokenOf
      BY DEF InstagramInv, InstagramTyped, RowTyped, RowOf, Read, TokensTyped, Given
    <3> QED BY <3>1 DEF Instagram!Life, TokenOf
  <2>5. ~(u /\ Instagram!Life = "due")
    BY <1>6 DEF Instagram!ReadRow
  <2> QED BY <2>1, <2>2, <2>3, <2>4, <2>5
<1>7. CASE Instagram!CallApi(k)
  BY <1>4, <1>7 DEF Instagram!CallApi, Instagram!SetC
<1>8. CASE Instagram!TestApi(k) \/ Instagram!TestUnavailable(k)
  <2> DEFINE q(status) == [r EXCEPT !.pc = "note", !.note = status]
  <2>1. PICK status \in {"CONNECTED", "DEGRADED", "ERROR"} :
          /\ caller' = [caller EXCEPT ![k] = q(status)]
          /\ status = "ERROR" => ~Good(r.conn.token)
    BY <1>8 DEF Instagram!TestApi, Instagram!TestUnavailable, Instagram!TestSays,
       Instagram!SetC, Instagram!Refused, Good
  <2>2. /\ q(status) \in CallerOf /\ q(status).pc = "note" /\ q(status).note = status
        /\ q(status).conn = r.conn /\ r.pc = "call"
    BY <1>1, <1>8 DEF CallerOf, Instagram!TestApi, Instagram!TestUnavailable
  <2>3. status = "ERROR" /\ instagramRow.there /\ ~instagramHistory.raced
          => ~Good(instagramRow.token)
    BY <2>1, <2>2 DEF InstagramInv, Followed, NoBetter
  <2> HIDE DEF q, r
  <2>4. Goes(k, q(status))
    BY <1>1, <1>2, <2>1, <2>2 DEF Goes
  <2> QED BY <1>2, <2>2, <2>3, <2>4, CallerKeeps DEF r
<1> QED BY <1>5, <1>6, <1>7, <1>8

LEMMA NoteKeeps ==
  ASSUME InstagramInv, NEW k \in Callers, Instagram!Note(k)
  PROVE  InstagramInv'
<1> DEFINE idle == Instagram!IdleCaller
<1>1. /\ caller[k].pc = "note" /\ caller[k].note \in {"CONNECTED", "DEGRADED", "ERROR"}
      /\ instagramRow \in RowOf /\ Read(instagramRow)
  BY DEF Instagram!Note, InstagramInv, InstagramTyped, CallersTyped, CallerOf, RowTyped
<1>2. /\ idle \in CallerOf /\ idle.pc = "idle" /\ Read(idle.conn)
  BY DEF Instagram!IdleCaller, Instagram!NoRow, Instagram!None, CallerOf, RowOf, Read
<1>3. /\ UNCHANGED <<instagramTokens, states, browser, instagramRefresh, instagramHistory>>
      /\ caller' = [caller EXCEPT ![k] = idle]
      /\ instagramRow' = IF instagramRow.there
                         THEN [instagramRow EXCEPT !.status = caller[k].note]
                         ELSE instagramRow
  BY DEF Instagram!Note, Instagram!SetC
<1>4. Goes(k, idle)
  BY <1>2, <1>3 DEF Goes
<1>5. \A u : Given(u)' <=> Given(u)
  BY <1>3 DEF Given
<1>6. /\ instagramRow' \in RowOf /\ instagramRow'.there = instagramRow.there
      /\ instagramRow'.token = instagramRow.token
      /\ instagramRow'.login = instagramRow.login
      /\ instagramRow'.account = instagramRow.account
      /\ instagramRow.there => instagramRow'.status = caller[k].note
  BY <1>1, <1>3 DEF RowOf
<1>7. RowTyped' /\ RenewalTyped'
  BY <1>3, <1>5, <1>6, ReadStays DEF InstagramInv, InstagramTyped, RowTyped, Read
<1>8. /\ InstagramTyped' /\ Redeemed'
      /\ caller'[k] = idle /\ \A j \in Callers : j # k => caller'[j] = caller[j]
  BY <1>4, <1>7, GoesTyped
<1>9. RenewalAwaited' /\ Instagram!DisconnectHolds'
  BY <1>1, <1>2, <1>3, <1>6, <1>8 DEF InstagramInv, RenewalAwaited, Instagram!DisconnectHolds
<1>10. Followed'
  <2>1. \A t : Good(t)' <=> Good(t)
    BY <1>3 DEF Good, Instagram!Good
  <2>2. \A t, u : NoBetter(u, t)' <=> NoBetter(u, t)
    BY <1>3, <2>1 DEF NoBetter
  <2> HIDE DEF idle
  <2>3. PICK t : t = instagramRow.token /\ t = instagramRow'.token
    BY <1>6
  <2> QED BY <1>1, <1>2, <1>3, <1>6, <1>8, <2>1, <2>2, <2>3 DEF InstagramInv, Followed
<1> QED BY <1>8, <1>9, <1>10 DEF InstagramInv

\* A call whose token is in its last week waits for the renewal there is, or for
\* one of the row's token.
LEMMA ReadDueKeeps ==
  ASSUME InstagramInv, NEW k \in Callers, Instagram!ReadDue(k)
  PROVE  InstagramInv'
<1> DEFINE q == Instagram!Holding(k, "waiting")
           ask == [pc |-> "ask", conn |-> instagramRow, token |-> 0]
<1>1. /\ caller[k] \in CallerOf /\ instagramRow \in RowOf /\ Read(instagramRow)
      /\ instagramRow.there /\ caller[k].pc = "read"
  BY DEF Instagram!ReadDue, Instagram!Usable, InstagramInv, InstagramTyped, CallersTyped,
     RowTyped
<1>2. q \in CallerOf /\ q.pc = "waiting" /\ q.conn = instagramRow
  BY <1>1 DEF Instagram!Holding, CallerOf
<1>3. /\ UNCHANGED <<instagramRow, instagramTokens, states, browser, instagramHistory>>
      /\ caller' = [caller EXCEPT ![k] = q]
      /\ instagramRefresh' = IF instagramRefresh.pc = "none" THEN ask ELSE instagramRefresh
  BY DEF Instagram!ReadDue, Instagram!SetC, Instagram!Joins, Instagram!None
<1> HIDE DEF q
<1>4. Goes(k, q)
  BY <1>1, <1>2, <1>3 DEF Goes
<1>5. \A u : Given(u)' <=> Given(u)
  BY <1>3 DEF Given
<1>6. ask \in RenewalOf /\ ask.pc = "ask" /\ ask.conn = instagramRow
  BY <1>1 DEF RenewalOf
<1>7. RowTyped' /\ RenewalTyped'
  <2>1. RowTyped'
    BY <1>3, <1>5, ReadStays DEF InstagramInv, InstagramTyped
  <2>2. ASSUME instagramRefresh.pc = "none" PROVE RenewalTyped'
    <3> HIDE DEF ask
    <3>1. instagramRefresh' = ask
      BY <1>3, <2>2
    <3> QED BY <1>1, <1>3, <1>6, <3>1 DEF RenewalTyped, Read, Given
  <2>3. ASSUME instagramRefresh.pc # "none" PROVE RenewalTyped'
    BY <1>3, <1>5, <2>3, ReadStays DEF InstagramInv, InstagramTyped
  <2> QED BY <2>1, <2>2, <2>3
<1>8. /\ InstagramTyped' /\ Redeemed'
      /\ caller'[k] = q /\ \A j \in Callers : j # k => caller'[j] = caller[j]
  BY <1>4, <1>7, GoesTyped
<1>9. RenewalAwaited' /\ Instagram!DisconnectHolds'
  BY <1>2, <1>3, <1>6, <1>8 DEF InstagramInv, RenewalAwaited, Instagram!DisconnectHolds
<1>10. Followed'
  <2>1. \A t : Good(t)' <=> Good(t)
    BY <1>3 DEF Good, Instagram!Good
  <2>2. \A t, u : NoBetter(u, t)' <=> NoBetter(u, t)
    BY <1>3, <2>1 DEF NoBetter
  <2>3. NoBetter(instagramRow.token, instagramRow.token)
    BY DEF NoBetter
  <2> HIDE DEF ask
  <2>4. \/ instagramRefresh' = instagramRefresh /\ instagramRefresh.pc # "none"
        \/ instagramRefresh'.pc = "ask" /\ instagramRefresh'.conn = instagramRow
    BY <1>3, <1>6
  <2> QED BY <1>2, <1>3, <1>8, <2>1, <2>2, <2>3, <2>4 DEF InstagramInv, Followed
<1> QED BY <1>8, <1>9, <1>10 DEF InstagramInv

\* Instagram gives a token for one that is good.
LEMMA RefreshAsksKeeps ==
  ASSUME InstagramInv, Instagram!RefreshAsks
  PROVE  InstagramInv'
<1> DEFINE f == instagramRefresh
<1>1. /\ f \in RenewalOf /\ f.pc = "ask" /\ f.conn.there /\ Read(f.conn)
      /\ UNCHANGED <<instagramRow, states, browser, caller, instagramHistory>>
  BY DEF Instagram!RefreshAsks, InstagramInv, InstagramTyped, RenewalTyped
<1>2. PICK n : n = Len(instagramTokens)
  OBVIOUS
<1>3. CASE Good(f.conn.token)
  <2> DEFINE g == [f EXCEPT !.pc = "save", !.token = n + 1]
             a == f.conn.account
  <2>0. a \in Accounts
    BY <1>1 DEF Read
  <2>1. /\ n < MaxTokens
        /\ instagramTokens' = Append(instagramTokens, Instagram!Given(a, TRUE))
        /\ instagramRefresh' = g
    BY <1>2, <1>3 DEF Instagram!RefreshAsks, Good
  <2>2. /\ TokensTyped' /\ Given(n + 1)' /\ n + 1 \in Nat
        /\ instagramTokens'[n + 1].account = a
        /\ \A t : Given(t) => /\ Given(t)' /\ instagramTokens'[t] = instagramTokens[t]
                              /\ Good(t)' <=> Good(t)
    BY <1>2, <2>0, <2>1, TokenGiven DEF InstagramInv, InstagramTyped
  <2>3. g \in RenewalOf /\ g.pc = "save" /\ g.token = n + 1 /\ g.conn = f.conn
    BY <1>1, <2>2 DEF RenewalOf
  <2> HIDE DEF g
  <2>4. RenewalTyped'
    BY <1>1, <2>1, <2>2, <2>3 DEF RenewalTyped, Read
  <2>5. InstagramTyped'
    BY <1>1, <2>2, <2>4, ReadStays DEF InstagramInv, InstagramTyped, HistoryTyped
  <2>6. RenewalAwaited' /\ Redeemed' /\ Instagram!DisconnectHolds'
    BY <1>1, <2>1, <2>3
       DEF InstagramInv, RenewalAwaited, Redeemed, Instagram!DisconnectHolds
  <2>7. Followed'
    <3>1. /\ instagramRow.there => Given(instagramRow.token)
          /\ \A k \in Callers : caller[k].pc \in {"waiting", "call"}
               => Given(caller[k].conn.token)
      BY DEF InstagramInv, InstagramTyped, RowTyped, CallersTyped, Read
    <3> SUFFICES ASSUME ~instagramHistory.raced, instagramRow.there PROVE Followed'
      BY <1>1 DEF Followed
    <3>2. PICK t : t = instagramRow.token
      OBVIOUS
    <3>3. /\ Given(t) /\ Good(t) /\ instagramTokens[t].account = instagramRow.account
          /\ t = f.conn.token /\ instagramRow.account = a
      BY <1>1, <1>3, <3>1, <3>2 DEF InstagramInv, Followed
    <3>4. NoBetter(n + 1, t)'
      BY <2>2, <3>3 DEF NoBetter
    <3>5. \A u, v : Given(u) /\ Given(v) /\ NoBetter(u, v) => NoBetter(u, v)'
      BY <2>2 DEF NoBetter
    <3>6. instagramRefresh'.pc = "save" /\ instagramRefresh'.conn = f.conn
          /\ instagramRefresh'.token = n + 1
      BY <2>1, <2>3
    <3> HIDE DEF f, a
    <3> QED BY <1>1, <2>2, <3>1, <3>2, <3>3, <3>4, <3>5, <3>6 DEF InstagramInv, Followed, f
  <2> QED BY <2>5, <2>6, <2>7 DEF InstagramInv
<1>4. CASE ~Good(f.conn.token)
  <2> DEFINE g == [f EXCEPT !.pc = "invalid"]
  <2>1. instagramTokens' = instagramTokens /\ instagramRefresh' = g
    BY <1>4 DEF Instagram!RefreshAsks, Good
  <2>2. g \in RenewalOf /\ g.pc = "invalid" /\ g.conn = f.conn
    BY <1>1 DEF RenewalOf
  <2> HIDE DEF g
  <2>3. \A u : Given(u)' <=> Given(u)
    BY <2>1 DEF Given
  <2>4. RenewalTyped'
    BY <1>1, <2>1, <2>2, <2>3 DEF RenewalTyped, Read
  <2>5. InstagramTyped'
    BY <1>1, <2>1, <2>3, <2>4, ReadStays
       DEF InstagramInv, InstagramTyped, HistoryTyped, TokensTyped
  <2>6. RenewalAwaited' /\ Redeemed' /\ Instagram!DisconnectHolds'
    BY <1>1, <2>1, <2>2
       DEF InstagramInv, RenewalAwaited, Redeemed, Instagram!DisconnectHolds
  <2>7. Followed'
    <3>1. \A t : Good(t)' <=> Good(t)
      BY <2>1 DEF Good, Instagram!Good
    <3>2. \A t, u : NoBetter(u, t)' <=> NoBetter(u, t)
      BY <2>1, <3>1 DEF NoBetter
    <3> QED BY <1>1, <1>4, <2>1, <2>2, <3>1, <3>2 DEF InstagramInv, Followed
  <2> QED BY <2>5, <2>6, <2>7 DEF InstagramInv
<1> QED BY <1>3, <1>4

\* The renewal ends, and who waited for it goes on.
LEMMA WokenTyped ==
  ASSUME InstagramInv, NEW new \in [Callers -> CallerOf],
         \A k \in Callers :
           /\ new[k].pc \in {"call", "note"} /\ Read(new[k].conn)
           /\ new[k].pc = "call" /\ caller[k].pc = "waiting" => new[k].conn.there
           /\ new[k].pc = "note" => new[k].note = "ERROR",
         caller' = [k \in Callers |-> IF caller[k].pc = "waiting" THEN new[k]
                                      ELSE caller[k]],
         instagramRefresh' = Instagram!NoRefresh,
         UNCHANGED <<instagramTokens, states, browser, instagramHistory>>,
         RowTyped', instagramRow'.there = instagramRow.there
  PROVE  InstagramTyped' /\ RenewalAwaited' /\ Redeemed' /\ Instagram!DisconnectHolds'
<1>1. \A u : Given(u)' <=> Given(u)
  BY DEF Given
<1>2. \A k \in Callers :
        caller'[k] = IF caller[k].pc = "waiting" THEN new[k] ELSE caller[k]
  OBVIOUS
<1>3. caller' \in [Callers -> CallerOf]
  BY DEF InstagramInv, InstagramTyped, CallersTyped
<1>4. \A c : Read(c)' <=> Read(c)
  BY <1>1 DEF Read
<1>5. CallersTyped'
  BY <1>2, <1>3, <1>4 DEF InstagramInv, InstagramTyped, CallersTyped, Read
<1>6. RenewalTyped' /\ instagramRefresh'.pc = "none"
  BY DEF RenewalTyped, Instagram!NoRefresh, Instagram!NoRow, Instagram!None, RenewalOf, RowOf
<1>7. BrowsersTyped'
  BY <1>1, ReadStays DEF InstagramInv, InstagramTyped
<1>8. InstagramTyped'
  BY <1>5, <1>6, <1>7 DEF InstagramInv, InstagramTyped, TokensTyped, HistoryTyped
<1>9. RenewalAwaited'
  BY <1>2, <1>6 DEF RenewalAwaited
<1> QED BY <1>8, <1>9 DEF InstagramInv, Redeemed, Instagram!DisconnectHolds

LEMMA RenewalEnds ==
  ASSUME InstagramInv,
         Instagram!RefreshUnavailable \/ Instagram!RefreshSaves \/ Instagram!RefreshInvalid
  PROVE  InstagramInv'
<1> DEFINE f == instagramRefresh
           New(new) == [k \in Callers |-> IF caller[k].pc = "waiting" THEN new[k]
                                          ELSE caller[k]]
<1>1. /\ UNCHANGED <<instagramTokens, states, browser, instagramHistory>>
      /\ instagramRefresh' = Instagram!NoRefresh
  BY DEF Instagram!RefreshUnavailable, Instagram!RefreshSaves, Instagram!RefreshInvalid
<1>2. \A k \in Callers : /\ caller[k] \in CallerOf /\ Read(caller[k].conn)
                         /\ caller[k].pc = "waiting" => caller[k].conn.there
  BY DEF InstagramInv, InstagramTyped, CallersTyped
<1>3. \A t : Good(t)' <=> Good(t)
  BY <1>1 DEF Good, Instagram!Good
<1>4. \A t, u : NoBetter(u, t)' <=> NoBetter(u, t)
  BY <1>1, <1>3 DEF NoBetter
<1>5. \A u : Given(u)' <=> Given(u)
  BY <1>1 DEF Given
<1>6. instagramRefresh'.pc = "none"
  BY <1>1 DEF Instagram!NoRefresh
<1>7. /\ Instagram!WithOwn \in [Callers -> CallerOf]
      /\ \A k \in Callers : /\ Instagram!WithOwn[k].pc = "call"
                            /\ Instagram!WithOwn[k].conn = caller[k].conn
  BY <1>2 DEF Instagram!WithOwn, CallerOf
<1>8. ASSUME UNCHANGED instagramRow, caller' = New(Instagram!WithOwn) PROVE InstagramInv'
  <2>1. RowTyped'
    BY <1>5, <1>8, ReadStays DEF InstagramInv, InstagramTyped
  <2>2. InstagramTyped' /\ RenewalAwaited' /\ Redeemed' /\ Instagram!DisconnectHolds'
    BY <1>1, <1>2, <1>7, <1>8, <2>1, WokenTyped
  <2>3. \A k \in Callers :
          /\ caller'[k].pc = "call" => caller[k].pc \in {"waiting", "call"}
                                       /\ caller'[k].conn = caller[k].conn
          /\ caller'[k].pc # "call" => caller'[k] = caller[k] /\ caller[k].pc # "waiting"
    BY <1>7, <1>8
  <2>4. Followed'
    BY <1>1, <1>3, <1>4, <1>6, <1>8, <2>3 DEF InstagramInv, Followed
  <2> QED BY <2>2, <2>4 DEF InstagramInv
<1>9. CASE Instagram!RefreshUnavailable
  BY <1>8, <1>9 DEF Instagram!RefreshUnavailable, Instagram!Woken
<1>10. CASE Instagram!RefreshSaves /\ ~instagramRow.there
  BY <1>8, <1>10 DEF Instagram!RefreshSaves, Instagram!Woken, Instagram!Renewed
<1>11. CASE Instagram!RefreshInvalid
  <2>1. /\ Instagram!WithError \in [Callers -> CallerOf]
        /\ \A k \in Callers : /\ Instagram!WithError[k].pc = "note"
                              /\ Instagram!WithError[k].note = "ERROR"
                              /\ Instagram!WithError[k].conn = caller[k].conn
    BY <1>2 DEF Instagram!WithError, CallerOf
  <2>2. UNCHANGED instagramRow /\ caller' = New(Instagram!WithError) /\ f.pc = "invalid"
    BY <1>11 DEF Instagram!RefreshInvalid, Instagram!Woken
  <2>3. RowTyped'
    BY <1>5, <2>2, ReadStays DEF InstagramInv, InstagramTyped
  <2>4. InstagramTyped' /\ RenewalAwaited' /\ Redeemed' /\ Instagram!DisconnectHolds'
    BY <1>1, <1>2, <2>1, <2>2, <2>3, WokenTyped
  <2>5. \A k \in Callers : caller'[k] = IF caller[k].pc = "waiting"
                                        THEN Instagram!WithError[k] ELSE caller[k]
    BY <2>2
  <2>6. Followed'
    BY <1>1, <1>3, <1>4, <1>6, <2>1, <2>2, <2>5 DEF InstagramInv, Followed
  <2> QED BY <2>4, <2>6 DEF InstagramInv
<1>12. CASE Instagram!RefreshSaves /\ instagramRow.there
  <2> DEFINE t == f.token
             new == Instagram!WithToken(t)
  <2>1. /\ f \in RenewalOf /\ f.pc = "save" /\ f.conn.there /\ Read(f.conn) /\ Given(t)
        /\ t \in Nat /\ instagramRow \in RowOf /\ Read(instagramRow)
    BY <1>12 DEF Instagram!RefreshSaves, InstagramInv, InstagramTyped, RenewalTyped,
       RenewalOf, RowTyped
  <2>2. /\ new \in [Callers -> CallerOf]
        /\ \A k \in Callers : /\ new[k].pc = "call" /\ new[k].conn.token = t
                              /\ new[k].conn.there /\ Read(new[k].conn)
    <3> DEFINE c == [f.conn EXCEPT !.token = t]
               N(k) == [caller[k] EXCEPT !.pc = "call", !.conn = f.conn, !.conn.token = t]
    <3>1. c \in RowOf /\ c.token = t /\ c.there /\ Read(c)
      BY <2>1 DEF RenewalOf, RowOf, Read
    <3>2. \A k \in Callers : N(k) \in CallerOf /\ N(k).pc = "call" /\ N(k).conn = c
      <4>1. \A k \in Callers : N(k) = [[caller[k] EXCEPT !.pc = "call"] EXCEPT !.conn = c]
        BY <1>2 DEF CallerOf
      <4> HIDE DEF c
      <4> DEFINE M(k) == [[caller[k] EXCEPT !.pc = "call"] EXCEPT !.conn = c]
      <4>2. \A k \in Callers : M(k) \in CallerOf /\ M(k).pc = "call" /\ M(k).conn = c
        BY <1>2, <3>1 DEF CallerOf
      <4>3. \A k \in Callers : N(k) = M(k)
        BY <4>1
      <4> HIDE DEF M, N
      <4> QED BY <4>2, <4>3
    <3>3. new = [k \in Callers |-> N(k)]
      BY DEF Instagram!WithToken
    <3> HIDE DEF c, N, new
    <3> QED BY <3>1, <3>2, <3>3
  <2>3. /\ caller' = New(new)
        /\ instagramRow' = [instagramRow EXCEPT !.token = t]
    BY <1>12 DEF Instagram!RefreshSaves, Instagram!Woken, Instagram!Renewed
  <2> HIDE DEF t, new
  <2>4. /\ instagramRow' \in RowOf /\ instagramRow'.there /\ instagramRow'.token = t
        /\ instagramRow'.account = instagramRow.account
        /\ instagramRow'.status = instagramRow.status
    BY <1>12, <2>1, <2>3 DEF RowOf, t
  <2>5. RowTyped'
    BY <1>5, <1>12, <2>1, <2>4 DEF RowTyped, Read, t
  <2>6. InstagramTyped' /\ RenewalAwaited' /\ Redeemed' /\ Instagram!DisconnectHolds'
    BY <1>1, <1>2, <1>12, <2>2, <2>3, <2>4, <2>5, WokenTyped
  <2>7. \A k \in Callers : caller'[k] = IF caller[k].pc = "waiting" THEN new[k] ELSE caller[k]
    BY <2>3
  <2>8. Followed'
    <3> SUFFICES ASSUME ~instagramHistory.raced PROVE Followed'
      BY <1>1 DEF Followed
    <3>1. NoBetter(t, instagramRow.token)
      BY <1>12, <2>1 DEF InstagramInv, Followed, t
    <3>2. \A k \in Callers : caller[k].pc = "call" => NoBetter(t, caller[k].conn.token)
      BY <1>12, <3>1 DEF InstagramInv, Followed, NoBetter
    <3>3. NoBetter(t, t)
      BY DEF NoBetter
    <3>4. \A k \in Callers :
            /\ caller'[k].pc \in {"waiting", "call"} => NoBetter(t, caller'[k].conn.token)
            /\ caller'[k].pc = "note" /\ caller'[k].note = "ERROR" => ~Good(t)
      BY <1>12, <2>2, <2>7, <3>1, <3>2, <3>3 DEF InstagramInv, Followed, NoBetter
    <3>5. /\ instagramTokens[t].account = instagramRow.account
          /\ instagramRow.status = "ERROR" => ~Good(t)
      BY <1>12, <3>1 DEF InstagramInv, Followed, NoBetter
    <3> QED BY <1>1, <1>3, <1>4, <1>6, <2>4, <3>4, <3>5 DEF Followed
  <2> QED BY <2>6, <2>8 DEF InstagramInv
<1> QED BY <1>9, <1>10, <1>11, <1>12

-----------------------------------------------------------------------------
\* Time passes, and the owner withdraws what he allowed.
LEMMA TokensAgeKeeps ==
  ASSUME InstagramInv,
         Instagram!TimePasses \/ \E account \in Accounts : Instagram!Withdrawn(account)
  PROVE  InstagramInv'
<1>1. UNCHANGED <<instagramRow, states, browser, caller, instagramRefresh>>
  BY DEF Instagram!TimePasses, Instagram!Withdrawn
<1>2. /\ TokensTyped' /\ \A t : Given(t)' <=> Given(t)
      /\ \A t : Given(t) =>
           /\ instagramTokens'[t].account = instagramTokens[t].account
           /\ ~Good(t) => ~Good(t)'
  BY TimePassesOn, AccountWithdrawn DEF InstagramInv, InstagramTyped
<1>3. /\ HistoryTyped' /\ instagramHistory'.wanted = instagramHistory.wanted
      /\ instagramHistory'.grants = instagramHistory.grants
  BY DEF Instagram!TimePasses, Instagram!Withdrawn, InstagramInv, InstagramTyped,
     HistoryTyped, Instagram!Busy
<1>4. InstagramTyped'
  BY <1>1, <1>2, <1>3, ReadStays DEF InstagramInv, InstagramTyped
<1>5. RenewalAwaited' /\ Redeemed' /\ Instagram!DisconnectHolds'
  BY <1>1, <1>3 DEF InstagramInv, RenewalAwaited, Redeemed, Instagram!DisconnectHolds
<1>6. /\ instagramRow.there => Given(instagramRow.token)
      /\ \A k \in Callers : caller[k].pc \in {"waiting", "call"}
           => Given(caller[k].conn.token)
      /\ instagramRefresh.pc = "save" => Given(instagramRefresh.token)
  BY DEF InstagramInv, InstagramTyped, RowTyped, CallersTyped, RenewalTyped, Read
<1>7. Followed'
  <2>1. CASE Instagram!TimePasses
    <3>1. instagramHistory'.raced <=> instagramHistory.raced \/ Instagram!Busy
      BY <2>1 DEF Instagram!TimePasses, InstagramInv, InstagramTyped, HistoryTyped,
         Instagram!Busy
    <3> QED BY <1>1, <1>2, <1>6, <3>1 DEF InstagramInv, Followed, Instagram!Busy
  <2>2. ASSUME NEW account \in Accounts, Instagram!Withdrawn(account) PROVE Followed'
    <3>1. UNCHANGED instagramHistory
      BY <2>2 DEF Instagram!Withdrawn
    <3>2. \A t : Given(t) =>
            /\ instagramTokens'[t].account = instagramTokens[t].account
            /\ Good(t)' <=> Good(t) /\ instagramTokens[t].account # account
      BY <2>2, AccountWithdrawn DEF InstagramInv, InstagramTyped
    <3>3. \A t, u : Given(t) /\ Given(u) /\ NoBetter(u, t) => NoBetter(u, t)'
      BY <3>2 DEF NoBetter
    <3> QED BY <1>1, <1>2, <1>6, <3>1, <3>3 DEF InstagramInv, Followed
  <2> QED BY <2>1, <2>2
<1> QED BY <1>4, <1>5, <1>7 DEF InstagramInv

LEMMA InstagramStep == InstagramInv /\ [Instagram!Next]_(Instagram!vars) => InstagramInv'
<1> SUFFICES ASSUME InstagramInv, [Instagram!Next]_(Instagram!vars) PROVE InstagramInv'
  OBVIOUS
<1>1. CASE UNCHANGED Instagram!vars
  <2>1. UNCHANGED <<instagramRow, instagramTokens, states, browser, caller,
                    instagramRefresh, instagramHistory>>
    BY <1>1 DEF Instagram!vars
  <2> QED BY <2>1 DEF InstagramInv, InstagramTyped, TokensTyped, RowTyped, BrowsersTyped,
       CallersTyped, RenewalTyped, HistoryTyped, RenewalAwaited, Redeemed, Followed,
       Instagram!DisconnectHolds, Read, Given, Good, NoBetter, Instagram!Good
<1>2. ASSUME NEW b \in Browsers, Instagram!Connecting(b) PROVE InstagramInv'
  BY <1>2, ReturnsKeeps, ExchangeKeeps, SaveKeeps DEF Instagram!Connecting
<1>3. ASSUME NEW k \in Callers, Instagram!Using(k) PROVE InstagramInv'
  BY <1>3, AsksKeeps, ReadDueKeeps, NoteKeeps DEF Instagram!Using
<1> QED BY <1>1, <1>2, <1>3, RefreshAsksKeeps, RenewalEnds, DisconnectKeeps, TokensAgeKeeps
        DEF Instagram!Next

LEMMA InstagramPromised == InstagramInv => InstagramKept
<1> SUFFICES ASSUME InstagramInv
             PROVE  /\ Instagram!TypeOK
                    /\ Instagram!RedeemedOnce /\ Instagram!TokenOfAccount
                    /\ Instagram!ErrorMeansDead /\ Instagram!DisconnectHolds
  BY DEF InstagramKept
<1>1. Instagram!TypeOK
  <2>1. instagramRow.token \in 0..Len(instagramTokens) /\ Len(instagramTokens) <= MaxTokens
    BY DEF InstagramInv, InstagramTyped, TokensTyped, RowTyped, Read, Given
  <2>2. \A s \in States : states[s] \in {"open", "used"}
    BY DEF InstagramInv, InstagramTyped, BrowsersTyped
  <2>3. instagramRow.status \in {"DISCONNECTED", "CONNECTED", "DEGRADED", "ERROR"}
    BY DEF InstagramInv, InstagramTyped, RowTyped, RowOf
  <2> QED BY <2>1, <2>2, <2>3 DEF InstagramInv, RenewalAwaited, Instagram!TypeOK
<1>2. Instagram!RedeemedOnce
  BY DEF InstagramInv, Redeemed, Instagram!RedeemedOnce
<1>3. Instagram!TokenOfAccount /\ Instagram!ErrorMeansDead
  BY DEF InstagramInv, Followed, Good, Instagram!TokenOfAccount, Instagram!ErrorMeansDead
<1> QED BY <1>1, <1>2, <1>3 DEF InstagramInv

\* However callbacks, calls, renewals, time and a disconnect overlap, a sign-in
\* is redeemed once, the row's token is of the row's account, only a token that is
\* no longer good puts the connection in error, and a disconnected account stays
\* so (instagram-oauth.service.ts, instagram-integration.service.ts).
THEOREM InstagramIsKept == MCSpec => []InstagramKept
<1>1. MCInit => InstagramInv
  BY InstagramInit DEF MCInit
<1>2. InstagramInv /\ [MCNext]_parts => InstagramInv'
  <2>1. [MCNext]_parts => [Instagram!Next]_(Instagram!vars)
    BY DEF MCNext, OfSessions, parts, instagram, Instagram!vars
  <2> QED BY <2>1, InstagramStep
<1> QED BY <1>1, <1>2, InstagramPromised, PTL DEF MCSpec
=============================================================================
