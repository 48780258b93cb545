------------------------------ MODULE Sessions ------------------------------
(***************************************************************************)
(* The account of one user: auth.service.ts, password-reset.service.ts and *)
(* the blocking of users in admin.service.ts.                              *)
(*                                                                         *)
(* A worker is one HTTP request being served by some instance.  Refresh,   *)
(* change of password, reset and block end in a transaction at READ        *)
(* COMMITTED: a statement sees the rows committed when it begins, waits    *)
(* for the rows another transaction has written, and looks at its          *)
(* condition again when it gets them; what a transaction wrote is seen     *)
(* when it commits, so its effects are those of its last step here and its *)
(* earlier steps only take locks.  An instance that crashes, or a database *)
(* call that throws, is Abort.                                             *)
(*                                                                         *)
(* Left out: a wrong password, signatures and hashes (a token is its row), *)
(* the mail, and the activity log, which is written best-effort.  A token  *)
(* that has expired is only refused: no step here has to happen, so its    *)
(* expiry is the refresh not being taken.  Rows without a fingerprint are  *)
(* found by bcrypt instead of by index: the row found is the same.         *)
(***************************************************************************)
EXTENDS Integers, FiniteSets

CONSTANTS
  Workers, Nobody, \* requests in flight; no holder of a lock
  Rooms,           \* bounds: how many sessions, links and revocations of all
                   \*   sessions there may be, in different behaviours
  LinkTTL,         \* passwordResetExpiresMinutes
  MaxTime          \* bound of the clock

ASSUME SessionsAssumption ==
  /\ Nobody \notin Workers /\ IsFiniteSet(Workers)
  /\ Rooms \subseteq [tokens : Nat, links : Nat, revocations : Nat]
  /\ IsFiniteSet(Rooms) /\ MaxTime \in Nat
  /\ LinkTTL \in Nat \ {0}

VARIABLES
  now,      \* the wall clock
  user,     \* status of the user's row; "none" before it registers
  userLock, \* who holds the row of the user
  tokens,   \* rows RefreshToken, in the order they are created
  links,    \* rows PasswordResetToken, in the order they are created
  revoked,  \* history: transactions that revoked every session
  worker,   \* the requests in flight
  room      \* the bounds of this behaviour

vars == <<now, user, userLock, tokens, links, revoked, worker, room>>

Tokens == 1..room.tokens
Links == 1..room.links
None == 0

\* `parent` is the token it was rotated from, `since` what `revoked` was when
\* the request that logged in read the user, `stray` (history) that a request
\* of its line was in flight at the same time as such a transaction.
NoToken == [made |-> FALSE, live |-> FALSE, lock |-> Nobody,
            parent |-> None, since |-> 0, stray |-> FALSE]
NoLink == [made |-> FALSE, used |-> FALSE, until |-> 0, lock |-> Nobody,
           changes |-> 0]
Idle == [pc |-> "idle", op |-> "none", token |-> None, link |-> None,
         since |-> 0, at |-> 0, sees |-> {}]

Init ==
  /\ room \in Rooms
  /\ now = 0
  /\ user = "none"
  /\ userLock = Nobody
  /\ tokens = [t \in Tokens |-> NoToken]
  /\ links = [l \in Links |-> NoLink]
  /\ revoked = 0
  /\ worker = [w \in Workers |-> Idle]

Becomes(w, r) == worker' = [worker EXCEPT ![w] = r]
GoesTo(w, pc) == worker' = [worker EXCEPT ![w].pc = pc]

\* A request that goes on at pc, and one that remembers (history) how often
\* the sessions had been revoked when it read what it acts on.
Request(op, pc) == [Idle EXCEPT !.op = op, !.pc = pc]
Reader(op, pc) == [Request(op, pc) EXCEPT !.since = revoked]

MadeTokens == {t \in Tokens : tokens[t].made}
MadeLinks == {l \in Links : links[l].made}
Live(t) == tokens[t].live
Children(t) == {c \in MadeTokens : tokens[c].parent = t}
Free(lock, w) == lock \in {Nobody, w}

\* Bounds: a request begins if its rows are there when it gets to them.
Busy(ops) == Cardinality({w \in Workers : worker[w].op \in ops})
RoomForToken ==
  Cardinality(MadeTokens) + Busy({"register", "login", "refresh"}) < room.tokens
RoomForLink == Cardinality(MadeLinks) + Busy({"forgot"}) < room.links
RoomToRevoke == revoked + Busy({"change", "block", "reset"}) < room.revocations

-----------------------------------------------------------------------------
(* register and login                                                      *)

\* register: registration is open and findByEmail finds nobody.
Register(w) ==
  /\ worker[w].pc = "idle" /\ user = "none" /\ RoomForToken
  /\ Becomes(w, Reader("register", "enrol"))
  /\ UNCHANGED <<now, user, userLock, tokens, links, revoked, room>>

\* usersService.create: the unique email lets one of several requests in.
Enrol(w) ==
  /\ worker[w].pc = "enrol"
  /\ \/ user = "none" /\ user' = "ACTIVE" /\ GoesTo(w, "persist")
     \/ user # "none" /\ UNCHANGED user /\ Becomes(w, Idle)
  /\ UNCHANGED <<now, userLock, tokens, links, revoked, room>>

\* login: the user is read and the password compared with the hash read.
Login(w) ==
  /\ worker[w].pc = "idle" /\ user = "ACTIVE" /\ RoomForToken
  /\ Becomes(w, Reader("login", "stamp"))
  /\ UNCHANGED <<now, user, userLock, tokens, links, revoked, room>>

\* user.update(lastLoginAt): waits for a transaction that holds the row.
Stamp(w) ==
  /\ worker[w].pc = "stamp" /\ userLock = Nobody
  /\ GoesTo(w, "persist")
  /\ UNCHANGED <<now, user, userLock, tokens, links, revoked, room>>

\* The row a request creates; its line is stray if the sessions were revoked
\* since the request read the user or the token, or are being revoked.
NewToken(w, parent) ==
  [made |-> TRUE, live |-> TRUE, lock |-> Nobody,
   parent |-> parent,
   since |-> IF parent = None THEN worker[w].since ELSE tokens[parent].since,
   stray |-> \/ worker[w].since # revoked \/ userLock # Nobody
             \/ parent # None /\ tokens[parent].stray]

Fresh(S) == Cardinality(S) + 1

\* issueAndPersistTokens: refreshToken.create.
Persist(w) ==
  /\ worker[w].pc = "persist"
  /\ tokens' = [tokens EXCEPT ![Fresh(MadeTokens)] = NewToken(w, None)]
  /\ Becomes(w, Idle)
  /\ UNCHANGED <<now, user, userLock, links, revoked, room>>

-----------------------------------------------------------------------------
(* refresh and logout                                                      *)

\* refresh: the signature is valid, the user is there and not blocked, and
\* the row is live.  A token pair is signed and hashed before the next step.
Refresh(w, t) ==
  /\ worker[w].pc = "idle" /\ user = "ACTIVE" /\ RoomForToken
  /\ Live(t)
  /\ Becomes(w, [Reader("refresh", "rotate") EXCEPT !.token = t])
  /\ UNCHANGED <<now, user, userLock, tokens, links, revoked, room>>

\* The condition updateMany looks at when it has the row; the variant counts
\* the row whatever its revokedAt is.
RotatableAsRead(t) == TRUE
Rotatable(t) == Live(t)

\* updateMany(id, revokedAt null): count 1, or the request is refused.
Rotate(w) ==
  LET t == worker[w].token IN
  /\ worker[w].pc = "rotate" /\ Free(tokens[t].lock, w)
  /\ \/ /\ Rotatable(t)
        /\ tokens' = [tokens EXCEPT ![t].lock = w]
        /\ GoesTo(w, "succeed")
     \/ /\ ~Rotatable(t)
        /\ Becomes(w, Idle)
        /\ UNCHANGED tokens
  /\ UNCHANGED <<now, user, userLock, links, revoked, room>>

\* The insert looks at the row of the user: its foreign key takes a KEY SHARE
\* lock, which an update of the password or the status does not keep waiting;
\* the variant takes the row itself, as a stamp on the user would.
UserRowReady == userLock = Nobody
KeyShareReady == TRUE

\* create(the successor) and commit.
Succeed(w) ==
  LET t == worker[w].token IN
  /\ worker[w].pc = "succeed" /\ KeyShareReady
  /\ tokens' = [tokens EXCEPT ![t].live = FALSE, ![t].lock = Nobody,
                              ![Fresh(MadeTokens)] = NewToken(w, t)]
  /\ Becomes(w, Idle)
  /\ UNCHANGED <<now, user, userLock, links, revoked, room>>

\* logout finds the row, expired or not, whoever the user is now.
Logout(w, t) ==
  /\ worker[w].pc = "idle" /\ Live(t)
  /\ Becomes(w, [Request("logout", "revoke") EXCEPT !.token = t])
  /\ UNCHANGED <<now, user, userLock, tokens, links, revoked, room>>

\* updateMany(id, revokedAt null), on its own.
Revoke(w) ==
  LET t == worker[w].token IN
  /\ worker[w].pc = "revoke" /\ tokens[t].lock = Nobody
  /\ tokens' = [tokens EXCEPT ![t].live = FALSE]
  /\ Becomes(w, Idle)
  /\ UNCHANGED <<now, user, userLock, links, revoked, room>>

-----------------------------------------------------------------------------
(* Transactions that revoke every session: change, reset, block.           *)

\* changePassword, behind the guard: the password compared is the one read.
ChangePassword(w) ==
  /\ worker[w].pc = "idle" /\ user = "ACTIVE" /\ RoomToRevoke
  /\ Becomes(w, Request("change", "overwrite"))
  /\ UNCHANGED <<now, user, userLock, tokens, links, revoked, room>>

\* updateUserStatus(BLOCKED) of an administrator.
Block(w) ==
  /\ worker[w].pc = "idle" /\ user # "none" /\ RoomToRevoke
  /\ Becomes(w, Request("block", "overwrite"))
  /\ UNCHANGED <<now, user, userLock, tokens, links, revoked, room>>

\* updateUserStatus(ACTIVE): one statement.
Unblock ==
  /\ user = "BLOCKED" /\ userLock = Nobody
  /\ user' = "ACTIVE"
  /\ UNCHANGED <<now, userLock, tokens, links, revoked, worker, room>>

\* The sessions the last statement sees when it begins; the variant ends the
\* one found first, an update where an updateMany is meant.
SessionFound ==
  {t \in Tokens : Live(t) /\ \A s \in Tokens : Live(s) => t <= s}
SessionsSeen == {t \in Tokens : Live(t)}

\* user.update and the start of updateMany(userId, revokedAt null): nothing
\* that another transaction does fits between the two.  A reset updates the
\* user only if it is ACTIVE, and else is rolled back.
Overwrite(w) ==
  LET link == worker[w].link IN
  /\ worker[w].pc = "overwrite" /\ userLock = Nobody
  /\ \/ /\ worker[w].op = "reset" => user = "ACTIVE"
        /\ userLock' = w
        /\ worker' = [worker EXCEPT ![w].pc = "commit",
                                    ![w].sees = SessionsSeen]
        /\ UNCHANGED links
     \/ /\ worker[w].op = "reset" /\ user # "ACTIVE"
        /\ links' = [links EXCEPT ![link].lock = Nobody]
        /\ Becomes(w, Idle)
        /\ UNCHANGED userLock
  /\ UNCHANGED <<now, user, tokens, revoked, room>>

\* The statement gets the rows it saw, and the transaction commits.
Commit(w) ==
  LET r == worker[w] IN
  /\ r.pc = "commit"
  /\ \A t \in r.sees : tokens[t].lock = Nobody
  /\ tokens' = [t \in Tokens |-> [tokens[t] EXCEPT
                  !.live = @ /\ t \notin r.sees]]
  /\ user' = IF r.op = "block" THEN "BLOCKED" ELSE user
  /\ userLock' = Nobody
  /\ links' = [l \in Links |-> IF l = r.link
                 THEN [links[l] EXCEPT !.used = TRUE, !.lock = Nobody,
                                       !.changes = @ + 1]
                 ELSE links[l]]
  /\ revoked' = revoked + 1
  /\ Becomes(w, Idle)
  /\ UNCHANGED <<now, room>>

-----------------------------------------------------------------------------
(* forgotPassword and resetPassword                                        *)

\* forgotPassword: the limiter lets it pass and the user is ACTIVE.
Forgot(w) ==
  /\ worker[w].pc = "idle" /\ user = "ACTIVE" /\ RoomForLink
  /\ Becomes(w, [Request("forgot", "withdraw") EXCEPT !.at = now])
  /\ UNCHANGED <<now, user, userLock, tokens, links, revoked, room>>

\* updateMany(usedAt null, expiresAt > now): it gets the open rows it sees.
Withdraw(w) ==
  LET open == {l \in MadeLinks : /\ ~links[l].used
                                 /\ links[l].until > worker[w].at} IN
  /\ worker[w].pc = "withdraw"
  /\ \A l \in open : links[l].lock = Nobody
  /\ links' = [l \in Links |-> IF l \in open
                 THEN [links[l] EXCEPT !.lock = w] ELSE links[l]]
  /\ worker' = [worker EXCEPT ![w].pc = "issue", ![w].sees = open]
  /\ UNCHANGED <<now, user, userLock, tokens, revoked, room>>

\* create and commit; the mail goes out after it, if it goes out.
Issue(w) ==
  LET r == worker[w] IN
  /\ r.pc = "issue"
  /\ links' = [[l \in Links |-> IF l \in r.sees
                  THEN [links[l] EXCEPT !.until = r.at, !.lock = Nobody]
                  ELSE links[l]]
                EXCEPT ![Fresh(MadeLinks)] = [NoLink EXCEPT !.made = TRUE,
                                                !.until = r.at + LinkTTL]]
  /\ Becomes(w, Idle)
  /\ UNCHANGED <<now, user, userLock, tokens, revoked, room>>

\* resetPassword reads the row and its user; the new password is hashed next.
Reset(w, l) ==
  /\ worker[w].pc = "idle" /\ user = "ACTIVE" /\ RoomToRevoke
  /\ links[l].made /\ ~links[l].used /\ links[l].until > now
  /\ Becomes(w, [Request("reset", "claim") EXCEPT !.link = l, !.at = now])
  /\ UNCHANGED <<now, user, userLock, tokens, links, revoked, room>>

\* The where clause of the claim, with the clock as the request read it.
Claimable(w) ==
  LET l == worker[w].link IN ~links[l].used /\ links[l].until > worker[w].at

\* updateMany(usedAt null, expiresAt > now): count 1, or 400.
Claim(w) ==
  LET l == worker[w].link IN
  /\ worker[w].pc = "claim" /\ Free(links[l].lock, w)
  /\ \/ /\ Claimable(w)
        /\ links' = [links EXCEPT ![l].lock = w]
        /\ GoesTo(w, "overwrite")
     \/ /\ ~Claimable(w)
        /\ Becomes(w, Idle)
        /\ UNCHANGED links
  /\ UNCHANGED <<now, user, userLock, tokens, revoked, room>>

-----------------------------------------------------------------------------

\* The request ends where it stands and its transaction is rolled back.
Abort(w) ==
  /\ worker[w].pc # "idle"
  /\ Becomes(w, Idle)
  /\ userLock' = IF userLock = w THEN Nobody ELSE userLock
  /\ tokens' = [t \in Tokens |->
                 [tokens[t] EXCEPT !.lock = IF @ = w THEN Nobody ELSE @]]
  /\ links' = [l \in Links |->
                [links[l] EXCEPT !.lock = IF @ = w THEN Nobody ELSE @]]
  /\ UNCHANGED <<now, user, revoked, room>>

Tick ==
  /\ now < MaxTime
  /\ now' = now + 1
  /\ UNCHANGED <<user, userLock, tokens, links, revoked, worker, room>>

\* Steps of a request already being served.
Serve(w) ==
  \/ Enrol(w) \/ Stamp(w) \/ Persist(w)
  \/ Rotate(w) \/ Succeed(w) \/ Revoke(w)
  \/ Overwrite(w) \/ Commit(w)
  \/ Withdraw(w) \/ Issue(w) \/ Claim(w)

Next ==
  \/ \E w \in Workers :
       \/ Register(w) \/ Login(w) \/ ChangePassword(w) \/ Block(w) \/ Forgot(w)
       \/ \E t \in Tokens : Refresh(w, t) \/ Logout(w, t)
       \/ \E l \in Links : Reset(w, l)
       \/ Serve(w)
       \/ Abort(w)
  \/ Unblock
  \/ Tick

\* A request being served goes on, and the queue of a row lock is first come,
\* first served, so a request that waits for a row gets it.
Spec == Init /\ [][Next]_vars /\ \A w \in Workers : SF_vars(Serve(w))

-----------------------------------------------------------------------------
(* Properties                                                              *)

Lockers == Workers \cup {Nobody}

\* Every variable holds a value of its type in the code.
TypeOK ==
  /\ room \in Rooms /\ now \in 0..MaxTime /\ revoked \in 0..room.revocations
  /\ user \in {"none", "ACTIVE", "BLOCKED"} /\ userLock \in Lockers
  /\ tokens \in [Tokens -> [made : BOOLEAN, live : BOOLEAN,
                            lock : Lockers, parent : Tokens \cup {None},
                            since : 0..room.revocations, stray : BOOLEAN]]
  /\ links \in [Links -> [made : BOOLEAN, used : BOOLEAN,
                          until : 0..(MaxTime + LinkTTL), lock : Lockers,
                          changes : 0..1]]
  /\ \A w \in Workers : worker[w].pc = "idle" <=> worker[w] = Idle

\* A refresh token is rotated at most once, while it is live, and is revoked
\* in the same step: two refreshes with one token, or one that races a logout
\* or a change of password, leave one line of sessions (refresh, logout).
RotatesOnce ==
  [][\A t \in Tokens : Children(t)' # Children(t) =>
       /\ Live(t) /\ ~Live(t)'
       /\ Cardinality(Children(t)') = 1]_vars

\* A change of password, a reset or a block ends every session: a live token
\* is older than the last of them only if a request of its line (the login, a
\* rotation) was in flight at the same time as one of them.
RevocationReaches ==
  \A t \in Tokens : Live(t) /\ tokens[t].since < revoked => tokens[t].stray

\* A reset link changes the password at most once, however many requests
\* bring it at the same time, and is used up by that change alone.
LinkChangesOnce ==
  \A l \in Links :
    links[l].changes <= 1 /\ (links[l].used <=> links[l].changes = 1)

\* A revocation reaches every session but those a request is making, and a
\* link changes one password (auth.service.ts, password-reset.service.ts).
SessionsKept == TypeOK /\ RevocationReaches /\ LinkChangesOnce

\* Requests that wait for each other's rows (a rotation, a reset, a change of
\* password and a block take them in different orders) all end.
RequestsEnd ==
  \A w \in Workers : []<>(worker[w].pc = "idle")
=============================================================================
