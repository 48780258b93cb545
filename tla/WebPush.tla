------------------------------- MODULE WebPush -------------------------------
(***************************************************************************)
(* Browser pushes of one user: enabling them on a device, which also       *)
(* copies what is already scheduled (subscribe of web-push.service.ts),    *)
(* the schedule they follow (notification-scheduler.service.ts), and the   *)
(* delivery of one notification to several devices under a claim           *)
(* (deliver, called by notification-worker.service.ts).                    *)
(*                                                                         *)
(* subscribe is one serializable transaction: it reads a snapshot, and     *)
(* commits only if no other transaction wrote what it writes since.  All   *)
(* else runs at the default isolation, a statement at a time, so           *)
(* PostgreSQL lets it pass beside the snapshot.                            *)
(*                                                                         *)
(* A device that comes back after it was removed gets a new subscription,  *)
(* so it is another member of Devices.  Left out: devices that another     *)
(* account holds, which are refused before anything is written, and the    *)
(* waiting time before a retry.                                            *)
(***************************************************************************)
EXTENDS Integers, FiniteSets

CONSTANTS
  Entities,     \* tasks, reminders and meetings
  Devices,      \* subscriptions, by id
  Workers,      \* notification workers
  DeviceLimit,  \* devices a user may have
  MaxRetries,   \* attempts at a notification
  MaxTime,      \* bound: the last time something is scheduled at
  MaxPushes,    \* bound: WEB_PUSH rows
  Bounds        \* bounds: edits, subscribes, faults, in different behaviours

\* What the constants must be; the module that instantiates this one assumes it.
WebPushAssumption ==
  /\ IsFiniteSet(Workers) /\ IsFiniteSet(Entities)
  /\ "none" \notin Workers \cup Devices
  /\ DeviceLimit \in Nat /\ MaxRetries \in Nat /\ MaxTime \in Nat \ {0}
  /\ MaxPushes \in Nat
  /\ Bounds \subseteq [edits : Nat, subscribes : Nat, removals : Nat,
                       toggles : Nat, claims : Nat, faults : Nat,
                       leases : Nat, restarts : Nat]

VARIABLES
  now,      \* the clock
  when,     \* when each entity is due, or Never
  inbox,    \* its IN_APP row that was created last
  push,     \* the WEB_PUSH rows
  enabled,  \* webPushEnabled of the preference
  version,  \* how often the preference was written
  subs,     \* the subscriptions
  gone,     \* those that were removed
  receipts, \* pairs of row and device
  editor,   \* a change of an entity under way
  tx,       \* a subscribe under way, by device
  worker,   \* the workers
  sent,     \* history: the pushes each device got of each row
  excused,  \* history: how many of them could not be known of
  left      \* how much of each there may still be

vars == <<now, when, inbox, push, enabled, version, subs, gone, receipts,
          editor, tx, worker, sent, excused, left>>
device == <<enabled, version, subs, gone, tx>>
delivery == <<receipts, worker, sent, excused>>

Pushes == 1..MaxPushes
Never == 0
None == "none"

NoRow == [entity |-> None, at |-> Never, status |-> None, claim |-> None,
          over |-> FALSE, tries |-> 0, stale |-> FALSE, late |-> 0]
\* `found` (history): the devices the worker read.
Idle == [pc |-> "idle", row |-> 0, todo |-> {}, device |-> None,
         failed |-> FALSE, found |-> {}]
NoEdit == [pc |-> "idle", entity |-> None, push |-> FALSE]
\* `edited` (history): entities whose rows were cancelled since the snapshot.
NoTx == [pc |-> "idle", known |-> FALSE, version |-> 0, source |-> {},
         edited |-> {}]

Init ==
  /\ left \in Bounds
  /\ now = 1
  /\ when = [e \in Entities |-> Never]
  /\ inbox = [e \in Entities |-> [status |-> None, at |-> Never]]
  /\ push = [p \in Pushes |-> NoRow]
  /\ enabled = FALSE /\ version = 0
  /\ subs = {} /\ gone = {} /\ receipts = {}
  /\ editor = NoEdit
  /\ tx = [d \in Devices |-> NoTx]
  /\ worker = [w \in Workers |-> Idle]
  /\ sent = [x \in Pushes \X Devices |-> 0]
  /\ excused = [x \in Pushes \X Devices |-> 0]

Free == {p \in Pushes : push[p].status = None}

\* push with a row for each <<entity, time>> of S; those of the entities of
\* `stale` (history) were cancelled while they were copied.
WithRows(S, stale) ==
  LET place == CHOOSE f \in [S -> Free] :
                 \A x, y \in S : f[x] = f[y] => x = y IN
  [p \in Pushes |->
     IF \E x \in S : place[x] = p
     THEN LET x == CHOOSE y \in S : place[y] = p IN
          [NoRow EXCEPT !.entity = x[1], !.at = x[2], !.status = "PENDING",
                        !.stale = x[1] \in stale]
     ELSE push[p]]

-----------------------------------------------------------------------------
(* The schedule                                                            *)

Passes ==
  /\ now < MaxTime
  /\ now' = now + 1
  /\ UNCHANGED <<when, inbox, push, editor, device, delivery, left>>

\* The entity is written; its notifications follow.
Edit(e, t) ==
  /\ editor.pc = "idle" /\ left.edits > 0
  /\ t = Never \/ t >= now
  /\ when' = [when EXCEPT ![e] = t]
  /\ editor' = [NoEdit EXCEPT !.pc = "cancel", !.entity = e]
  /\ left' = [left EXCEPT !.edits = @ - 1]
  /\ UNCHANGED <<now, inbox, push, device, delivery>>

\* cancelEntityNotifications
Cancel ==
  /\ editor.pc = "cancel"
  /\ push' = [p \in Pushes |->
       IF push[p].entity = editor.entity /\ push[p].status = "PENDING"
       THEN [push[p] EXCEPT !.status = "CANCELLED", !.claim = None,
                            !.over = FALSE]
       ELSE push[p]]
  /\ inbox' = IF inbox[editor.entity].status = "PENDING"
              THEN [inbox EXCEPT ![editor.entity].status = "CANCELLED"]
              ELSE inbox
  /\ editor' = IF when[editor.entity] = Never THEN NoEdit
               ELSE [editor EXCEPT !.pc = "channels"]
  /\ tx' = [d \in Devices |->
              IF tx[d].pc = "commit"
              THEN [tx[d] EXCEPT !.edited = @ \cup {editor.entity}] ELSE tx[d]]
  /\ UNCHANGED <<now, when, enabled, version, subs, gone, delivery, left>>

\* channelsFor
Channels ==
  /\ editor.pc = "channels"
  /\ editor' = [editor EXCEPT !.pc = "create", !.push = enabled]
  /\ UNCHANGED <<now, when, inbox, push, device, delivery, left>>

\* replaceEntityNotifications: the rows of all channels at once.
Create ==
  /\ editor.pc = "create"
  /\ LET e == editor.entity IN
       /\ editor.push => Free # {}
       /\ inbox' = [inbox EXCEPT ![e] = [status |-> "PENDING",
                                         at |-> when[e]]]
       /\ push' = IF editor.push THEN WithRows({<<e, when[e]>>}, {})
                  ELSE push
  /\ editor' = NoEdit
  /\ UNCHANGED <<now, when, device, delivery, left>>

\* The inbox needs no transport.
DeliverInApp(e) ==
  /\ inbox[e].status = "PENDING" /\ inbox[e].at <= now
  /\ inbox' = [inbox EXCEPT ![e].status = "SENT"]
  /\ UNCHANGED <<now, when, push, editor, device, delivery, left>>

-----------------------------------------------------------------------------
(* Devices                                                                 *)

\* The rows a subscribe copies: what the inbox has PENDING from now on, and
\* no WEB_PUSH row that is not CANCELLED stands for.
Source ==
  {<<e, inbox[e].at>> : e \in {f \in Entities :
     inbox[f].status = "PENDING" /\ inbox[f].at >= now}}
Prior == {<<push[p].entity, push[p].at>> : p \in
            {q \in Pushes : push[q].status \notin {None, "CANCELLED"}}}

Subscribe(d) ==
  /\ tx[d].pc = "idle" /\ d \notin gone /\ left.subscribes > 0
  /\ d \in subs \/ Cardinality(subs) < DeviceLimit
  /\ tx' = [tx EXCEPT ![d] = [pc |-> "commit", known |-> d \in subs,
                              version |-> version,
                              source |-> Source \ Prior, edited |-> {}]]
  /\ left' = [left EXCEPT !.subscribes = @ - 1]
  /\ UNCHANGED <<now, when, inbox, push, enabled, version, subs, gone,
                 editor, delivery>>

\* Every subscribe writes the preference, and a known device: the first one
\* to write a row and commit wins.
Serializes(d) == /\ tx[d].version = version
                 /\ tx[d].known => d \in subs

Commit(d) ==
  /\ tx[d].pc = "commit" /\ Serializes(d)
  /\ Cardinality(tx[d].source) <= Cardinality(Free)
  /\ subs' = subs \cup {d}
  /\ enabled' = TRUE /\ version' = version + 1
  /\ push' = WithRows(tx[d].source, tx[d].edited)
  /\ tx' = [tx EXCEPT ![d] = NoTx]
  /\ UNCHANGED <<now, when, inbox, gone, editor, delivery, left>>

Aborts(d) ==
  /\ tx[d].pc = "commit" /\ ~Serializes(d)
  /\ tx' = [tx EXCEPT ![d] = NoTx]
  /\ UNCHANGED <<now, when, inbox, push, enabled, version, subs, gone,
                 editor, delivery, left>>

\* The row of the subscription goes, and its receipts with it.
Removed(d) ==
  /\ subs' = subs \ {d} /\ gone' = gone \cup (subs \cap {d})
  /\ receipts' = {x \in receipts : x[2] # d}

Unsubscribe(d) ==
  /\ d \in subs /\ left.removals > 0
  /\ Removed(d)
  /\ left' = [left EXCEPT !.removals = @ - 1]
  /\ UNCHANGED <<now, when, inbox, push, enabled, version, editor, tx,
                 worker, sent, excused>>

\* updatePreference
SetPreference ==
  /\ left.toggles > 0
  /\ enabled' = ~enabled /\ version' = version + 1
  /\ left' = [left EXCEPT !.toggles = @ - 1]
  /\ UNCHANGED <<now, when, inbox, push, subs, gone, editor, tx, delivery>>

-----------------------------------------------------------------------------
(* Delivery                                                                *)

Held(w, p) == push[p].status = "PENDING" /\ push[p].claim = w

\* processDueNotifications: a row nobody has claimed, or whose lease is over.
Claim(w, p) ==
  /\ worker[w].pc = "idle" /\ left.claims > 0
  /\ push[p].status = "PENDING" /\ push[p].at <= now
  /\ push[p].claim = None \/ push[p].over
  /\ push' = [push EXCEPT ![p].claim = w, ![p].over = FALSE]
  /\ worker' = [worker EXCEPT ![w].pc = "devices", ![w].row = p]
  \* Whoever lost the claim may have a push out that it has not noted yet.
  /\ excused' = [x \in Pushes \X Devices |->
       excused[x] + IF /\ x[1] = p
                       /\ \E v \in Workers \ {w} :
                            /\ worker[v].pc \in {"send", "receipt"}
                            /\ worker[v].row = p /\ worker[v].device = x[2]
                    THEN 1 ELSE 0]
  /\ left' = [left EXCEPT !.claims = @ - 1]
  /\ UNCHANGED <<now, when, inbox, editor, device, receipts, sent>>

ReadDevices(w) ==
  /\ worker[w].pc = "devices"
  /\ worker' = [worker EXCEPT ![w].pc = "loop",
                  ![w].todo = IF enabled THEN subs ELSE {},
                  ![w].found = IF enabled THEN subs ELSE {}]
  /\ UNCHANGED <<now, when, inbox, push, editor, device, receipts, sent,
                 excused, left>>

Noted(p, d) == <<p, d>> \in receipts
Mine(w, p) == Held(w, p)

\* The next device: done already, or the claim is gone, or its turn.
Device(w, d) ==
  /\ worker[w].pc = "loop" /\ d \in worker[w].todo
  /\ LET u == worker[w] IN
     worker' = [worker EXCEPT ![w] =
       CASE Noted(u.row, d) -> [u EXCEPT !.todo = @ \ {d}]
         [] ~Noted(u.row, d) /\ ~Mine(w, u.row) ->
              [u EXCEPT !.todo = {}, !.failed = FALSE]
         [] ~Noted(u.row, d) /\ Mine(w, u.row) ->
              [u EXCEPT !.todo = @ \ {d}, !.pc = "send", !.device = d]]
  /\ UNCHANGED <<now, when, inbox, push, editor, device, receipts, sent,
                 excused, left>>

\* Mutant of Broken: an error at one device is forgotten.
Shrugged(u) == [u EXCEPT !.pc = "loop", !.device = None]

\* An error of the transport, or of the receipt: the row is tried again.
Broken(u) == [u EXCEPT !.pc = "loop", !.device = None, !.failed = TRUE]

Pushed(w) == sent' = [sent EXCEPT ![<<worker[w].row, worker[w].device>>] = @ + 1]
Late(p) == IF push[p].status = "CANCELLED"
           THEN [push EXCEPT ![p].late = @ + 1] ELSE push

Sends(w) ==
  /\ worker[w].pc = "send"
  /\ Pushed(w) /\ push' = Late(worker[w].row)
  /\ worker' = [worker EXCEPT ![w].pc = "receipt"]
  /\ UNCHANGED <<now, when, inbox, editor, device, receipts, excused, left>>

\* No answer: the push may be out all the same.
SendFails(w) ==
  /\ worker[w].pc = "send" /\ left.faults > 0
  /\ \/ UNCHANGED <<push, sent, excused>>
     \/ /\ Pushed(w) /\ push' = Late(worker[w].row)
        /\ excused' = [excused EXCEPT
                         ![<<worker[w].row, worker[w].device>>] = @ + 1]
  /\ worker' = [worker EXCEPT ![w] = Broken(@)]
  /\ left' = [left EXCEPT !.faults = @ - 1]
  /\ UNCHANGED <<now, when, inbox, editor, device, receipts>>

\* 404 or 410: the browser has dropped the subscription.
DeviceGone(w) ==
  /\ worker[w].pc = "send" /\ left.removals > 0
  /\ Removed(worker[w].device)
  /\ worker' = [worker EXCEPT ![w].pc = "loop", ![w].device = None]
  /\ left' = [left EXCEPT !.removals = @ - 1]
  /\ UNCHANGED <<now, when, inbox, push, enabled, version, editor, tx, sent,
                 excused>>

Receipt(w) ==
  /\ worker[w].pc = "receipt" /\ worker[w].device \in subs
  /\ receipts' = receipts \cup {<<worker[w].row, worker[w].device>>}
  /\ worker' = [worker EXCEPT ![w].pc = "loop", ![w].device = None]
  /\ UNCHANGED <<now, when, inbox, push, editor, device, sent, excused, left>>

\* The database fails, or the subscription the receipt belongs to is gone.
ReceiptFails(w) ==
  /\ worker[w].pc = "receipt"
  /\ \/ /\ worker[w].device \notin subs /\ UNCHANGED left
     \/ left.faults > 0 /\ left' = [left EXCEPT !.faults = @ - 1]
  /\ excused' = [excused EXCEPT
                   ![<<worker[w].row, worker[w].device>>] = @ + 1]
  /\ worker' = [worker EXCEPT ![w] = Broken(@)]
  /\ UNCHANGED <<now, when, inbox, push, editor, device, receipts, sent>>

\* The row is settled by whoever still holds its claim.
Finish(w) ==
  /\ worker[w].pc = "loop" /\ worker[w].todo = {}
  /\ LET p == worker[w].row
         r == push[p]
         freed == [r EXCEPT !.claim = None, !.over = FALSE] IN
     push' = [push EXCEPT ![p] =
       CASE ~Held(w, p) -> r
         [] Held(w, p) /\ ~worker[w].failed -> [freed EXCEPT !.status = "SENT"]
         [] Held(w, p) /\ worker[w].failed ->
              [freed EXCEPT !.tries = @ + 1,
                 !.status = IF r.tries + 1 >= MaxRetries THEN "FAILED"
                            ELSE "PENDING"]]
  /\ worker' = [worker EXCEPT ![w] = Idle]
  /\ UNCHANGED <<now, when, inbox, editor, device, receipts, sent, excused,
                 left>>

LeaseEnds(p) ==
  /\ push[p].claim # None /\ ~push[p].over /\ left.leases > 0
  /\ push' = [push EXCEPT ![p].over = TRUE]
  /\ left' = [left EXCEPT !.leases = @ - 1]
  /\ UNCHANGED <<now, when, inbox, editor, device, delivery>>

\* The process of a worker dies.
Restart(w) ==
  /\ worker[w].pc # "idle" /\ left.restarts > 0
  /\ worker' = [worker EXCEPT ![w] = Idle]
  /\ excused' = [x \in Pushes \X Devices |->
       excused[x] + IF /\ worker[w].pc = "receipt"
                       /\ x = <<worker[w].row, worker[w].device>>
                    THEN 1 ELSE 0]
  /\ left' = [left EXCEPT !.restarts = @ - 1]
  /\ UNCHANGED <<now, when, inbox, push, editor, device, receipts, sent>>

Next ==
  \/ Passes \/ Cancel \/ Channels \/ Create \/ SetPreference
  \/ \E e \in Entities : DeliverInApp(e) \/ \E t \in 0..MaxTime : Edit(e, t)
  \/ \E d \in Devices :
       Subscribe(d) \/ Commit(d) \/ Aborts(d) \/ Unsubscribe(d)
  \/ \E p \in Pushes : LeaseEnds(p)
  \/ \E w \in Workers :
       \/ ReadDevices(w) \/ Sends(w) \/ SendFails(w) \/ DeviceGone(w)
       \/ Receipt(w) \/ ReceiptFails(w) \/ Finish(w) \/ Restart(w)
       \/ \E p \in Pushes : Claim(w, p)
       \/ \E d \in Devices : Device(w, d)

Spec == Init /\ [][Next]_vars

-----------------------------------------------------------------------------
(* Properties                                                              *)

Statuses == {None, "PENDING", "SENT", "FAILED", "CANCELLED"}

\* Types, and a claim is on a PENDING row only.
TypeOK ==
  /\ now \in 1..MaxTime /\ when \in [Entities -> 0..MaxTime]
  /\ \A e \in Entities : inbox[e].status \in Statuses
  /\ \A p \in Pushes :
       /\ push[p].status \in Statuses
       /\ push[p].claim # None => push[p].status = "PENDING"
       /\ push[p].over => push[p].claim # None
  /\ subs \subseteq Devices /\ receipts \subseteq Pushes \X subs
  /\ \A w \in Workers :
       (worker[w].pc \in {"send", "receipt"}) = (worker[w].device # None)

\* Subscribes that overlap leave what some order of them one after the other
\* leaves: no more devices than the limit, and no two live pushes for one time
\* of one entity, unless the entity itself changed under one of them.
AsIfOneAtATime ==
  /\ Cardinality(subs) <= DeviceLimit
  /\ \A p, q \in Pushes :
       ( /\ p # q /\ push[p].status = "PENDING" /\ push[q].status = "PENDING"
         /\ push[p].entity = push[q].entity /\ push[p].at = push[q].at )
       => push[p].stale \/ push[q].stale

\* A device that stays subscribed gets a notification once, and again only for
\* each push that no receipt could tell of: the answer or the receipt was
\* lost, the process died in between, or another worker took the claim.
NotPushedTwice ==
  \A x \in Pushes \X Devices : x[2] \notin gone => sent[x] <= 1 + excused[x]

\* A notification that is cancelled while it goes out reaches at most the one
\* device each worker was at.
CancelSilences == \A p \in Pushes : push[p].late <= Cardinality(Workers)

\* A row becomes SENT only when each device its worker found has the push, or
\* is gone: one device of several that failed keeps the row open.
SentReachedAll ==
  [][\A w \in Workers :
       ( /\ worker[w].pc = "loop" /\ worker'[w] = Idle
         /\ push[worker[w].row].status = "PENDING"
         /\ push'[worker[w].row].status = "SENT" )
       => \A d \in worker[w].found \cap subs :
            sent[<<worker[w].row, d>>] > 0]_vars
=============================================================================
