------------------------------- MODULE Memory -------------------------------
(***************************************************************************)
(* What the assistant remembers about one user (memory.service.ts).  A     *)
(* memory is created after three looks at the database, at the quota, at   *)
(* the user's preference and at the memory there is for the key in any     *)
(* spelling, and is then inserted; only the exact spelling of the key is   *)
(* unique in the table.  Memories are corrected, archived, made active     *)
(* again, deleted one by one or all at once, while others are created.     *)
(*                                                                         *)
(* Left out: its value (a request that would repeat it or contradict it    *)
(* writes nothing), the contact it is about, and the retrieval, which only *)
(* notes when a memory was last used.                                      *)
(***************************************************************************)
EXTENDS Naturals, FiniteSets

CONSTANTS
  Requests,   \* requests served at a time
  Subjects,   \* keys, apart from how they are spelled
  Spellings,
  Limit,      \* active memories the plan allows
  MaxRows,    \* bound: memories ever created
  Bounds      \* bounds: subjects, and steps, requests other than those that
              \*   create, in different behaviours

\* What the constants must be; the module that instantiates this one assumes it.
MemoryAssumption ==
  MaxRows \in Nat /\ Bounds \subseteq [subjects : SUBSET Subjects, steps : Nat]

VARIABLES
  memories,  \* rows: id, subject, spelling, status
  enabled,   \* memoryEnabled of the user
  request,   \* what each request has found out
  made, left,
  raced,     \* history: subjects inserted under a request's eyes, or renamed
             \* or made active by an update, which looks at nothing
  cleared,   \* history: all was deleted while memory was off
  strays     \* history: requests that were past the preference by then

rows == <<memories, enabled>>
history == <<raced, cleared, strays>>
vars == <<rows, request, made, left, history>>

Active == {m \in memories : m.status = "ACTIVE"}
Idle == [pc |-> "idle"]
Keys == [subject : left.subjects, spelling : Spellings]

-----------------------------------------------------------------------------
(* createForUser                                                           *)

GoesTo(r, pc) == request' = [request EXCEPT ![r].pc = pc]
Refused(r) == request' = [request EXCEPT ![r] = Idle]

\* assertMemoryAllowed.
Ask(r) ==
  /\ request[r].pc = "idle" /\ Cardinality(Active) < Limit
  /\ \E key \in Keys, s \in {"ACTIVE", "ARCHIVED"} :
       request' = [request EXCEPT ![r] =
                     [pc |-> "preference", key |-> key, status |-> s]]
  /\ UNCHANGED <<rows, made, left, history>>

Willing == enabled

Preference(r) ==
  /\ request[r].pc = "preference"
  /\ IF Willing THEN GoesTo(r, "find") ELSE Refused(r)
  /\ UNCHANGED <<rows, made, left, history>>

\* Mutant of Known: only the key as it is spelled.
AsSpelled(key) == {m \in Active : m.subject = key.subject /\ m.spelling = key.spelling}

\* The active memories for the key, in any spelling.
Known(key) == {m \in Active : m.subject = key.subject}

\* The same value is no news, another one is a conflict: nothing is written.
Find(r) ==
  /\ request[r].pc = "find"
  /\ IF Known(request[r].key) = {} THEN GoesTo(r, "insert") ELSE Refused(r)
  /\ UNCHANGED <<rows, made, left, history>>

\* The unique index of the table.
Taken(key, others) ==
  \E m \in others : m.subject = key.subject /\ m.spelling = key.spelling

\* Requests that looked for the subject before and have still to insert it.
Unaware(r, subject) ==
  {q \in Requests \ {r} : request[q].pc = "insert" /\ request[q].key.subject = subject}

Insert(r) ==
  LET q == request[r] IN
  /\ q.pc = "insert" /\ made < MaxRows
  /\ Refused(r)
  /\ IF Taken(q.key, memories)
     THEN UNCHANGED <<memories, made, raced>>
     ELSE /\ memories' = memories \cup
               {[id |-> made + 1, subject |-> q.key.subject,
                 spelling |-> q.key.spelling, status |-> q.status]}
          /\ made' = made + 1
          /\ raced' = IF Unaware(r, q.key.subject) = {} THEN raced
                      ELSE raced \cup {q.key.subject}
  /\ strays' = strays
  /\ UNCHANGED <<enabled, left, cleared>>

-----------------------------------------------------------------------------
(* The other requests: a look at the memory and one write, which fails if  *)
(* it is gone, so that each is one step here                               *)

Budget == left.steps > 0 /\ left' = [left EXCEPT !.steps = @ - 1]

\* A correction of the key; one of the value only changes nothing here.
Correct(m) ==
  /\ Budget
  /\ \E key \in Keys \ {[subject |-> m.subject, spelling |-> m.spelling]} :
       /\ ~Taken(key, memories \ {m})
       /\ memories' = (memories \ {m}) \cup
            {[m EXCEPT !.subject = key.subject, !.spelling = key.spelling]}
       /\ raced' = IF key.subject = m.subject THEN raced
                   ELSE raced \cup {key.subject}
  /\ UNCHANGED <<enabled, request, made, cleared, strays>>

\* Archived, or active again.
SetStatus(m) ==
  /\ Budget
  /\ \E s \in {"ACTIVE", "ARCHIVED"} \ {m.status} :
       /\ memories' = (memories \ {m}) \cup {[m EXCEPT !.status = s]}
       /\ raced' = IF s = "ACTIVE" THEN raced \cup {m.subject} ELSE raced
  /\ UNCHANGED <<enabled, request, made, cleared, strays>>

Delete(m) ==
  /\ Budget
  /\ memories' = memories \ {m}
  /\ UNCHANGED <<enabled, request, made, history>>

Past == {r \in Requests : request[r].pc \in {"find", "insert"}}

DeleteAll ==
  /\ Budget
  /\ memories' = {}
  /\ cleared' = ~enabled
  /\ strays' = strays \cup Past
  /\ UNCHANGED <<enabled, request, made, raced>>

SetPreference ==
  /\ Budget
  /\ enabled' = ~enabled
  /\ cleared' = FALSE
  /\ UNCHANGED <<memories, request, made, raced, strays>>

-----------------------------------------------------------------------------
Init ==
  /\ memories = {} /\ enabled = TRUE
  /\ request = [r \in Requests |-> Idle]
  /\ made = 0 /\ left \in Bounds
  /\ raced = {} /\ cleared = FALSE /\ strays = {}

Next ==
  \/ \E r \in Requests : Ask(r) \/ Preference(r) \/ Find(r) \/ Insert(r)
  \/ \E m \in memories : Correct(m) \/ SetStatus(m) \/ Delete(m)
  \/ DeleteAll \/ SetPreference

Spec == Init /\ [][Next]_vars

-----------------------------------------------------------------------------
(* Properties                                                              *)

\* Every variable has its type.
TypeOK ==
  /\ memories \subseteq [id : 1..MaxRows, subject : Subjects, spelling : Spellings,
                         status : {"ACTIVE", "ARCHIVED"}]
  /\ \A m, n \in memories : m.id = n.id => m = n
  /\ enabled \in BOOLEAN /\ cleared \in BOOLEAN
  /\ \A r \in Requests : request[r].pc \in {"idle", "preference", "find", "insert"}
  /\ made \in 0..MaxRows
  /\ raced \subseteq Subjects /\ strays \subseteq Requests

\* The assistant holds one active memory for a key, however it is spelled,
\* unless two were created at once or one was renamed or made active again
\* (createForUser looks, updateForUser does not).
OneTruth ==
  \A m, n \in Active : m.subject = n.subject /\ m.subject \notin raced => m = n

\* A user who turns memory off and has everything deleted has no memories
\* from then on, but for those of requests that had asked before.
StaysCleared == cleared /\ strays = {} => memories = {}
=============================================================================
