----------------------------- MODULE FileStore -----------------------------
(***************************************************************************)
(* The user's files and folders (files.service.ts): an upload puts the     *)
(* object into the storage and then makes the row, a delete removes the    *)
(* object and then marks the row, and the text is taken out of the file in *)
(* the background.  A folder is moved after a walk up from its new parent. *)
(*                                                                         *)
(* Requests overlap, and any step of one may fail or be its last.  Left    *)
(* out: names, labels, quotas, the search, and linked Drive files, which   *)
(* have no object.                                                         *)
(***************************************************************************)
EXTENDS Integers

CONSTANTS
  Folders,   \* folder identifiers
  Files,     \* one upload each
  Requests,  \* requests under way at a time
  Root, Unmade, Gone, NoFile,
  MaxDepth,  \* how far the walk goes up (100)
  Bounds     \* bounds by kind, in different behaviours

\* What the constants must be; the module that instantiates this one assumes it.
FileStoreAssumption ==
  /\ {Root, Unmade, Gone} \cap Folders = {} /\ NoFile \notin Files
  /\ Root # Unmade /\ Root # Gone /\ Unmade # Gone

VARIABLES
  parent,  \* parentId of each folder, Root for none; Unmade, or Gone
  row,     \* the files' rows: status, folder, and the text's status
  object,  \* the files whose object is in the storage
  reading, \* the files whose text is being taken out
  request, \* the requests under way
  history, \* what the properties speak of, see below
  left     \* how much may still happen

vars == <<parent, row, object, reading, request, history, left>>

NoRow == [status |-> "none", folder |-> Root, text |-> "PENDING"]
Idle == [pc |-> "idle", folder |-> Root, at |-> Root, steps |-> 0,
         to |-> Root, file |-> NoFile]

\* `crossed`: two moves overlapped; `cut`: the files of which a step after
\* the storage's failed, or was not reached.
Init ==
  /\ left \in Bounds
  /\ parent = [f \in Folders |-> Unmade]
  /\ row = [x \in Files |-> NoRow]
  /\ object = {} /\ reading = {}
  /\ request = [r \in Requests |-> Idle]
  /\ history = [crossed |-> FALSE, cut |-> {}]

Spend(kind) == left[kind] > 0 /\ left' = [left EXCEPT ![kind] = @ - 1]
Set(r, new) == request' = [request EXCEPT ![r] = new]
There(p) == p # Root => parent[p] \notin {Unmade, Gone}
Free(r) == request[r].pc = "idle"

-----------------------------------------------------------------------------
(* Folders                                                                 *)

\* The database refuses a parent that is not there.
CreateFolder(f, p) ==
  /\ parent[f] = Unmade /\ There(p) /\ Spend("folders")
  /\ parent' = [parent EXCEPT ![f] = p]
  /\ UNCHANGED <<row, object, reading, request, history>>

Moving == {r \in Requests : request[r].pc \in {"walk", "move"}}

\* updateFolderForUser; to the root there is nothing to check.
BeginMove(r, f, p) ==
  /\ Free(r) /\ There(f) /\ p # f /\ Spend("moves")
  /\ Set(r, [Idle EXCEPT !.pc = IF p = Root THEN "move" ELSE "walk",
                         !.folder = f, !.at = p, !.to = p])
  /\ history' = [history EXCEPT !.crossed = @ \/ Moving # {}]
  /\ UNCHANGED <<parent, row, object, reading>>

\* Mutant of Closes: only the new parent itself is looked at.
ClosesAtOnce(r) == request[r].at = request[r].folder /\ request[r].steps = 0

Closes(r) == request[r].at = request[r].folder

\* assertParentAllowed reads one folder at a time.
Walk(r) ==
  /\ request[r].pc = "walk"
  /\ LET at == request[r].at IN
     IF request[r].steps = MaxDepth \/ Closes(r) \/ ~There(at)
     THEN Set(r, Idle)
     ELSE Set(r, [request[r] EXCEPT !.at = parent[at], !.steps = @ + 1,
                    !.pc = IF parent[at] = Root THEN "move" ELSE "walk"])
  /\ UNCHANGED <<parent, row, object, reading, history, left>>

\* Of a folder that is gone, or under one, nothing is moved.
Move(r) ==
  /\ request[r].pc = "move"
  /\ LET f == request[r].folder
         p == request[r].to IN
     parent' = IF There(f) /\ There(p)
               THEN [parent EXCEPT ![f] = p] ELSE parent
  /\ Set(r, Idle)
  /\ UNCHANGED <<row, object, reading, history, left>>

\* deleteFolderForUser looks for children first ...
BeginDrop(r, f) ==
  /\ Free(r) /\ There(f) /\ Spend("drops")
  /\ \A child \in Folders : parent[child] # f
  /\ Set(r, [Idle EXCEPT !.pc = "drop", !.folder = f])
  /\ UNCHANGED <<parent, row, object, reading, history>>

\* ... and the files, and the children that came since, go to the root.
Drop(r) ==
  /\ request[r].pc = "drop"
  /\ LET f == request[r].folder IN
     /\ parent' = [g \in Folders |-> IF g = f THEN Gone
                     ELSE IF parent[g] = f THEN Root ELSE parent[g]]
     /\ row' = [x \in Files |-> IF row[x].folder = f
                  THEN [row[x] EXCEPT !.folder = Root] ELSE row[x]]
  /\ Set(r, Idle)
  /\ UNCHANGED <<object, reading, history, left>>

-----------------------------------------------------------------------------
(* Files                                                                   *)

\* uploadForUser, once it has looked at the file and its folder.
Upload(r, x, p) ==
  /\ Free(r) /\ There(p) /\ row[x] = NoRow /\ x \notin object
  /\ x \notin history.cut /\ Spend("uploads")
  /\ \A s \in Requests : request[s].file # x
  /\ Set(r, [Idle EXCEPT !.pc = "insert", !.file = x, !.folder = p])
  /\ object' = object \cup {x}
  /\ UNCHANGED <<parent, row, reading, history>>

\* The row, unless its folder is gone by now; the text comes later.
Insert(r) ==
  /\ request[r].pc = "insert"
  /\ LET x == request[r].file
         p == request[r].folder IN
     IF There(p)
     THEN /\ row' = [row EXCEPT ![x] = [status |-> "ACTIVE", folder |-> p,
                                        text |-> "PENDING"]]
          /\ reading' = reading \cup {x}
          /\ Set(r, Idle)
     ELSE /\ Set(r, [request[r] EXCEPT !.pc = "undo"])
          /\ UNCHANGED <<row, reading>>
  /\ UNCHANGED <<parent, object, history, left>>

InsertFails(r) ==
  /\ request[r].pc = "insert" /\ Spend("faults")
  /\ Set(r, [request[r] EXCEPT !.pc = "undo"])
  /\ UNCHANGED <<parent, row, object, reading, history>>

Kept(r) == object \ {request[r].file}

Undo(r) ==
  /\ request[r].pc = "undo"
  /\ object' = Kept(r)
  /\ Set(r, Idle)
  /\ UNCHANGED <<parent, row, reading, history, left>>

Live(x) == row[x].status = "ACTIVE"

\* deleteForUser.
BeginDelete(r, x) ==
  /\ Free(r) /\ Live(x) /\ Spend("deletes")
  /\ Set(r, [Idle EXCEPT !.pc = "remove", !.file = x])
  /\ UNCHANGED <<parent, row, object, reading, history>>

\* An object that is not there is no error.
Remove(r) ==
  /\ request[r].pc = "remove"
  /\ object' = object \ {request[r].file}
  /\ Set(r, [request[r] EXCEPT !.pc = "mark"])
  /\ UNCHANGED <<parent, row, reading, history, left>>

\* The storage's error is the request's.
OnRefusal(r) == Idle

RemoveFails(r) ==
  /\ request[r].pc = "remove" /\ Spend("faults")
  /\ Set(r, OnRefusal(r))
  /\ UNCHANGED <<parent, row, object, reading, history>>

Mark(r) ==
  /\ request[r].pc = "mark"
  /\ row' = [row EXCEPT ![request[r].file].status = "DELETED"]
  /\ Set(r, Idle)
  /\ UNCHANGED <<parent, object, reading, history, left>>

\* updateForUser to another folder that is there.
MoveFile(x, p) ==
  /\ Live(x) /\ There(p) /\ Spend("moves")
  /\ row' = [row EXCEPT ![x].folder = p]
  /\ UNCHANGED <<parent, object, reading, request, history>>

\* extractAndStore writes by the identifier, whatever the row is by now.
Extract(x) ==
  /\ x \in reading
  /\ \E text \in {"READY", "FAILED", "UNSUPPORTED"} :
       row' = [row EXCEPT ![x].text = text]
  /\ reading' = reading \ {x}
  /\ UNCHANGED <<parent, object, request, history, left>>

-----------------------------------------------------------------------------
(* Faults                                                                  *)

\* The database fails after the storage has deleted; or the storage fails to
\* delete what an upload put there, which is swallowed.
LastStepFails(r) ==
  /\ request[r].pc \in {"mark", "undo"} /\ Spend("faults")
  /\ history' = [history EXCEPT !.cut = @ \cup {request[r].file}]
  /\ Set(r, Idle)
  /\ UNCHANGED <<parent, row, object, reading>>

\* Every request ends where it is, and what read a text does too.
Restart ==
  /\ Spend("faults")
  /\ history' = [history EXCEPT !.cut = @ \cup
       {request[r].file : r \in {q \in Requests :
            request[q].pc \in {"insert", "undo", "mark"}}}]
  /\ request' = [r \in Requests |-> Idle] /\ reading' = {}
  /\ UNCHANGED <<parent, row, object>>

Places == Folders \cup {Root}

Handles(r) ==
  \/ \E f \in Folders, p \in Places : BeginMove(r, f, p)
  \/ \E f \in Folders : BeginDrop(r, f)
  \/ \E x \in Files, p \in Places : Upload(r, x, p)
  \/ \E x \in Files : BeginDelete(r, x)
  \/ Walk(r) \/ Move(r) \/ Drop(r) \/ Insert(r) \/ InsertFails(r) \/ Undo(r)
  \/ Remove(r) \/ RemoveFails(r) \/ Mark(r) \/ LastStepFails(r)

Next ==
  \/ \E r \in Requests : Handles(r)
  \/ \E f \in Folders, p \in Places : CreateFolder(f, p)
  \/ \E x \in Files, p \in Places : MoveFile(x, p)
  \/ \E x \in Files : Extract(x)
  \/ Restart

Spec == Init /\ [][Next]_vars

-----------------------------------------------------------------------------
(* Properties                                                              *)

\* Every variable has its type, and a file is in a folder that is there.
TypeOK ==
  /\ \A f \in Folders : parent[f] \in Places \cup {Unmade, Gone}
  /\ \A x \in Files : /\ row[x].status \in {"none", "ACTIVE", "DELETED"}
                      /\ There(row[x].folder)
  /\ object \subseteq Files /\ reading \subseteq Files

\* A file that is shown can be downloaded and an object that is stored is
\* some file's, while no request is between the storage and the database and
\* none was cut off there; a failure that is handled leaves them agreeing.
StorageAgrees ==
  \A x \in Files :
    (x \notin history.cut /\ \A r \in Requests : request[r].file # x)
      => (x \in object <=> Live(x))

\* No folder is nested in itself, at any depth: some folder of every set of
\* them has its parent outside. It is what assertParentAllowed is there for.
FoldersFormTree ==
  \A S \in SUBSET Folders : S # {} => \E f \in S : parent[f] \notin S

\* Moves that do not overlap keep the folders a tree, whatever is made and
\* deleted while one of them walks up.
MovesKeepTree == ~history.crossed => FoldersFormTree
=============================================================================
