---------------------------- MODULE BitoSession ----------------------------
(***************************************************************************)
(* One conversation with the ERP's MCP server (bito-mcp.client.ts).  Each  *)
(* request, a list of the tools or a call of one, has its own: the server  *)
(* is asked whether it speaks the protocol without sessions, and if not, a *)
(* session is made with it; then the tools are listed page by page, or the *)
(* one call is made, and the session is closed, without waiting for it.    *)
(*                                                                         *)
(* The server is of one era, and one of the older may or may not give its  *)
(* sessions an id.  Its list of tools is a chain of pages, each with the   *)
(* cursor of the next, which may lead back.  It may forget a session.      *)
(* Left out: what the tools are, the headers, and the names of the errors. *)
(***************************************************************************)
EXTENDS Naturals, FiniteSets

CONSTANTS
  Requests,   \* what is asked of the server
  Lists,      \* those of them that list the tools; the others call one
  Servers,    \* the servers there may be: modern, stateful, next
  MaxPages,   \* the pages read at most (20)
  MaxFaults   \* bound: what the network and the server do wrong

\* What the constants must be; the module that instantiates this one assumes
\* it.  A chain of pages begins at the first and leads from page to page.
BitoSessionAssumption ==
  /\ Lists \subseteq Requests
  /\ \A s \in Servers :
       /\ {s.modern, s.stateful} \subseteq BOOLEAN
       /\ 1 \in DOMAIN s.next
       /\ \A p \in DOMAIN s.next : p \in Nat \ {0} /\ s.next[p] \in {0} \cup DOMAIN s.next
  /\ MaxPages \in Nat \ {0} /\ MaxFaults \in Nat

VARIABLES
  server,    \* the server: its era, whether sessions have an id, its pages
  request,   \* what each request is at, and what it found
  open,      \* the requests whose session the server holds
  lost,      \* history: sessions nobody can close, the close never arrived
             \* or the client never had its id
  faults

vars == <<server, request, open, lost, faults>>

First == 1   \* the page asked for without a cursor
None == 0    \* no cursor

At(r, pc) == request[r].pc = pc
Held(r) == request[r].session = "held"

-----------------------------------------------------------------------------
(* The era                                                                 *)

Opened(r, pc, session) ==
  request' = [request EXCEPT ![r].pc = pc, ![r].session = session]

\* tryModernDiscover: refused by an older server, the older handshake follows.
Discover(r) ==
  /\ At(r, "discover")
  /\ IF server.modern THEN Opened(r, "rpc", "modern")
     ELSE Opened(r, "initialize", "none")
  /\ UNCHANGED <<server, open, lost, faults>>

Faulty == faults < MaxFaults /\ faults' = faults + 1

\* An answer that makes no sense, or an error of the server's, is taken for a
\* refusal.
DiscoverGarbled(r) ==
  /\ At(r, "discover") /\ Faulty
  /\ Opened(r, "initialize", "none")
  /\ UNCHANGED <<server, open, lost>>

\* Before there is a session, an error leaves nothing to close.
Failed(r) ==
  request' = [request EXCEPT ![r].pc = "done", ![r].result = "failed"]

\* A rejected credential, no connection or no answer in time is no refusal.
DiscoverFails(r) ==
  /\ At(r, "discover") /\ Faulty
  /\ Failed(r)
  /\ UNCHANGED <<server, open, lost>>

\* initialize, to a server that has the method.
Initialize(r) ==
  /\ At(r, "initialize") /\ ~server.modern
  /\ Opened(r, "initialized", IF server.stateful THEN "held" ELSE "plain")
  /\ open' = IF server.stateful THEN open \cup {r} ELSE open
  /\ UNCHANGED <<server, lost, faults>>

InitializeUnsupported(r) ==
  /\ At(r, "initialize") /\ server.modern
  /\ Failed(r)
  /\ UNCHANGED <<server, open, lost, faults>>

\* The answer to initialize is lost: the session, if there is one, has no
\* owner.
InitializeLost(r) ==
  /\ At(r, "initialize") /\ ~server.modern /\ Faulty
  /\ Failed(r)
  /\ IF server.stateful THEN open' = open \cup {r} /\ lost' = lost \cup {r}
     ELSE UNCHANGED <<open, lost>>
  /\ UNCHANGED server

\* notifications/initialized.
Initialized(r) ==
  /\ At(r, "initialized")
  /\ Opened(r, "rpc", request[r].session)
  /\ UNCHANGED <<server, open, lost, faults>>

\* The notification fails before the caller has the session to close.
InitializedFails(r) ==
  /\ At(r, "initialized") /\ Faulty
  /\ Failed(r)
  /\ lost' = IF Held(r) THEN lost \cup {r} ELSE lost
  /\ UNCHANGED <<server, open>>

-----------------------------------------------------------------------------
(* The request                                                             *)

\* Mutant of Finally: the session is closed after a success only.
IfWell(r, result) ==
  [request[r] EXCEPT !.pc = IF result = "ok" THEN "close" ELSE "done",
                     !.result = result]

\* The finally block: the result is the caller's, the session is closed next.
Finally(r, result) == [request[r] EXCEPT !.pc = "close", !.result = result]

\* The server knows the session, or needs none.
Admits(r) == Held(r) => r \in open

\* One tool is called; it may say that it failed.
CallTool(r) ==
  /\ At(r, "rpc") /\ r \notin Lists /\ Admits(r)
  /\ \E result \in {"ok", "failed"} : request' = [request EXCEPT ![r] = Finally(r, result)]
  /\ UNCHANGED <<server, open, lost, faults>>

\* What follows a page: nothing, another one, or an error, when a cursor
\* comes again or there are too many.
NextCursor(seen, next) ==
  CASE next = None -> "end"
    [] next # None /\ (next \in seen \/ Cardinality(seen) + 1 >= MaxPages) -> "bad"
    [] OTHER -> "more"

\* The tools of the page are added to those so far.
Extracted(q) == q.got \cup {q.page}

\* One page of listAllTools.
ListPage(r) ==
  /\ At(r, "rpc") /\ r \in Lists /\ Admits(r)
  /\ LET q == request[r]
         next == server.next[q.page]
         has == [q EXCEPT !.got = Extracted(q)]
         what == NextCursor(q.seen, next) IN
     request' = [request EXCEPT ![r] =
       IF what = "more"
       THEN [has EXCEPT !.page = next, !.seen = @ \cup {next}]
       ELSE [Finally(r, IF what = "end" THEN "ok" ELSE "failed")
               EXCEPT !.got = has.got]]
  /\ UNCHANGED <<server, open, lost, faults>>

\* The server refuses a session it has forgotten; nothing starts another.
Rejected(r) ==
  /\ At(r, "rpc") /\ ~Admits(r)
  /\ request' = [request EXCEPT ![r] = Finally(r, "failed")]
  /\ UNCHANGED <<server, open, lost, faults>>

\* No answer, too long an answer, or none with the request's id.
RpcFails(r) ==
  /\ At(r, "rpc") /\ Faulty
  /\ request' = [request EXCEPT ![r] = Finally(r, "failed")]
  /\ UNCHANGED <<server, open, lost>>

\* terminate: a session with an id is deleted.
Close(r) ==
  /\ At(r, "close")
  /\ request' = [request EXCEPT ![r].pc = "done"]
  /\ open' = open \ {r}
  /\ UNCHANGED <<server, lost, faults>>

\* Its failure is ignored.
CloseLost(r) ==
  /\ At(r, "close") /\ Held(r) /\ Faulty
  /\ request' = [request EXCEPT ![r].pc = "done"]
  /\ lost' = lost \cup {r}
  /\ UNCHANGED <<server, open>>

\* The server drops a session of its own accord.
Forgets(r) ==
  /\ r \in open /\ Faulty
  /\ open' = open \ {r}
  /\ UNCHANGED <<server, request, lost>>

-----------------------------------------------------------------------------
Init ==
  /\ server \in Servers
  /\ request = [r \in Requests |->
       [pc |-> "discover", page |-> First, seen |-> {}, got |-> {},
        session |-> "none", result |-> "none"]]
  /\ open = {} /\ lost = {} /\ faults = 0

\* The steps of the code and of a server that answers.
Step(r) ==
  \/ Discover(r) \/ Initialize(r) \/ InitializeUnsupported(r)
  \/ Initialized(r) \/ CallTool(r) \/ ListPage(r) \/ Rejected(r) \/ Close(r)

Over == \A r \in Requests : At(r, "done")
Next ==
  \/ \E r \in Requests :
       \/ Step(r) \/ DiscoverGarbled(r) \/ DiscoverFails(r)
       \/ InitializeLost(r) \/ InitializedFails(r) \/ RpcFails(r)
       \/ CloseLost(r) \/ Forgets(r)
  \/ Over /\ UNCHANGED vars

\* Every request to the server is answered or cut off by its timer.
Fairness == \A r \in Requests : WF_vars(Step(r))

Spec == Init /\ [][Next]_vars /\ Fairness

-----------------------------------------------------------------------------
(* Properties                                                              *)

\* Every variable has its type.
TypeOK ==
  /\ \A r \in Requests :
       /\ request[r].pc \in {"discover", "initialize", "initialized", "rpc",
                             "close", "done"}
       /\ request[r].session \in {"none", "modern", "plain", "held"}
       /\ request[r].result \in {"none", "ok", "failed"}
       /\ Cardinality(request[r].got) <= MaxPages
  /\ open \subseteq Requests /\ lost \subseteq Requests
  /\ faults \in 0..MaxFaults

\* A list of tools that is returned is the whole list: a chain of pages that
\* leads back or is too long is an error, never a shorter list, for the tools
\* that are missing from it would be taken for withdrawn.
ListIsWhole ==
  \A r \in Lists : request[r].result = "ok" =>
    /\ First \in request[r].got
    /\ \A p \in request[r].got : server.next[p] \in request[r].got \cup {None}

\* Every request ends, however the pages are chained, and leaves the server
\* no session, unless the one that would close it never could.
Closed == \A r \in Requests : At(r, "done") /\ (r \in open => r \in lost)
SessionsClosed == <>[]Closed
=============================================================================
