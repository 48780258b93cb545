------------------------------ MODULE BitoRead ------------------------------
(***************************************************************************)
(* Reading a list from the ERP (bito-tool-bridge.service.ts): the pages of *)
(* one READ tool are followed to the end, and the stock list is read once, *)
(* or again in full, before a customer is told what there is.              *)
(*                                                                         *)
(* Every page is one remote call; the list may grow meanwhile.  The        *)
(* provider has a shape: how its tool is paged, how many rows it gives at  *)
(* most whatever limit it is asked for, and what it says about the rest.   *)
(* Rows are numbers, in the order they are listed.  Left out: columns,     *)
(* totals over them, and the optional summary, whose failure is ignored.   *)
(***************************************************************************)
EXTENDS Integers, FiniteSets, FiniteSetsExt, Sequences

CONSTANTS
  Cases,       \* what is asked of which provider, see Init
  Limit,       \* the number of rows asked for at a time (200)
  MaxPages,    \* MAX_AUTO_PAGES
  MaxRecords,  \* MAX_AUTO_RECORDS
  MaxRows      \* bound: rows the list grows to

Pagers == {"cursor", "page", "offset", "none"}
Facts == {"total", "pages", "hasMore"}

\* What the constants must be; the module that instantiates this one assumes it.
\* A provider that is asked for rows gives one at least.
BitoReadAssumption ==
  /\ {Limit, MaxPages, MaxRecords} \subseteq Nat \ {0} /\ MaxRows \in Nat
  /\ \A c \in Cases :
       /\ c.shape \in [pager : Pagers, cap : Nat \ {0}, limited : BOOLEAN,
                        tells : SUBSET Facts, deaf : BOOLEAN, search : BOOLEAN]
       /\ c.ask.words \in {"none", "model", "family"}
       /\ c.ask.meant \subseteq 1..c.rows /\ c.rows \in 0..MaxRows

VARIABLES
  shape,   \* the provider: pager, cap, limited, tells, deaf, search
  ask,     \* the question: words, and the rows that are meant, found by the
           \* provider's own search, in stock, and without a readable name
  rows,    \* the length of the provider's list
  pass,    \* which reading this is: "first", "full" or "again"
  read,    \* the reading that is under way
  answer   \* what is answered

vars == <<shape, ask, rows, pass, read, answer>>

\* A reading: where the next page begins, what came with the last page, all
\* rows so far and the pages fetched; `since` is what was listed at first.
Fresh(since) == [pc |-> "ask", from |-> 0, page |-> {}, merged |-> {},
                 fetched |-> 0, said |-> [more |-> FALSE, total |-> 0],
                 first |-> 0, since |-> since]
NoAnswer == [status |-> "none", items |-> {}, raw |-> {}]

-----------------------------------------------------------------------------
(* The provider                                                            *)

Searching == pass = "first" /\ ask.words # "none" /\ shape.search

\* The rows of the list that is read, in order.
Listed == IF Searching THEN ask.found \cap 1..rows ELSE 1..rows
Before(r) == Cardinality({q \in Listed : q < r})

\* It never gives more than it wants to at a time.
PageLength == IF shape.limited THEN Min({Limit, shape.cap}) ELSE shape.cap

\* One that is deaf to the paging parameters always gives the first page.
Page(from) ==
  LET start == IF shape.deaf THEN 0 ELSE from IN
  {r \in Listed : Before(r) >= start /\ Before(r) < start + PageLength}
Beyond(from) ==
  LET start == IF shape.deaf THEN 0 ELSE from IN
  Cardinality(Listed) > start + PageLength

-----------------------------------------------------------------------------
(* Paging                                                                  *)

Total(said) == IF "total" \in shape.tells THEN said.total ELSE 0
PageSize(first) == IF shape.limited THEN Limit ELSE first

\* detectPager: is there another page, of a list whose last page was `page`
\* and came with `said`, after `merged` rows?
MorePages(page, said, merged, from, first) ==
  CASE shape.pager = "cursor" -> said.more
    [] shape.pager \in {"page", "offset"} ->
         /\ "hasMore" \in shape.tells => said.more
         /\ CASE shape.pager = "page" /\ "pages" \in shape.tells ->
                   from + PageLength < said.total
              [] "total" \in shape.tells
                   /\ ~(shape.pager = "page" /\ "pages" \in shape.tells) ->
                   Cardinality(merged) < said.total
              [] OTHER -> Cardinality(page) >= Max({1, PageSize(first)})
    [] shape.pager = "none" -> FALSE

\* Mutant of HasNext: a page that is not full is the last one, whatever the
\* total.
UntilShort(page, said, merged, from, first) ==
  MorePages(page, said, merged, from, first)
    /\ Cardinality(page) >= PageSize(first)

HasNext(page, said, merged, from, first) ==
  MorePages(page, said, merged, from, first)

\* What makes the rest of the list known to be missing.
Indicated(said) == Total(said) > 0
                     \/ ("hasMore" \in shape.tells /\ said.more)
                     \/ (shape.pager = "cursor" /\ said.more)

\* The first page.  No rows although there are some, or more of them and no
\* way to ask for them, is an error, and so are too many at once.
FirstRefused(page, said) ==
  \/ Cardinality(page) > MaxRecords
  \/ page = {} /\ Indicated(said)
  \/ /\ shape.pager = "none"
     /\ Total(said) > Cardinality(page)
          \/ ("hasMore" \in shape.tells /\ said.more)

\* A later page: an empty one before the end, or one with nothing new.
PageRefused(page, said) ==
  IF page = {}
  THEN ("total" \in shape.tells /\ Cardinality(read.merged) < read.said.total)
         \/ ("hasMore" \in shape.tells /\ said.more)
         \/ (shape.pager = "cursor" /\ said.more)
  ELSE \/ page \subseteq read.merged
       \/ Cardinality(read.merged \cup page) > MaxRecords

\* The list ended, or a bound was met, before all of it was read.
Unfinished(r) ==
  \/ "total" \in shape.tells /\ Cardinality(r.merged) < r.said.total
  \/ r.page # {} /\ HasNext(r.page, r.said, r.merged, r.from, r.first)

PagesLeft(r) == r.fetched < MaxPages

\* After a page: the loop goes on, or ends and its result is checked.
Settled(r) ==
  IF /\ r.page # {} /\ PagesLeft(r)
     /\ Cardinality(r.merged) < MaxRecords
     /\ HasNext(r.page, r.said, r.merged, r.from, r.first)
  THEN [r EXCEPT !.pc = "next"]
  ELSE [r EXCEPT !.pc = IF Unfinished(r) THEN "failed" ELSE "read"]

Said(from) == [more |-> Beyond(from), total |-> Cardinality(Listed)]

FirstPage ==
  /\ read.pc = "ask"
  /\ LET page == Page(0)
         said == Said(0)
         r == [read EXCEPT !.page = page, !.said = said, !.merged = page,
                           !.fetched = 1, !.first = Cardinality(page)] IN
     read' = IF FirstRefused(page, said) THEN [r EXCEPT !.pc = "failed"]
             ELSE IF page = {} \/ shape.pager = "none"
             THEN [r EXCEPT !.pc = "read"]
             ELSE Settled(r)
  /\ UNCHANGED <<shape, ask, rows, pass, answer>>

\* Where the next page begins: by cursor and by page number the provider
\* knows; by offset it is what was given so far.
NextPage ==
  /\ read.pc = "next"
  /\ LET from == IF shape.pager = "offset"
                 THEN read.from + Cardinality(read.page)
                 ELSE read.from + PageLength
         page == Page(from)
         said == Said(from)
         r == [read EXCEPT !.fetched = @ + 1] IN
     read' = IF PageRefused(page, said) THEN [r EXCEPT !.pc = "failed"]
             ELSE IF page = {} THEN Settled([r EXCEPT !.page = {}])
             ELSE Settled([r EXCEPT !.from = from, !.page = page,
                             !.said = said, !.merged = @ \cup page])
  /\ UNCHANGED <<shape, ask, rows, pass, answer>>

\* A call that fails ends the reading.
CallFails ==
  /\ read.pc \in {"ask", "next"}
  /\ read' = [read EXCEPT !.pc = "failed"]
  /\ UNCHANGED <<shape, ask, rows, pass, answer>>

\* A row is added at the end of the provider's list.
Grows ==
  /\ read.pc \in {"ask", "next"} /\ rows < MaxRows
  /\ rows' = rows + 1
  /\ UNCHANGED <<shape, ask, pass, read, answer>>

-----------------------------------------------------------------------------
(* The stock: getFullInventorySnapshot                                     *)

Named == read.merged \ ask.opaque                \* normalizeSingleInventory
Ranked == IF ask.words = "none" THEN Named       \* rankInventoryMatches
          ELSE Named \cap ask.meant
InStock == Ranked \cap ask.stocked

\* After the first reading: nothing found, or words for a whole family, which
\* the provider's search may have answered with one of its rows.
Broad == /\ pass = "first" /\ ask.words # "none"
         /\ read.merged = {} \/ ask.words = "family"

ReadFull == Broad

\* Rows were found, but none that is meant and in stock.
Doubtful == /\ pass = "first" /\ Searching /\ ~ReadFull
            /\ InStock = {} /\ read.merged # {}

ReadAgain == Doubtful

ReadMore ==
  /\ read.pc = "read" /\ answer = NoAnswer /\ (ReadFull \/ ReadAgain)
  /\ pass' = IF ReadFull THEN "full" ELSE "again"
  /\ read' = Fresh(1..rows)
  /\ UNCHANGED <<shape, ask, rows, answer>>

\* Sold out is not unknown; rows without a readable name are shown as they
\* are.
Answer ==
  /\ read.pc = "read" /\ answer = NoAnswer /\ ~ReadFull /\ ~ReadAgain
  /\ answer' = [status |-> IF ask.words = "none" THEN "listed"
                           ELSE IF Ranked = {} THEN "NOT_FOUND"
                           ELSE IF InStock = {} THEN "OUT_OF_STOCK"
                           ELSE "IN_STOCK",
                items |-> InStock, raw |-> read.merged \cap ask.opaque]
  /\ UNCHANGED <<shape, ask, rows, pass, read>>

-----------------------------------------------------------------------------
Init ==
  /\ \E c \in Cases : shape = c.shape /\ ask = c.ask /\ rows = c.rows
  /\ pass = "first"
  /\ read = Fresh(Listed)
  /\ answer = NoAnswer

Over == read.pc = "failed" \/ answer # NoAnswer
Next == \/ FirstPage \/ NextPage \/ CallFails \/ Grows \/ ReadMore \/ Answer
        \/ Over /\ UNCHANGED vars

Spec == Init /\ [][Next]_vars

-----------------------------------------------------------------------------
(* Properties                                                              *)

\* Every variable has its type, and no bound of the loop is passed
\* (MAX_AUTO_PAGES, MAX_AUTO_RECORDS).
TypeOK ==
  /\ shape \in [pager : Pagers, cap : Nat, limited : BOOLEAN,
                tells : SUBSET Facts, deaf : BOOLEAN, search : BOOLEAN]
  /\ ask.words \in {"none", "model", "family"}
  /\ rows \in 0..MaxRows /\ pass \in {"first", "full", "again"}
  /\ read.pc \in {"ask", "next", "failed", "read"}
  /\ read.fetched <= MaxPages
  /\ read.pc # "failed" => Cardinality(read.merged) <= MaxRecords
  /\ answer.status \in {"none", "listed", "NOT_FOUND", "OUT_OF_STOCK",
                        "IN_STOCK"}

\* The provider tells the code enough to see that a list goes on: its length,
\* or a cursor, or full pages of a size the code knows, or a list of one page.
Tells ==
  CASE shape.pager = "cursor" -> TRUE
    [] shape.pager = "none" -> "total" \in shape.tells
                                 \/ "hasMore" \in shape.tells
                                 \/ PageLength >= MaxRows
    [] OTHER -> \/ "total" \in shape.tells
                \/ "pages" \in shape.tells /\ shape.pager = "page"
                \/ ~shape.limited
                \/ shape.cap >= Limit

\* With a provider that tells as much, a reading that did not fail has every
\* row that was listed when it began, however many pages, rows that are added
\* meanwhile and parameters that are ignored (BITO_PAGINATION_FAILED).
CompleteOrFails == read.pc = "read" /\ Tells => read.since \subseteq read.merged

\* A customer who is told that there is none, or none left, is told so only
\* if no row of what is meant is in stock, whatever the provider's own search
\* made of the words; a row without a readable name is shown instead.
AbsentMeansAbsent ==
  answer.status \in {"NOT_FOUND", "OUT_OF_STOCK"} /\ Tells
    => ask.meant \cap ask.stocked \subseteq answer.raw

\* Words for a family of products show every member that is in stock, not
\* those the provider's search ranked first.
FamilyShown ==
  answer # NoAnswer /\ ask.words = "family" /\ Tells
    => ask.meant \cap ask.stocked \subseteq answer.items \cup answer.raw
=============================================================================
