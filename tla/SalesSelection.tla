--------------------------- MODULE SalesSelection ---------------------------
(***************************************************************************)
(* What a sales chat is about: the selection of one customer's thread, as  *)
(* turn after turn understands the message (ai-agent.service.ts), applies  *)
(* it to the saved state (universal-sales-context.ts), reads the Bito      *)
(* catalog when the answer needs it (bito-tool-bridge.service.ts) and      *)
(* reconciles the state with what was read.                                *)
(*                                                                         *)
(* The turns of one thread come one at a time (SalesTurn, CustomerThread). *)
(* The semantic model may miss any part of a message, misread its intent   *)
(* or fail; the deterministic reading of the text stands behind it.        *)
(*                                                                         *)
(* A product stands for itself and its family; a model for model and       *)
(* variant; a color for color, storage and size, which are handled alike.  *)
(* Left out: amounts, totals and quotes, which follow the price, and the   *)
(* contact details.                                                        *)
(***************************************************************************)
EXTENDS Naturals, FiniteSets

CONSTANTS
  Rows,        \* the variants Bito lists: [product, model, color]
  PriceOf,     \* what each costs
  Messages,    \* what the customer may write
  FirstStock,  \* the variants in stock at first
  MaxChanges   \* bound: how often the stock changes

None == "none"
NoPrice == 0
Keys == {"product", "model", "color"}
Attributes == {"model", "color"}
Words == {"", "yes", "no", "more", "nth", "count", "cheaper", "terms", "chat"}

ASSUME SalesAssumption ==
  /\ Rows \subseteq [Keys -> STRING] /\ PriceOf \in [Rows -> Nat \ {NoPrice}]
  /\ \A r \in Rows : r.product # None   \* what is listed has a name
  /\ FirstStock \subseteq Rows /\ MaxChanges \in Nat

VARIABLES
  stock,    \* the variants in stock
  changes,  \* how often it changed
  sales,    \* the saved state of the thread
  turn,     \* what the turn that is running has understood
  history   \* history: what was looked up when the price was set, and
            \* whether an offer was taken in a turn that named another product

vars == <<stock, changes, sales, turn, history>>

NoFact == [value |-> None, status |-> None]
Nothing == [k \in Keys |-> None]
NoOffer == Nothing
Resting == [pc |-> "idle", scope |-> "NONE", found |-> None]

Init ==
  /\ stock = FirstStock /\ changes = 0
  /\ sales = [product |-> None, model |-> None, color |-> None,
              fact |-> [k \in Keys |-> NoFact], price |-> NoPrice,
              offers |-> {}]
  /\ turn = Resting
  /\ history = [of |-> Nothing, scope |-> "NONE", crossed |-> FALSE]

-----------------------------------------------------------------------------
(* The selection and the facts about it                                    *)

Selection(s) == [k \in Keys |-> s[k]]
Named(x) == {k \in Keys : x[k] # None}
Fact(v, st) == [value |-> v, status |-> st]
Marked(s, ks, st) ==
  [s EXCEPT !.fact = [k \in Keys |-> IF k \in ks \cap Named(s)
                                     THEN Fact(s[k], st) ELSE @[k]]]

\* The most specific attribute that is set.
Specific(s) ==
  IF s.color # None THEN "color" ELSE "model"

\* The offers stay: whoever calls this drops or keeps them.
Cleared(s) ==
  [s EXCEPT !.product = None, !.model = None, !.color = None,
            !.price = NoPrice, !.fact = [k \in Keys |-> NoFact]]

Unavailable(s) == {k \in Keys : s.fact[k].status = "UNAVAILABLE"}

\* Drops what Bito did not have.
WithoutUnavailable(s) ==
  LET gone == Unavailable(s) \cap Attributes
  IN [s EXCEPT !.model = IF "model" \in gone THEN None ELSE @,
               !.color = IF "color" \in gone THEN None ELSE @,
               !.fact = [k \in Keys |-> IF k \in gone THEN NoFact ELSE @[k]],
               !.price = NoPrice]

\* A new value is a proposal until Bito has seen it.
Proposed(s, k, v) ==
  IF v = None THEN s
  ELSE [s EXCEPT ![k] = v,
                 !.fact[k] = IF s[k] = v /\ @ # NoFact THEN @
                             ELSE Fact(v, "PROPOSED")]

\* What the offer does not name stays without a fact.
Taken(s, o) ==
  [Cleared(s) EXCEPT
     !.product = o.product, !.model = o.model, !.color = o.color,
     !.fact = [k \in Keys |-> IF o[k] = None THEN NoFact
                              ELSE Fact(o[k], "VERIFIED")],
     !.price = PriceOf[o]]

-----------------------------------------------------------------------------
(* Understanding a message                                                 *)

CatalogIntents == {"ASK", "QUANTITY", "OPTIONS", "ADVICE"}

IntentOf(m) ==
  CASE m.word = "chat" -> "NON_SALES"
    [] m.word = "cheaper" -> "ADVICE"
    [] m.word = "terms" -> "TERMS"
    [] m.word \in Words \ {"chat", "cheaper", "terms"} ->
         IF m.word = "count" THEN "QUANTITY"
         ELSE IF Named(m) # {} THEN "ASK" ELSE "GENERAL"

\* The deterministic reading, against the state before.
Fallback(s, m) ==
  LET changed == m.product \notin {None, s.product}
      accepting == s.offers # {} /\ m.word \in {"yes", "more"}
      options == m.word = "more" /\ (s.product # None \/ m.product # None)
      needs == /\ IntentOf(m) \notin {"NON_SALES", "TERMS"}
               /\ options \/ IntentOf(m) \in CatalogIntents
  IN [intent |-> IF m.word = "chat" THEN "NON_SALES"
                 ELSE IF accepting THEN "ACKNOWLEDGEMENT"
                 ELSE IF options THEN "OPTIONS" ELSE IntentOf(m),
      switch |-> changed /\ s.product # None,
      scope |-> IF ~needs THEN "NONE"
                ELSE IF options THEN "FAMILY" ELSE "SELECTION",
      clear |-> accepting,
      product |-> IF changed THEN m.product ELSE None,
      model |-> IF m.model = s.model THEN None ELSE m.model,
      color |-> IF m.color = s.color THEN None ELSE m.color]

\* What the semantic model may return, normalized: it reads the customer's
\* words or misses them, and a switch needs a product that is named.
Semantic(m) ==
  {u \in [intent : {IntentOf(m), "GENERAL", "NON_SALES"}
                     \cup (IF m.word = "yes" THEN {"ACKNOWLEDGEMENT"} ELSE {})
                     \cup (IF m.word = "more" THEN {"OPTIONS"} ELSE {}),
          switch : BOOLEAN,
          scope : {"NONE", "FAMILY", "PRODUCT", "SELECTION"},
          clear : BOOLEAN,
          product : {None, m.product}, model : {None, m.model},
          color : {None, m.color}] :
     /\ u.switch => u.product # None
     /\ u.intent \in CatalogIntents => u.scope # "NONE"
     /\ u.intent \notin CatalogIntents \cup {"GENERAL"} => u.scope = "NONE"
     /\ u.clear => m.word \in {"yes", "more"}}

\* The model is told the state and the conversation so far, and may not call
\* the function it has to, or not with JSON: understandExternalSalesTurn throws.
NoReading == [intent |-> "MISSING"]
Reading(m) == {NoReading} \cup Semantic(m)

\* The structure of the text guards the semantic reading.
Guarded(s, m, u) ==
  LET broad == /\ u.intent = "ASK" /\ m.product # None /\ m.model = None
               /\ u.model = None /\ u.color = None
      v == IF broad THEN [u EXCEPT !.scope = "FAMILY"] ELSE u
      f == Fallback(s, m)
      structured == \/ f.scope # "NONE" \/ f.model # None \/ f.color # None
                    \/ f.intent \in {"ACKNOWLEDGEMENT", "TERMS"}
  IN IF Named(s) = {} \/ ~(structured \/ m.word = "more") THEN v
     ELSE IF /\ v.intent \in {"NON_SALES", "GENERAL"}
             /\ structured /\ f.intent # "NON_SALES" THEN f
     ELSE [v EXCEPT !.scope = IF @ = "NONE" THEN f.scope ELSE @,
                    !.color = IF @ = None THEN f.color ELSE @]

\* Small talk leaves the selection alone.
SmallTalk ==
  [intent |-> "GENERAL", switch |-> FALSE, scope |-> "NONE", clear |-> FALSE,
   product |-> None, model |-> None, color |-> None]

\* In an active thread the seller does not fall silent.
Answerable(s, m, u) ==
  LET f == Fallback(s, m)
  IN IF u.intent # "NON_SALES" THEN u
     ELSE IF f.intent # "NON_SALES" THEN f ELSE SmallTalk

Understood(s, m) ==
  {IF u = NoReading THEN Fallback(s, m) ELSE Guarded(s, m, u) :
     u \in Reading(m)}

-----------------------------------------------------------------------------
(* Applying it                                                             *)

\* The offers the customer may have accepted, none for a refusal.  The
\* closest one need share no more than a word with what was asked for.
Requested(u, o) == {k \in Named(u) : u[k] = o[k]}
Accepts(s, u, m) ==
  LET exact == {o \in s.offers : Requested(u, o) = Named(u)}
      closest == {o \in s.offers :
                    /\ Requested(u, o) # {}
                    /\ \A p \in s.offers \ {o} : Cardinality(Requested(u, o))
                                               > Cardinality(Requested(u, p))}
      cheapest == {o \in s.offers : \A p \in s.offers : PriceOf[o] <= PriceOf[p]}
      offers ==
        IF u.switch \/ m.word = "no" THEN {}
        ELSE IF m.word = "nth" THEN s.offers
        ELSE IF Named(u) # {} /\ exact # {} THEN exact
        ELSE IF Named(u) # {} /\ closest # {} THEN closest
        ELSE IF m.word = "cheaper" THEN cheapest
        ELSE IF Named(u) # {} \/ Cardinality(s.offers) # 1 THEN {}
        ELSE IF \/ u.intent = "QUANTITY"
                \/ u.intent = "ACKNOWLEDGEMENT" /\ m.word = "yes"
        THEN s.offers ELSE {}
  IN IF offers = {} THEN {NoOffer} ELSE offers

\* A switch starts afresh; what was rejected goes before an offer is taken.
Turned(s, u, accepted) ==
  IF u.switch THEN [Cleared(s) EXCEPT !.offers = {}]
  ELSE LET c == IF u.clear \/ accepted # NoOffer
                THEN WithoutUnavailable(s) ELSE s
       IN IF accepted = NoOffer THEN c ELSE Taken(c, accepted)

\* Offers of something else than what is asked for now are dropped.
OffersKept(s, u, accepted) ==
  IF /\ Named(u) # {} /\ accepted = NoOffer
     /\ \A o \in s.offers : Requested(u, o) # Named(u)
  THEN [s EXCEPT !.offers = {}] ELSE s

\* A product other than the one selected takes the whole selection with it.
ProductSet(s, u, m) ==
  IF u.product # None
  THEN Proposed(IF s.product \notin {None, u.product} /\ ~u.switch
                THEN Cleared(s) ELSE s, "product", u.product)
  ELSE IF s.product = None THEN Proposed(s, "product", m.product) ELSE s

\* What the text says literally, where the model missed it.
Literal(s, before, u, m, k) ==
  /\ u[k] = None /\ m[k] \notin {None, before[k]}
  /\ k = "model" => s.product # None
AttributeSet(s, before, u, m, accepted, k) ==
  IF u[k] # None THEN Proposed(s, k, u[k])
  ELSE IF accepted = NoOffer /\ Literal(s, before, u, m, k)
  THEN [s EXCEPT ![k] = m[k], !.fact[k] = Fact(m[k], "PROPOSED")] ELSE s

\* A price is of the selection it was read for.
AlwaysKept(s, t) == t
PriceKept(s, t) ==
  IF s.model = t.model /\ s.color = t.color THEN t
  ELSE [t EXCEPT !.price = NoPrice]

Applied(s, u, m, accepted) ==
  LET a == OffersKept(Turned(s, u, accepted), u, accepted)
      b == ProductSet(a, u, m)
      c == AttributeSet(b, s, u, m, accepted, "model")
      d == AttributeSet(c, s, u, m, accepted, "color")
  IN PriceKept(b, d)

\* A lookup stuck at a rejected variant is widened to the family.
Scope(s, u) ==
  IF /\ u.scope # "NONE" /\ Unavailable(s) \cap Attributes # {}
     /\ u.model = None /\ u.color = None
     /\ u.intent \in {"QUANTITY", "OPTIONS", "ACKNOWLEDGEMENT"}
  THEN "FAMILY" ELSE u.scope

\* A customer's message, up to the catalog read if there is one.
Say(m) ==
  /\ turn.pc = "idle"
  /\ \E u \in Understood(sales, m) : LET v == Answerable(sales, m, u) IN
     \E accepted \in Accepts(sales, v, m) :
       LET s == Applied(sales, v, m, accepted) IN
       /\ sales' = s
       /\ turn' = IF Scope(s, v) = "NONE" \/ s.product = None THEN Resting
                  ELSE [pc |-> "lookup", scope |-> Scope(s, v),
                        found |-> None]
       /\ history' =
            [of |-> IF s.price = NoPrice THEN Nothing
                    ELSE IF accepted # NoOffer THEN accepted ELSE history.of,
             scope |-> IF accepted # NoOffer THEN "SELECTION"
                       ELSE history.scope,
             crossed |-> /\ s.offers # {}
                         /\ \/ history.crossed
                            \/ /\ accepted # NoOffer
                               /\ v.product \notin {None, accepted.product}]
  /\ UNCHANGED <<stock, changes>>

-----------------------------------------------------------------------------
(* The catalog                                                             *)

\* A family or product query names no attribute.
Query(s, scope) ==
  [k \in Keys |-> IF k = "product" \/ scope = "SELECTION" THEN s[k] ELSE None]
Matches(q) == {r \in Rows : \A k \in Named(q) : r[k] = q[k]}
Alternatives(q) == {r \in Rows \ Matches(q) : r.product = q.product} \cap stock

VerifiesAll(scope) == Keys
VerifiedKeys(scope) ==
  CASE scope = "FAMILY" -> {"product"}
    [] scope = "PRODUCT" -> {"product", "model"}
    [] scope = "SELECTION" -> Keys

Offering(s, rows) == IF rows = {} THEN s ELSE [s EXCEPT !.offers = rows]

\* One price, of one row or common to all, is the price; of several, none.
Priced(s, items) ==
  LET prices == {PriceOf[r] : r \in items}
  IN [s EXCEPT !.price = IF Cardinality(prices) = 1
                         THEN CHOOSE p \in prices : TRUE ELSE NoPrice]

InStock(s, scope, items) ==
  LET v == Marked(s, VerifiedKeys(scope), "VERIFIED")
  IN IF scope = "FAMILY"
     THEN IF Unavailable(v) # {} THEN Offering(v, items) ELSE v
     ELSE Priced(v, items)

\* The most specific attribute is what there is none of.
Rejected(s, found) ==
  IF s[Specific(s)] # None
  THEN [Marked(Marked(s, IF found = "OUT_OF_STOCK" THEN {"product"} ELSE {},
                      "VERIFIED"),
               {Specific(s)}, "UNAVAILABLE") EXCEPT !.price = NoPrice]
  ELSE [Marked(s, {"product"}, "UNAVAILABLE") EXCEPT
          !.price = IF found = "OUT_OF_STOCK" THEN @ ELSE NoPrice]

\* The reconciled state is assigned over the old one, key by key: a price
\* that was deleted from the new one stays in the old.
Assigned(s, t) == [t EXCEPT !.price = IF @ = NoPrice THEN s.price ELSE @]

\* Bito may not have what the owner has taught the agent: then it does not
\* decide.
LookUp ==
  LET q == Query(sales, turn.scope)
      items == Matches(q) \cap stock
      found == IF Matches(q) = {} THEN "NOT_FOUND"
               ELSE IF items = {} THEN "OUT_OF_STOCK" ELSE "IN_STOCK"
      s == IF found = "IN_STOCK" THEN InStock(sales, turn.scope, items)
           ELSE Offering(Rejected(sales, found), Alternatives(q))
  IN /\ turn.pc = "lookup"
     /\ \/ /\ sales' = Assigned(sales, s)
           /\ turn' = [Resting EXCEPT !.found =
                IF found # "IN_STOCK" THEN found
                ELSE IF turn.scope = "FAMILY" THEN None
                ELSE IF Cardinality({PriceOf[r] : r \in items}) = 1
                THEN "ONE_PRICE" ELSE "SEVERAL_PRICES"]
           /\ history' = IF turn'.found = "ONE_PRICE"
                         THEN [history EXCEPT !.of = q, !.scope = turn.scope]
                         ELSE history
        \/ /\ found = "NOT_FOUND"   \* taught by the owner
           /\ turn' = Resting /\ UNCHANGED <<sales, history>>
     /\ UNCHANGED <<stock, changes>>

\* Bito fails: the state stays, the answer says so.
LookUpFails ==
  /\ turn.pc = "lookup"
  /\ turn' = Resting
  /\ UNCHANGED <<stock, changes, sales, history>>

\* Goods are sold and come in.
StockChanges(r) ==
  /\ changes < MaxChanges
  /\ stock' = IF r \in stock THEN stock \ {r} ELSE stock \cup {r}
  /\ changes' = changes + 1
  /\ UNCHANGED <<sales, turn, history>>

Next ==
  \/ \E m \in Messages : Say(m)
  \/ LookUp
  \/ LookUpFails
  \/ \E r \in Rows : StockChanges(r)

Spec == Init /\ [][Next]_vars

-----------------------------------------------------------------------------
(* What the seller is told to do next                                      *)

Selected(s) ==
  IF s.fact.color # NoFact THEN s.fact.color
  ELSE IF s.fact.model # NoFact THEN s.fact.model ELSE s.fact.product

\* PROCEED is to take the order, as far as it is not complete.
SalesNextAction(s) ==
  CASE Selected(s).status = "UNAVAILABLE" -> "OFFER_ALTERNATIVE"
    [] Selected(s).status = "PROPOSED" ->
         IF s.product = None THEN "IDENTIFY_PRODUCT" ELSE "VERIFY_PRODUCT"
    [] Selected(s).status = None -> "IDENTIFY_PRODUCT"
    [] Selected(s).status = "VERIFIED" -> "PROCEED"

-----------------------------------------------------------------------------
(* Properties                                                              *)

\* Every variable has its type.
TypeOK ==
  /\ stock \subseteq Rows /\ changes \in 0..MaxChanges
  /\ sales.offers \subseteq Rows
  /\ sales.price \in {NoPrice} \cup {PriceOf[r] : r \in Rows}
  /\ turn.pc \in {"idle", "lookup"}
  \* A fact is of the value that is selected.
  /\ \A k \in Keys : sales.fact[k].value = sales[k]

\* A price is the price of what is selected now: through every turn that
\* changes, drops or replaces a part of the selection, a price that was read
\* for another one does not survive.  (A read of scope PRODUCT asked for the
\* product alone, and its price is of the product.)
PriceBelongs ==
  (turn.pc = "idle" /\ sales.price # NoPrice) =>
     /\ history.of.product = sales.product
     /\ history.scope = "SELECTION" => history.of = Selection(sales)

\* What is offered is of the product the thread is about, whatever topics it
\* left behind: a late "the first one" never brings an old product back.
\* (Not so after a turn that named another product, passed for no switch and
\* took an offer that shares a word with it.)
OffersFollowTopic ==
  history.crossed \/ \A o \in sales.offers : o.product = sales.product

\* The seller is not told to go on with an order of anything that Bito has
\* said is not there, in whichever order product, model and color came up.
NeverSellsUnavailable ==
  (turn.pc = "idle" /\ SalesNextAction(sales) = "PROCEED") =>
     Unavailable(sales) = {}

\* What was unavailable is available again only when a read that asked for
\* it says so or the customer takes an offer with it: never merely because
\* a sibling is there.
Reverified(k) ==
  /\ sales.fact[k].status = "UNAVAILABLE"
  /\ sales'.fact[k] = Fact(sales[k], "VERIFIED")
SiblingsProveNothing ==
  [][\A k \in Attributes : Reverified(k) =>
       \/ turn.scope = "SELECTION"
       \/ turn.scope = "PRODUCT" /\ k = "model"
       \/ turn.pc = "idle" /\ \E o \in sales.offers : o[k] = sales[k]]_vars

\* universal-sales-context.ts: a unit price is safe only for one row or one
\* common price; when several are found there is none.
PriceOnlyWhenSettled ==
  turn.found = "SEVERAL_PRICES" => sales.price = NoPrice
=============================================================================
