-------------------------- MODULE SalesDataProofs --------------------------
(***************************************************************************)
(* Proofs about what a customer is told: the selection of a sales chat,    *)
(* the rows of the catalogue an answer is composed of, and the chats the   *)
(* agent stays out of.                                                     *)
(***************************************************************************)
EXTENDS MCSalesData, FiniteSetTheorems, WellFoundedInduction, TLAPS

-----------------------------------------------------------------------------
(* The saved state of a thread, between any two of its operations          *)

Fields == {"product", "model", "color", "fact", "price", "offers"}
Statuses == {"PROPOSED", "VERIFIED", "UNAVAILABLE"}
Prices == {NoPrice} \cup {PriceOf[r] : r \in Rows}

\* Whatever is selected has a fact about it, and nothing else has.
Told(s, k) ==
  IF s[k] = None THEN s.fact[k] = NoFact
  ELSE \E st \in Statuses : s.fact[k] = Fact(s[k], st)

\* What Bito confirmed stands on nothing it refused.
Covered(s) ==
  /\ s.fact.color.status = "VERIFIED" =>
       /\ s.fact.model.status # "UNAVAILABLE"
       /\ s.fact.product.status # "UNAVAILABLE"
  /\ s.fact.model.status = "VERIFIED" => s.fact.product.status # "UNAVAILABLE"

Shaped(s) == DOMAIN s = Fields /\ DOMAIN s.fact = Keys

Coherent(s) ==
  /\ Shaped(s)
  /\ Told(s, "product") /\ Told(s, "model") /\ Told(s, "color")
  /\ Covered(s)
  /\ s.price \in Prices /\ s.offers \subseteq Rows
  /\ s.price # NoPrice => s.product # None

\* Nothing that was not confirmed before is confirmed now.
NoneConfirmed(s, t) ==
  /\ t.fact.model = s.fact.model \/ t.fact.model.status # "VERIFIED"
  /\ t.fact.color = s.fact.color \/ t.fact.color.status # "VERIFIED"

SameSelection(s, t) ==
  t.product = s.product /\ t.model = s.model /\ t.color = s.color

-----------------------------------------------------------------------------
(* One lemma per operation on it                                           *)

LEMMA FactIs ==
  ASSUME NEW v, NEW st
  PROVE  Fact(v, st).value = v /\ Fact(v, st).status = st
BY DEF Fact

LEMMA NoFactIs == NoFact.value = None /\ NoFact.status = None
BY DEF NoFact

LEMMA ToldIs ==
  ASSUME NEW s, NEW k, Told(s, k)
  PROVE  /\ s.fact[k].value = s[k]
         /\ \/ s.fact[k] = NoFact /\ s.fact[k].status = None
            \/ s.fact[k] # NoFact /\ s.fact[k].status \in Statuses
<1>1. CASE s[k] = None
  BY <1>1, NoFactIs DEF Told
<1>2. CASE s[k] # None
  <2>1. PICK st \in Statuses : s.fact[k] = Fact(s[k], st)
    BY <1>2 DEF Told
  <2>2. s.fact[k].value = s[k] /\ s.fact[k].status = st
    BY <2>1, FactIs
  <2> QED  BY <1>2, <2>2, NoFactIs
<1> QED  BY <1>1, <1>2

LEMMA ClearedIs ==
  ASSUME NEW s, Coherent(s)
  PROVE  LET t == Cleared(s) IN
         /\ Coherent(t) /\ NoneConfirmed(s, t)
         /\ t.offers = s.offers /\ t.price = NoPrice
         /\ t.product = None /\ t.model = None /\ t.color = None
<1> DEFINE t == Cleared(s)
<1>1. Shaped(t)
  BY DEF Cleared, Coherent, Shaped, Fields, Keys
<1>2. t.product = None /\ t.model = None /\ t.color = None /\ t.price = NoPrice
  BY DEF Cleared, Coherent, Shaped, Fields, Keys
<1>3. t.offers = s.offers
  BY DEF Cleared, Coherent, Shaped, Fields, Keys
<1>4. t.fact.product = NoFact /\ t.fact.model = NoFact /\ t.fact.color = NoFact
  BY DEF Cleared, Coherent, Shaped, Fields, Keys
<1> HIDE DEF t
<1>5. Told(t, "product") /\ Told(t, "model") /\ Told(t, "color")
  BY <1>2, <1>4 DEF Told
<1>6. Covered(t) /\ NoneConfirmed(s, t)
  BY <1>4, NoFactIs DEF Covered, NoneConfirmed, None
<1>7. Coherent(t)
  BY <1>1, <1>2, <1>3, <1>5, <1>6 DEF Coherent, Prices
<1> QED  BY <1>2, <1>3, <1>6, <1>7 DEF t

LEMMA OffersDroppedIs ==
  ASSUME NEW s, Coherent(s), NEW os \in SUBSET Rows
  PROVE  LET t == [s EXCEPT !.offers = os] IN
         /\ Coherent(t) /\ t.fact = s.fact
         /\ t.offers = os /\ t.price = s.price /\ SameSelection(s, t)
<1> DEFINE t == [s EXCEPT !.offers = os]
<1>1. Shaped(t) /\ t.fact = s.fact /\ t.offers = os /\ t.price = s.price
  BY DEF Coherent, Shaped, Fields, Keys
<1>2. SameSelection(s, t)
  BY DEF Coherent, Shaped, Fields, Keys, SameSelection
<1> HIDE DEF t
<1>3. Coherent(t)
  BY <1>1, <1>2 DEF Coherent, SameSelection, Told, Covered
<1> QED  BY <1>1, <1>2, <1>3 DEF t

LEMMA PriceDroppedIs ==
  ASSUME NEW s, Coherent(s), NEW p \in Prices, p # NoPrice => s.product # None
  PROVE  LET t == [s EXCEPT !.price = p] IN
         /\ Coherent(t) /\ t.fact = s.fact
         /\ t.offers = s.offers /\ t.price = p /\ SameSelection(s, t)
<1> DEFINE t == [s EXCEPT !.price = p]
<1>1. Shaped(t) /\ t.fact = s.fact /\ t.offers = s.offers /\ t.price = p
  BY DEF Coherent, Shaped, Fields, Keys
<1>2. SameSelection(s, t)
  BY DEF Coherent, Shaped, Fields, Keys, SameSelection
<1> HIDE DEF t
<1>3. Coherent(t)
  BY <1>1, <1>2 DEF Coherent, SameSelection, Told, Covered
<1> QED  BY <1>1, <1>2, <1>3 DEF t

LEMMA WithoutUnavailableIs ==
  ASSUME NEW s, Coherent(s)
  PROVE  LET t == WithoutUnavailable(s) IN
         /\ Coherent(t) /\ NoneConfirmed(s, t)
         /\ t.offers = s.offers /\ t.price = NoPrice /\ t.product = s.product
<1> DEFINE t == WithoutUnavailable(s)
           gone(k) == s.fact[k].status = "UNAVAILABLE"
<1>1. Shaped(t) /\ t.offers = s.offers /\ t.price = NoPrice
      /\ t.product = s.product
  BY DEF WithoutUnavailable, Coherent, Shaped, Fields, Keys
<1>2. t.model = IF gone("model") THEN None ELSE s.model
  BY DEF WithoutUnavailable, Unavailable, Coherent, Shaped, Fields, Keys,
         Attributes
<1>3. t.color = IF gone("color") THEN None ELSE s.color
  BY DEF WithoutUnavailable, Unavailable, Coherent, Shaped, Fields, Keys,
         Attributes
<1>4. t.fact.product = s.fact.product
  BY DEF WithoutUnavailable, Unavailable, Coherent, Shaped, Fields, Keys,
         Attributes
<1>5. t.fact.model = IF gone("model") THEN NoFact ELSE s.fact.model
  BY DEF WithoutUnavailable, Unavailable, Coherent, Shaped, Fields, Keys,
         Attributes
<1>6. t.fact.color = IF gone("color") THEN NoFact ELSE s.fact.color
  BY DEF WithoutUnavailable, Unavailable, Coherent, Shaped, Fields, Keys,
         Attributes
<1> HIDE DEF t
<1>7. Told(t, "product") /\ Told(t, "model") /\ Told(t, "color")
  BY <1>1, <1>2, <1>3, <1>4, <1>5, <1>6 DEF Told, Coherent
<1>8. Covered(t) /\ NoneConfirmed(s, t)
  BY <1>4, <1>5, <1>6, NoFactIs DEF Covered, NoneConfirmed, None, Coherent
<1>9. Coherent(t)
  BY <1>1, <1>7, <1>8 DEF Coherent, Prices
<1> QED  BY <1>1, <1>8, <1>9 DEF t

LEMMA TakenIs ==
  ASSUME NEW s, Coherent(s), NEW o \in Rows
  PROVE  LET t == Taken(s, o) IN
         /\ Coherent(t) /\ t.offers = s.offers
         /\ t.product = o.product /\ t.model = o.model /\ t.color = o.color
         /\ \A k \in Attributes : t.fact[k] \in {NoFact, Fact(o[k], "VERIFIED")}
<1> DEFINE c == Cleared(s)
           t == Taken(s, o)
<1>1. Coherent(c) /\ c.offers = s.offers
  BY ClearedIs
<1>2. o.product # None
  BY SalesAssumption
<1> HIDE DEF c
<1>3. t = [c EXCEPT
             !.product = o.product, !.model = o.model, !.color = o.color,
             !.fact = [k \in Keys |-> IF o[k] = None THEN NoFact
                                      ELSE Fact(o[k], "VERIFIED")],
             !.price = PriceOf[o]]
  BY DEF Taken, c
<1> HIDE DEF t
<1>4. /\ Shaped(t) /\ t.offers = s.offers /\ t.price = PriceOf[o]
      /\ t.product = o.product /\ t.model = o.model /\ t.color = o.color
  BY <1>1, <1>3 DEF Coherent, Shaped, Fields, Keys
<1>5. t.fact = [k \in Keys |-> IF o[k] = None THEN NoFact
                               ELSE Fact(o[k], "VERIFIED")]
  BY <1>1, <1>3 DEF Coherent, Shaped, Fields, Keys
<1>6. /\ t.fact.product = Fact(o.product, "VERIFIED")
      /\ t.fact.model = IF o.model = None THEN NoFact
                        ELSE Fact(o.model, "VERIFIED")
      /\ t.fact.color = IF o.color = None THEN NoFact
                        ELSE Fact(o.color, "VERIFIED")
  BY <1>2, <1>5 DEF Keys
<1>7. Told(t, "product") /\ Told(t, "model") /\ Told(t, "color")
  BY <1>2, <1>4, <1>6 DEF Told, Statuses
<1>8. Covered(t)
  BY <1>6, NoFactIs, FactIs DEF Covered, None
<1>9. Coherent(t)
  BY <1>1, <1>2, <1>4, <1>7, <1>8 DEF Coherent, Prices
<1>10. \A k \in Attributes : t.fact[k] \in {NoFact, Fact(o[k], "VERIFIED")}
  BY <1>6 DEF Attributes
<1> QED  BY <1>4, <1>9, <1>10 DEF t

\* What has become of s after an operation that confirms nothing.
Kept(s, t) == Coherent(t) /\ NoneConfirmed(s, t) /\ t.offers = s.offers

LEMMA ProposedProduct ==
  ASSUME NEW s, Coherent(s), NEW v, v # None
  PROVE  LET t == Proposed(s, "product", v) IN
         /\ Kept(s, t) /\ t.price = s.price
         /\ t.product = v /\ t.model = s.model /\ t.color = s.color
<1> DEFINE f == IF s.product = v /\ s.fact.product # NoFact
                THEN s.fact.product ELSE Fact(v, "PROPOSED")
           t == Proposed(s, "product", v)
<1> HIDE DEF f
<1>1. t = [s EXCEPT !.product = v, !.fact.product = f]
  BY DEF Proposed, f
<1> HIDE DEF t
<1>2. /\ Shaped(t) /\ t.offers = s.offers /\ t.price = s.price
      /\ t.product = v /\ t.model = s.model /\ t.color = s.color
  BY <1>1 DEF Coherent, Shaped, Fields, Keys
<1>3. /\ t.fact.product = f /\ t.fact.model = s.fact.model
      /\ t.fact.color = s.fact.color
  BY <1>1 DEF Coherent, Shaped, Fields, Keys
<1>4. Told(t, "product")
  BY <1>2, <1>3 DEF Told, Coherent, f, Statuses
<1>5. Told(t, "model") /\ Told(t, "color") /\ NoneConfirmed(s, t)
  BY <1>2, <1>3 DEF Told, Coherent, NoneConfirmed
<1>6. t.fact.product.status = "UNAVAILABLE" =>
        s.fact.product.status = "UNAVAILABLE"
  BY <1>3, FactIs DEF f
<1>7. Covered(t)
  BY <1>3, <1>6 DEF Covered, Coherent
<1>8. Coherent(t)
  BY <1>2, <1>4, <1>5, <1>7 DEF Coherent
<1> QED  BY <1>2, <1>5, <1>8 DEF t, Kept

\* A key of the selection is given a value that no one has confirmed.
WithModel(s, v, f) == [s EXCEPT !.model = v, !.fact.model = f]

LEMMA ModelGiven ==
  ASSUME NEW s, Coherent(s), NEW v, v # None, NEW f,
         \/ f = Fact(v, "PROPOSED")
         \/ s.model = v /\ f = s.fact.model,
         NEW t, t = WithModel(s, v, f)
  PROVE  /\ Kept(s, t) /\ t.price = s.price
         /\ t.product = s.product /\ t.model = v /\ t.color = s.color
<1>2. /\ Shaped(t) /\ t.offers = s.offers /\ t.price = s.price
      /\ t.product = s.product /\ t.model = v /\ t.color = s.color
  BY DEF WithModel, Coherent, Shaped, Fields, Keys
<1>3. /\ t.fact.product = s.fact.product /\ t.fact.model = f
      /\ t.fact.color = s.fact.color
  BY DEF WithModel, Coherent, Shaped, Fields, Keys
<1>4. Told(t, "model")
  BY <1>2, <1>3 DEF Told, Coherent, Statuses
<1>5. Told(t, "product") /\ Told(t, "color")
  BY <1>2, <1>3 DEF Told, Coherent
<1>6. f.status = "UNAVAILABLE" => s.fact.model.status = "UNAVAILABLE"
  BY FactIs
<1>7. f.status = "VERIFIED" => f = s.fact.model
  BY FactIs
<1>8. Covered(t)
  BY <1>3, <1>6, <1>7 DEF Covered, Coherent
<1>9. NoneConfirmed(s, t)
  BY <1>3, <1>7 DEF NoneConfirmed
<1>10. Coherent(t)
  BY <1>2, <1>4, <1>5, <1>8 DEF Coherent
<1> QED  BY <1>2, <1>9, <1>10 DEF Kept

WithColor(s, v, f) == [s EXCEPT !.color = v, !.fact.color = f]

LEMMA ColorGiven ==
  ASSUME NEW s, Coherent(s), NEW v, v # None, NEW f,
         \/ f = Fact(v, "PROPOSED")
         \/ s.color = v /\ f = s.fact.color,
         NEW t, t = WithColor(s, v, f)
  PROVE  /\ Kept(s, t) /\ t.price = s.price
         /\ t.product = s.product /\ t.model = s.model /\ t.color = v
<1>2. /\ Shaped(t) /\ t.offers = s.offers /\ t.price = s.price
      /\ t.product = s.product /\ t.model = s.model /\ t.color = v
  BY DEF WithColor, Coherent, Shaped, Fields, Keys
<1>3. /\ t.fact.product = s.fact.product /\ t.fact.color = f
      /\ t.fact.model = s.fact.model
  BY DEF WithColor, Coherent, Shaped, Fields, Keys
<1>4. Told(t, "color")
  BY <1>2, <1>3 DEF Told, Coherent, Statuses
<1>5. Told(t, "product") /\ Told(t, "model")
  BY <1>2, <1>3 DEF Told, Coherent
<1>7. f.status = "VERIFIED" => f = s.fact.color
  BY FactIs
<1>8. Covered(t)
  BY <1>3, <1>7 DEF Covered, Coherent
<1>9. NoneConfirmed(s, t)
  BY <1>3, <1>7 DEF NoneConfirmed
<1>10. Coherent(t)
  BY <1>2, <1>4, <1>5, <1>8 DEF Coherent
<1> QED  BY <1>2, <1>9, <1>10 DEF Kept

LEMMA KeptItself ==
  ASSUME NEW s, Coherent(s)
  PROVE  Kept(s, s)
BY DEF Kept, NoneConfirmed

LEMMA AttributeSetModel ==
  ASSUME NEW s, Coherent(s), NEW b, NEW u, NEW m, NEW o
  PROVE  LET t == AttributeSet(s, b, u, m, o, "model") IN
         /\ Kept(s, t) /\ t.price = s.price
         /\ t.product = s.product /\ t.color = s.color
<1> DEFINE t == AttributeSet(s, b, u, m, o, "model")
<1>1. CASE u.model # None
  <2> DEFINE f == IF s.model = u.model /\ s.fact.model # NoFact
                  THEN s.fact.model ELSE Fact(u.model, "PROPOSED")
  <2>1. t = [s EXCEPT !.model = u.model, !.fact.model = f]
    BY <1>1 DEF AttributeSet, Proposed
  <2>2. \/ f = Fact(u.model, "PROPOSED")
        \/ s.model = u.model /\ f = s.fact.model
    OBVIOUS
  <2> DEFINE v == u.model
  <2>3. v # None /\ (f = Fact(v, "PROPOSED") \/ (s.model = v /\ f = s.fact.model))
    BY <1>1, <2>2
  <2>4. t = WithModel(s, v, f)
    BY <2>1 DEF WithModel
  <2> HIDE DEF f, t, v
  <2>5. Kept(s, t) /\ t.price = s.price /\ t.product = s.product
        /\ t.color = s.color
    BY <2>3, <2>4, ModelGiven
  <2> QED  BY <2>5 DEF t
<1>2. CASE u.model = None /\ o = NoOffer /\ Literal(s, b, u, m, "model")
  <2>1. t = [s EXCEPT !.model = m.model,
                      !.fact.model = Fact(m.model, "PROPOSED")]
    BY <1>2 DEF AttributeSet
  <2>2. m.model # None
    BY <1>2 DEF Literal
  <2> DEFINE v == m.model
             f == Fact(v, "PROPOSED")
  <2>3. v # None /\ f = Fact(v, "PROPOSED")
    BY <2>2
  <2>4. t = WithModel(s, v, f)
    BY <2>1 DEF WithModel
  <2> HIDE DEF f, t, v
  <2>5. Kept(s, t) /\ t.price = s.price /\ t.product = s.product
        /\ t.color = s.color
    BY <2>3, <2>4, ModelGiven
  <2> QED  BY <2>5 DEF t
<1>3. CASE u.model = None /\ ~(o = NoOffer /\ Literal(s, b, u, m, "model"))
  BY <1>3, KeptItself DEF AttributeSet
<1> QED  BY <1>1, <1>2, <1>3

LEMMA AttributeSetColor ==
  ASSUME NEW s, Coherent(s), NEW b, NEW u, NEW m, NEW o
  PROVE  LET t == AttributeSet(s, b, u, m, o, "color") IN
         /\ Kept(s, t) /\ t.price = s.price
         /\ t.product = s.product /\ t.model = s.model
<1> DEFINE t == AttributeSet(s, b, u, m, o, "color")
<1>1. CASE u.color # None
  <2> DEFINE f == IF s.color = u.color /\ s.fact.color # NoFact
                  THEN s.fact.color ELSE Fact(u.color, "PROPOSED")
  <2>1. t = [s EXCEPT !.color = u.color, !.fact.color = f]
    BY <1>1 DEF AttributeSet, Proposed
  <2>2. \/ f = Fact(u.color, "PROPOSED")
        \/ s.color = u.color /\ f = s.fact.color
    OBVIOUS
  <2> DEFINE v == u.color
  <2>3. v # None /\ (f = Fact(v, "PROPOSED") \/ (s.color = v /\ f = s.fact.color))
    BY <1>1, <2>2
  <2>4. t = WithColor(s, v, f)
    BY <2>1 DEF WithColor
  <2> HIDE DEF f, t, v
  <2>5. Kept(s, t) /\ t.price = s.price /\ t.product = s.product
        /\ t.model = s.model
    BY <2>3, <2>4, ColorGiven
  <2> QED  BY <2>5 DEF t
<1>2. CASE u.color = None /\ o = NoOffer /\ Literal(s, b, u, m, "color")
  <2>1. t = [s EXCEPT !.color = m.color,
                      !.fact.color = Fact(m.color, "PROPOSED")]
    BY <1>2 DEF AttributeSet
  <2>2. m.color # None
    BY <1>2 DEF Literal
  <2> DEFINE v == m.color
             f == Fact(v, "PROPOSED")
  <2>3. v # None /\ f = Fact(v, "PROPOSED")
    BY <2>2
  <2>4. t = WithColor(s, v, f)
    BY <2>1 DEF WithColor
  <2> HIDE DEF f, t, v
  <2>5. Kept(s, t) /\ t.price = s.price /\ t.product = s.product
        /\ t.model = s.model
    BY <2>3, <2>4, ColorGiven
  <2> QED  BY <2>5 DEF t
<1>3. CASE u.color = None /\ ~(o = NoOffer /\ Literal(s, b, u, m, "color"))
  BY <1>3, KeptItself DEF AttributeSet
<1> QED  BY <1>1, <1>2, <1>3

LEMMA NoneConfirmedChains ==
  ASSUME NEW s, NEW t, NEW w, NoneConfirmed(s, t), NoneConfirmed(t, w)
  PROVE  NoneConfirmed(s, w)
BY DEF NoneConfirmed

LEMMA ProductSetIs ==
  ASSUME NEW s, Coherent(s), NEW u, NEW m, u.switch => s.price = NoPrice
  PROVE  LET t == ProductSet(s, u, m) IN
         /\ Kept(s, t)
         /\ t.price # NoPrice => t.price = s.price /\ SameSelection(s, t)
         /\ u.product # None => t.product = u.product
         /\ u.product = None /\ s.product # None => t.product = s.product
<1> DEFINE t == ProductSet(s, u, m)
           c == Cleared(s)
<1>1. CASE u.product # None /\ s.product \notin {None, u.product} /\ ~u.switch
  <2>1. t = Proposed(c, "product", u.product)
    BY <1>1 DEF ProductSet
  <2>2. Coherent(c) /\ NoneConfirmed(s, c) /\ c.offers = s.offers
        /\ c.price = NoPrice
    BY ClearedIs
  <2> HIDE DEF c
  <2>3. Kept(c, t) /\ t.price = c.price /\ t.product = u.product
    BY <1>1, <2>1, <2>2, ProposedProduct
  <2>4. Kept(s, t)
    BY <2>2, <2>3, NoneConfirmedChains DEF Kept
  <2> QED  BY <1>1, <2>2, <2>3, <2>4
<1>2. CASE u.product # None /\ ~(s.product \notin {None, u.product} /\ ~u.switch)
  <2>1. t = Proposed(s, "product", u.product)
    BY <1>2 DEF ProductSet
  <2>2. Kept(s, t) /\ t.price = s.price /\ t.product = u.product
        /\ t.model = s.model /\ t.color = s.color
    BY <1>2, <2>1, ProposedProduct
  <2>3. t.price # NoPrice => s.product = u.product
    BY <1>2, <2>2 DEF Coherent
  <2> QED  BY <1>2, <2>2, <2>3 DEF SameSelection
<1>3. CASE u.product = None /\ s.product = None
  <2>1. t = Proposed(s, "product", m.product)
    BY <1>3 DEF ProductSet
  <2>2. s.price = NoPrice
    BY <1>3 DEF Coherent
  <2>3. CASE m.product = None
    BY <1>3, <2>1, <2>2, <2>3, KeptItself DEF Proposed, SameSelection
  <2>4. CASE m.product # None
    BY <1>3, <2>1, <2>2, <2>4, ProposedProduct
  <2> QED  BY <2>3, <2>4
<1>4. CASE u.product = None /\ s.product # None
  BY <1>4, KeptItself DEF ProductSet, SameSelection
<1> QED  BY <1>1, <1>2, <1>3, <1>4

LEMMA PriceKeptIs ==
  ASSUME NEW s, NEW t, Coherent(t), t.product = s.product
  PROVE  LET w == PriceKept(s, t) IN
         /\ Kept(t, w) /\ w.product = t.product
         /\ w.price # NoPrice => w.price = t.price /\ SameSelection(s, w)
<1>1. CASE s.model = t.model /\ s.color = t.color
  BY <1>1, KeptItself DEF PriceKept, SameSelection
<1>2. CASE ~(s.model = t.model /\ s.color = t.color)
  <2> DEFINE w == [t EXCEPT !.price = NoPrice]
  <2>1. NoPrice \in Prices
    BY DEF Prices
  <2>2. Coherent(w) /\ w.fact = t.fact /\ w.offers = t.offers
        /\ w.price = NoPrice /\ SameSelection(t, w)
    BY <2>1, PriceDroppedIs
  <2>3. PriceKept(s, t) = w
    BY <1>2 DEF PriceKept
  <2> HIDE DEF w
  <2> QED  BY <2>2, <2>3 DEF Kept, NoneConfirmed, SameSelection
<1> QED  BY <1>1, <1>2

-----------------------------------------------------------------------------
(* What a turn does to the saved state: the offer that was taken, or none. *)

\* The facts are of the offer that was taken, or there are no new ones.
Confirmed(s, o, t) ==
  IF o = NoOffer THEN NoneConfirmed(s, t)
  ELSE \A k \in Attributes : \/ t.fact[k] = Fact(o[k], "VERIFIED")
                             \/ t.fact[k].status # "VERIFIED"

\* A price is of the offer that was taken, or of the selection as it was.
PriceOfThat(s, o, t) ==
  t.price # NoPrice =>
    IF o = NoOffer THEN t.price = s.price /\ SameSelection(s, t)
    ELSE SameSelection(o, t)

LEMMA ConfirmedChains ==
  ASSUME NEW s, NEW o, NEW t, NEW w, Confirmed(s, o, t), NoneConfirmed(t, w)
  PROVE  Confirmed(s, o, w)
BY NoneConfirmedChains DEF Confirmed, NoneConfirmed, Attributes

LEMMA NoOfferNotListed ==
  ASSUME NEW o \in Rows
  PROVE  o # NoOffer /\ o \in [Keys -> STRING] /\ o.product # None
<1>1. NoOffer.product = None
  BY DEF NoOffer, Nothing, Keys
<1>2. o.product # None
  BY SalesAssumption
<1> QED  BY <1>1, <1>2, SalesAssumption

LEMMA TurnedIs ==
  ASSUME NEW s, Coherent(s), NEW u, NEW o, o = NoOffer \/ o \in s.offers,
         u.switch => o = NoOffer
  PROVE  LET t == Turned(s, u, o) IN
         /\ Coherent(t) /\ Confirmed(s, o, t) /\ PriceOfThat(s, o, t)
         /\ u.switch => t.offers = {} /\ t.price = NoPrice
         /\ ~u.switch => t.offers = s.offers
         /\ ~u.switch /\ o = NoOffer => t.product = s.product
         /\ o # NoOffer => t.product = o.product
<1> DEFINE t == Turned(s, u, o)
<1>1. CASE u.switch
  <2> DEFINE c == Cleared(s)
  <2>1. Coherent(c) /\ NoneConfirmed(s, c) /\ c.price = NoPrice
    BY ClearedIs
  <2>2. t = [c EXCEPT !.offers = {}]
    BY <1>1 DEF Turned
  <2> HIDE DEF c, t
  <2>3. Coherent(t) /\ t.fact = c.fact /\ t.offers = {} /\ t.price = NoPrice
    BY <2>1, <2>2, OffersDroppedIs
  <2>4. Confirmed(s, o, t)
    BY <1>1, <2>1, <2>3 DEF Confirmed, NoneConfirmed
  <2> QED  BY <1>1, <2>3, <2>4 DEF t, PriceOfThat
<1>2. CASE ~u.switch
  <2> DEFINE c == IF u.clear \/ o # NoOffer THEN WithoutUnavailable(s) ELSE s
  <2>1. /\ Coherent(c) /\ NoneConfirmed(s, c) /\ c.offers = s.offers
        /\ c.product = s.product
        /\ c.price # NoPrice => c = s
    BY WithoutUnavailableIs, KeptItself DEF Kept
  <2>2. t = IF o = NoOffer THEN c ELSE Taken(c, o)
    BY <1>2 DEF Turned
  <2> HIDE DEF c, t
  <2>3. CASE o = NoOffer
    <3>1. t = c
      BY <2>2, <2>3
    <3>2. Confirmed(s, o, t) /\ PriceOfThat(s, o, t)
      BY <2>1, <2>3, <3>1 DEF Confirmed, PriceOfThat, SameSelection
    <3> QED  BY <1>2, <2>1, <2>3, <3>1, <3>2 DEF t
  <2>4. CASE o # NoOffer
    <3>1. o \in Rows
      BY <2>4 DEF Coherent
    <3>2. t = Taken(c, o)
      BY <2>2, <2>4
    <3>3. /\ Coherent(t) /\ t.offers = c.offers
          /\ t.product = o.product /\ t.model = o.model /\ t.color = o.color
          /\ \A k \in Attributes : t.fact[k] \in {NoFact, Fact(o[k], "VERIFIED")}
      BY <2>1, <3>1, <3>2, TakenIs
    <3>4. Confirmed(s, o, t)
      BY <2>4, <3>3, NoFactIs DEF Confirmed, None
    <3>5. PriceOfThat(s, o, t)
      BY <2>4, <3>3 DEF PriceOfThat, SameSelection
    <3> QED  BY <1>2, <2>1, <2>4, <3>3, <3>4, <3>5 DEF t
  <2> QED  BY <2>3, <2>4
<1> QED  BY <1>1, <1>2

LEMMA OffersKeptIs ==
  ASSUME NEW s, Coherent(s), NEW u, NEW o
  PROVE  LET t == OffersKept(s, u, o) IN
         /\ Coherent(t) /\ t.fact = s.fact /\ t.price = s.price
         /\ SameSelection(s, t)
         /\ t.offers \in {s.offers, {}}
         /\ t.offers # {} /\ Named(u) # {} /\ o = NoOffer =>
              \E p \in s.offers : Requested(u, p) = Named(u)
<1>1. CASE /\ Named(u) # {} /\ o = NoOffer
           /\ \A p \in s.offers : Requested(u, p) # Named(u)
  BY <1>1, OffersDroppedIs DEF OffersKept
<1>2. CASE ~(/\ Named(u) # {} /\ o = NoOffer
             /\ \A p \in s.offers : Requested(u, p) # Named(u))
  BY <1>2 DEF OffersKept, SameSelection
<1> QED  BY <1>1, <1>2

LEMMA AcceptsIs ==
  ASSUME NEW s, NEW u, NEW m, NEW o \in Accepts(s, u, m)
  PROVE  /\ o = NoOffer \/ o \in s.offers
         /\ u.switch => o = NoOffer
<1> DEFINE exact == {p \in s.offers : Requested(u, p) = Named(u)}
           closest == {p \in s.offers :
                    /\ Requested(u, p) # {}
                    /\ \A q \in s.offers \ {p} : Cardinality(Requested(u, p))
                                               > Cardinality(Requested(u, q))}
           cheapest == {p \in s.offers : \A q \in s.offers : PriceOf[p] <= PriceOf[q]}
           taken ==
        IF u.switch \/ m.word = "no" THEN {}
        ELSE IF m.word = "nth" THEN s.offers
        ELSE IF Named(u) # {} /\ exact # {} THEN exact
        ELSE IF Named(u) # {} /\ closest # {} THEN closest
        ELSE IF m.word = "cheaper" THEN cheapest
        ELSE IF Named(u) # {} \/ Cardinality(s.offers) # 1 THEN {}
        ELSE IF \/ u.intent = "QUANTITY"
                \/ u.intent = "ACKNOWLEDGEMENT" /\ m.word = "yes"
        THEN s.offers ELSE {}
<1>1. Accepts(s, u, m) = IF taken = {} THEN {NoOffer} ELSE taken
  BY Zenon DEF Accepts
<1>2. exact \subseteq s.offers /\ closest \subseteq s.offers
      /\ cheapest \subseteq s.offers
  OBVIOUS
<1> HIDE DEF exact, closest, cheapest
<1>3. taken \subseteq s.offers /\ (u.switch => taken = {})
  BY <1>2
<1> HIDE DEF taken
<1> QED  BY <1>1, <1>3

LEMMA AppliedIs ==
  ASSUME NEW s, Coherent(s), NEW u, NEW m, NEW o, o = NoOffer \/ o \in s.offers,
         u.switch => o = NoOffer
  PROVE  LET t == Applied(s, u, m, o) IN
         /\ Coherent(t) /\ Confirmed(s, o, t) /\ PriceOfThat(s, o, t)
         /\ t.offers \in {s.offers, {}}
         /\ /\ \A p \in s.offers : p.product = s.product
            /\ o = NoOffer \/ u.product \in {None, o.product}
            => \A p \in t.offers : p.product = t.product
<1> DEFINE e == Turned(s, u, o)
           a == OffersKept(e, u, o)
           b == ProductSet(a, u, m)
           c == AttributeSet(b, s, u, m, o, "model")
           d == AttributeSet(c, s, u, m, o, "color")
           t == PriceKept(b, d)
<1>0. Applied(s, u, m, o) = t
  BY Zenon DEF Applied
<1>1. /\ Coherent(e) /\ Confirmed(s, o, e) /\ PriceOfThat(s, o, e)
      /\ u.switch => e.offers = {} /\ e.price = NoPrice
      /\ ~u.switch => e.offers = s.offers
      /\ ~u.switch /\ o = NoOffer => e.product = s.product
      /\ o # NoOffer => e.product = o.product
  BY TurnedIs
<1> HIDE DEF e
<1>2. /\ Coherent(a) /\ a.fact = e.fact /\ a.price = e.price
      /\ SameSelection(e, a)
      /\ a.offers \in {e.offers, {}}
      /\ a.offers # {} /\ Named(u) # {} /\ o = NoOffer =>
           \E p \in e.offers : Requested(u, p) = Named(u)
  BY <1>1, OffersKeptIs
<1> HIDE DEF a
<1>3. /\ Kept(a, b)
      /\ b.price # NoPrice => b.price = a.price /\ SameSelection(a, b)
      /\ u.product # None => b.product = u.product
      /\ u.product = None /\ a.product # None => b.product = a.product
  BY <1>1, <1>2, ProductSetIs
<1> HIDE DEF b
<1>4. Kept(b, c) /\ c.price = b.price /\ c.product = b.product
  BY <1>3, AttributeSetModel DEF Kept
<1> HIDE DEF c
<1>5. Kept(c, d) /\ d.price = c.price /\ d.product = c.product
  BY <1>4, AttributeSetColor DEF Kept
<1> HIDE DEF d
<1>6. /\ Kept(d, t) /\ t.product = d.product
      /\ t.price # NoPrice => t.price = d.price /\ SameSelection(b, t)
  BY <1>4, <1>5, PriceKeptIs DEF Kept
<1> HIDE DEF t
<1>7. NoneConfirmed(b, t)
  BY <1>4, <1>5, <1>6, NoneConfirmedChains DEF Kept
<1>8. NoneConfirmed(e, t)
  BY <1>2, <1>3, <1>7, NoneConfirmedChains DEF Kept, NoneConfirmed
<1>9. Confirmed(s, o, t)
  BY <1>1, <1>8, ConfirmedChains
<1>10. PriceOfThat(s, o, t)
  <2> SUFFICES ASSUME t.price # NoPrice
               PROVE  IF o = NoOffer THEN t.price = s.price /\ SameSelection(s, t)
                      ELSE SameSelection(o, t)
    BY DEF PriceOfThat
  <2>1. t.price = b.price /\ SameSelection(b, t)
    BY <1>4, <1>5, <1>6
  <2>2. b.price = e.price /\ SameSelection(e, b)
    BY <1>2, <1>3, <2>1 DEF SameSelection
  <2>3. IF o = NoOffer THEN e.price = s.price /\ SameSelection(s, e)
        ELSE SameSelection(o, e)
    BY <1>1, <2>1, <2>2 DEF PriceOfThat
  <2> QED  BY <2>1, <2>2, <2>3 DEF SameSelection
<1>11. t.offers = a.offers /\ t.product = b.product /\ a.product = e.product
  BY <1>2, <1>3, <1>4, <1>5, <1>6 DEF Kept, SameSelection
<1>12. t.offers \in {s.offers, {}}
  BY <1>1, <1>2, <1>11
<1>13. ASSUME \A p \in s.offers : p.product = s.product,
              o = NoOffer \/ u.product \in {None, o.product},
              NEW p \in t.offers
       PROVE  p.product = t.product
  <2>1. ~u.switch /\ p \in s.offers /\ t.offers = s.offers /\ a.offers # {}
        /\ e.offers = s.offers
    BY <1>1, <1>2, <1>11, <1>13
  <2>2. p \in Rows
    BY <2>1 DEF Coherent
  <2>3. s.product = p.product /\ p.product # None
    BY <1>13, <2>1, <2>2, NoOfferNotListed
  <2>4. CASE o # NoOffer
    <3>1. e.product = s.product
      BY <1>1, <1>13, <2>4
    <3> QED  BY <1>3, <1>11, <1>13, <2>3, <2>4, <3>1
  <2>5. CASE o = NoOffer /\ u.product = None
    BY <1>1, <1>3, <1>11, <2>1, <2>3, <2>5
  <2>6. CASE o = NoOffer /\ u.product # None
    <3>1. "product" \in Named(u)
      BY <2>6 DEF Named, Keys
    <3>2. PICK q \in s.offers : Requested(u, q) = Named(u)
      BY <1>2, <2>1, <2>6, <3>1
    <3>3. u.product = q.product
      BY <3>1, <3>2 DEF Requested
    <3> QED  BY <1>3, <1>11, <1>13, <2>3, <2>6, <3>2, <3>3
  <2> QED  BY <2>4, <2>5, <2>6
<1> QED  BY <1>0, <1>6, <1>9, <1>10, <1>12, <1>13 DEF Kept

-----------------------------------------------------------------------------
(* What a read of the catalog does to it                                   *)

LEMMA MarkedIs ==
  ASSUME NEW s, Shaped(s), NEW ks, NEW st \in Statuses,
         Told(s, "product"), Told(s, "model"), Told(s, "color")
  PROVE  LET t == Marked(s, ks, st) IN
         /\ Shaped(t) /\ SameSelection(s, t)
         /\ t.offers = s.offers /\ t.price = s.price
         /\ Told(t, "product") /\ Told(t, "model") /\ Told(t, "color")
         /\ t.fact.product = IF "product" \in ks /\ s.product # None
                             THEN Fact(s.product, st) ELSE s.fact.product
         /\ t.fact.model = IF "model" \in ks /\ s.model # None
                           THEN Fact(s.model, st) ELSE s.fact.model
         /\ t.fact.color = IF "color" \in ks /\ s.color # None
                           THEN Fact(s.color, st) ELSE s.fact.color
<1> DEFINE t == Marked(s, ks, st)
           f == [k \in Keys |-> IF k \in ks \cap Named(s)
                                THEN Fact(s[k], st) ELSE s.fact[k]]
<1>1. t = [s EXCEPT !.fact = f]
  BY DEF Marked
<1>2. /\ f.product = IF "product" \in ks /\ s.product # None
                     THEN Fact(s.product, st) ELSE s.fact.product
      /\ f.model = IF "model" \in ks /\ s.model # None
                   THEN Fact(s.model, st) ELSE s.fact.model
      /\ f.color = IF "color" \in ks /\ s.color # None
                   THEN Fact(s.color, st) ELSE s.fact.color
      /\ DOMAIN f = Keys
  BY DEF Keys, Named
<1> HIDE DEF f, t
<1>3. t.fact = f /\ t.offers = s.offers /\ t.price = s.price /\ Shaped(t)
  BY <1>1, <1>2 DEF Shaped, Fields
<1>4. SameSelection(s, t)
  BY <1>1 DEF Shaped, Fields, SameSelection
<1>5. Told(t, "product") /\ Told(t, "model") /\ Told(t, "color")
  BY <1>2, <1>3, <1>4 DEF Told, SameSelection
<1> QED  BY <1>2, <1>3, <1>4, <1>5 DEF t

Scopes == {"FAMILY", "PRODUCT", "SELECTION"}

LEMMA OnePrice ==
  ASSUME NEW items, items \subseteq Rows
  PROVE  LET prices == {PriceOf[r] : r \in items} IN
         Cardinality(prices) = 1 => (CHOOSE p \in prices : TRUE) \in Prices
<1> DEFINE prices == {PriceOf[r] : r \in items}
<1>1. prices = {} => Cardinality(prices) = 0
  BY FS_EmptySet
<1>2. prices # {} => (CHOOSE p \in prices : TRUE) \in prices
  BY Zenon
<1>3. prices \subseteq Prices
  BY DEF Prices
<1> HIDE DEF prices
<1> QED  BY <1>1, <1>2, <1>3 DEF prices

LEMMA InStockIs ==
  ASSUME NEW s, Coherent(s), s.product # None, NEW scope \in Scopes,
         NEW items, items \subseteq Rows
  PROVE  LET t == InStock(s, scope, items) IN
         /\ Coherent(t) /\ SameSelection(s, t)
         /\ t.offers \in {s.offers, items}
         /\ scope = "FAMILY" => t.price = s.price
         /\ scope # "FAMILY" /\ Cardinality({PriceOf[r] : r \in items}) # 1 =>
              t.price = NoPrice
         /\ "model" \notin VerifiedKeys(scope) => t.fact.model = s.fact.model
         /\ "color" \notin VerifiedKeys(scope) => t.fact.color = s.fact.color
<1> DEFINE ks == VerifiedKeys(scope)
           v == Marked(s, ks, "VERIFIED")
           t == InStock(s, scope, items)
<1>1. /\ "product" \in ks
      /\ "color" \in ks => "model" \in ks
      /\ scope = "FAMILY" => ks = {"product"}
  BY DEF VerifiedKeys, Scopes, Keys
<1> HIDE DEF ks
<1>2. /\ Shaped(v) /\ SameSelection(s, v)
      /\ v.offers = s.offers /\ v.price = s.price
      /\ Told(v, "product") /\ Told(v, "model") /\ Told(v, "color")
      /\ v.fact.product = Fact(s.product, "VERIFIED")
      /\ v.fact.model = IF "model" \in ks /\ s.model # None
                        THEN Fact(s.model, "VERIFIED") ELSE s.fact.model
      /\ v.fact.color = IF "color" \in ks /\ s.color # None
                        THEN Fact(s.color, "VERIFIED") ELSE s.fact.color
  BY <1>1, MarkedIs DEF Coherent, Statuses
<1> HIDE DEF v
<1>3. Covered(v)
  <2>1. v.fact.product.status # "UNAVAILABLE"
    BY <1>2, FactIs
  <2>2. ASSUME v.fact.color.status = "VERIFIED", v.fact.model.status = "UNAVAILABLE"
        PROVE  FALSE
    <3>1. v.fact.model = s.fact.model /\ ~("model" \in ks /\ s.model # None)
      BY <1>2, <2>2, FactIs
    <3>2. s.model # None
      BY <1>2, <2>2, <3>1, NoFactIs DEF Coherent, Told, None
    <3>3. v.fact.color = s.fact.color
      BY <1>1, <1>2, <3>1, <3>2
    <3> QED  BY <2>2, <3>1, <3>3 DEF Coherent, Covered
  <2> QED  BY <2>1, <2>2 DEF Covered
<1>4. Coherent(v)
  BY <1>2, <1>3 DEF Coherent, SameSelection
<1>5. CASE scope = "FAMILY"
  <2>1. t = v \/ t = [v EXCEPT !.offers = items]
    BY <1>5 DEF InStock, Offering, v, ks
  <2> HIDE DEF t
  <2>2. Coherent(t) /\ t.fact = v.fact /\ t.offers \in {v.offers, items}
        /\ t.price = v.price /\ SameSelection(v, t)
    <3>1. CASE t = v
      BY <1>4, <3>1 DEF SameSelection
    <3>2. CASE t = [v EXCEPT !.offers = items]
      BY <1>4, <3>2, OffersDroppedIs
    <3> QED  BY <2>1, <3>1, <3>2
  <2> QED  BY <1>1, <1>2, <1>5, <2>2 DEF SameSelection, t, ks
<1>6. CASE scope # "FAMILY"
  <2> DEFINE prices == {PriceOf[r] : r \in items}
             p == IF Cardinality(prices) = 1
                  THEN CHOOSE x \in prices : TRUE ELSE NoPrice
  <2>1. t = [v EXCEPT !.price = p]
    BY <1>6 DEF InStock, Priced, v, ks
  <2>2. p \in Prices
    BY OnePrice DEF Prices
  <2>3. Cardinality(prices) # 1 => p = NoPrice
    OBVIOUS
  <2> HIDE DEF p, t
  <2>4. v.product # None
    BY <1>2 DEF SameSelection
  <2>5. Coherent(t) /\ t.fact = v.fact /\ t.offers = v.offers
        /\ t.price = p /\ SameSelection(v, t)
    BY <1>4, <2>1, <2>2, <2>4, PriceDroppedIs
  <2> QED  BY <1>2, <1>6, <2>3, <2>5 DEF SameSelection, t, ks
<1> QED  BY <1>5, <1>6

LEMMA RejectedIs ==
  ASSUME NEW s, Coherent(s), NEW found
  PROVE  LET t == Rejected(s, found) IN
         /\ Coherent(t) /\ SameSelection(s, t) /\ NoneConfirmed(s, t)
         /\ t.offers = s.offers /\ t.price \in {s.price, NoPrice}
<1> DEFINE t == Rejected(s, found)
<1>0. NoPrice \in Prices
  BY DEF Prices
<1>1. CASE s[Specific(s)] # None
  <2> DEFINE k == Specific(s)
             v == Marked(s, IF found = "OUT_OF_STOCK" THEN {"product"} ELSE {},
                         "VERIFIED")
             w == Marked(v, {k}, "UNAVAILABLE")
  <2>1. t = [w EXCEPT !.price = NoPrice]
    BY <1>1 DEF Rejected
  <2>2. \/ k = "color" /\ s.color # None
        \/ k = "model" /\ s.color = None /\ s.model # None
    BY <1>1 DEF Specific
  <2> HIDE DEF k
  <2>3. /\ Shaped(v) /\ SameSelection(s, v)
        /\ v.offers = s.offers /\ v.price = s.price
        /\ Told(v, "product") /\ Told(v, "model") /\ Told(v, "color")
        /\ v.fact.product \in {Fact(s.product, "VERIFIED"), s.fact.product}
        /\ v.fact.model = s.fact.model /\ v.fact.color = s.fact.color
    BY MarkedIs DEF Coherent, Statuses
  <2> HIDE DEF v
  <2>4. /\ Shaped(w) /\ SameSelection(v, w)
        /\ w.offers = v.offers /\ w.price = v.price
        /\ Told(w, "product") /\ Told(w, "model") /\ Told(w, "color")
        /\ w.fact.product = v.fact.product
        /\ w.fact.model = IF k = "model" THEN Fact(v.model, "UNAVAILABLE")
                          ELSE v.fact.model
        /\ w.fact.color = IF k = "color" THEN Fact(v.color, "UNAVAILABLE")
                          ELSE v.fact.color
    BY <2>2, <2>3, MarkedIs DEF Statuses, SameSelection
  <2> HIDE DEF w
  <2>5. SameSelection(s, w) /\ w.offers = s.offers
    BY <2>3, <2>4 DEF SameSelection
  <2>6. NoneConfirmed(s, w)
    BY <2>3, <2>4, FactIs DEF NoneConfirmed
  <2>7. Covered(w)
    <3>1. w.fact.product.status = "UNAVAILABLE" =>
            s.fact.product.status = "UNAVAILABLE"
      BY <2>3, <2>4, FactIs
    <3>2. w.fact.color.status # "VERIFIED"
      BY <2>2, <2>3, <2>4, FactIs, NoFactIs DEF Coherent, Told, None
    <3>3. w.fact.model.status = "VERIFIED" => s.fact.model.status = "VERIFIED"
      BY <2>3, <2>4, FactIs
    <3> QED  BY <3>1, <3>2, <3>3 DEF Covered, Coherent
  <2>8. Coherent(w)
    BY <2>3, <2>4, <2>5, <2>7 DEF Coherent, SameSelection
  <2>9. Coherent(t) /\ t.fact = w.fact /\ t.offers = w.offers
        /\ t.price = NoPrice /\ SameSelection(w, t)
    BY <1>0, <2>1, <2>8, PriceDroppedIs
  <2> QED  BY <2>5, <2>6, <2>9 DEF SameSelection, NoneConfirmed
<1>2. CASE s[Specific(s)] = None
  <2> DEFINE w == Marked(s, {"product"}, "UNAVAILABLE")
             p == IF found = "OUT_OF_STOCK" THEN w.price ELSE NoPrice
  <2>1. t = [w EXCEPT !.price = p]
    BY <1>2 DEF Rejected
  <2>2. s.color = None /\ s.model = None
    BY <1>2 DEF Specific
  <2>3. /\ Shaped(w) /\ SameSelection(s, w)
        /\ w.offers = s.offers /\ w.price = s.price
        /\ Told(w, "product") /\ Told(w, "model") /\ Told(w, "color")
        /\ w.fact.model = s.fact.model /\ w.fact.color = s.fact.color
    BY MarkedIs DEF Coherent, Statuses
  <2> HIDE DEF w
  <2>4. w.fact.model = NoFact /\ w.fact.color = NoFact
    BY <2>2, <2>3 DEF Coherent, Told
  <2>5. Covered(w)
    BY <2>4, NoFactIs DEF Covered, None
  <2>6. Coherent(w)
    BY <2>3, <2>5 DEF Coherent, SameSelection
  <2>7. p \in Prices /\ p \in {s.price, NoPrice} /\ (p # NoPrice => w.product # None)
    BY <1>0, <2>3, <2>6 DEF Coherent
  <2> HIDE DEF p
  <2>8. Coherent(t) /\ t.fact = w.fact /\ t.offers = w.offers
        /\ t.price = p /\ SameSelection(w, t)
    BY <2>1, <2>6, <2>7, PriceDroppedIs
  <2> QED  BY <2>3, <2>7, <2>8 DEF SameSelection, NoneConfirmed
<1> QED  BY <1>1, <1>2

LEMMA AssignedIs ==
  ASSUME NEW s, Coherent(s), NEW t, Coherent(t), SameSelection(s, t)
  PROVE  LET w == Assigned(s, t) IN
         /\ Coherent(w) /\ SameSelection(s, w) /\ w.fact = t.fact
         /\ w.offers = t.offers
         /\ w.price = IF t.price = NoPrice THEN s.price ELSE t.price
<1> DEFINE p == IF t.price = NoPrice THEN s.price ELSE t.price
           w == Assigned(s, t)
<1>1. w = [t EXCEPT !.price = p]
  BY DEF Assigned
<1>2. p \in Prices /\ (p # NoPrice => t.product # None)
  BY DEF Coherent, SameSelection
<1> HIDE DEF p, w
<1>3. Coherent(w) /\ w.fact = t.fact /\ w.offers = t.offers
      /\ w.price = p /\ SameSelection(t, w)
  BY <1>1, <1>2, PriceDroppedIs
<1> QED  BY <1>3 DEF p, w, SameSelection

-----------------------------------------------------------------------------
(* The invariant                                                           *)

\* The price is of the selection it was read for, also while a read runs.
PriceOfSelection ==
  sales.price # NoPrice =>
     /\ history.of.product = sales.product
     /\ history.scope = "SELECTION" => history.of = Selection(sales)

\* Whoever reads the catalog asks for a product.
ReadsSomething ==
  /\ turn.pc \in {"idle", "lookup"}
  /\ turn.pc = "lookup" => sales.product # None /\ turn.scope \in Scopes

SelectionInv ==
  /\ Coherent(sales) /\ PriceOfSelection /\ OffersFollowTopic /\ ReadsSomething
  /\ stock \subseteq Rows /\ changes \in 0..MaxChanges
  /\ DOMAIN history = {"of", "scope", "crossed"}

LEMMA SelectionHolds == SelectionInv => SelectionKept
<1> SUFFICES ASSUME SelectionInv PROVE SelectionKept
  OBVIOUS
<1>1. \A k \in Keys : sales.fact[k].value = sales[k]
  BY ToldIs DEF SelectionInv, Coherent, Keys
<1>2. TypeOK
  BY <1>1 DEF SelectionInv, Coherent, ReadsSomething, TypeOK, Prices
<1>3. PriceBelongs
  BY DEF SelectionInv, PriceOfSelection, PriceBelongs
<1>4. NeverSellsUnavailable
  <2> DEFINE f == sales.fact
             st(k) == f[k].status
  <2> SUFFICES ASSUME SalesNextAction(sales) = "PROCEED"
               PROVE  Unavailable(sales) = {}
    BY DEF NeverSellsUnavailable
  <2>1. \A k \in Keys : \/ f[k] = NoFact /\ st(k) = None
                        \/ f[k] # NoFact /\ st(k) \in Statuses
    BY ToldIs DEF SelectionInv, Coherent, Keys
  <2>2. Selected(sales).status \in Statuses \cup {None}
    BY <2>1 DEF Selected, Keys
  <2>3. Selected(sales).status = "VERIFIED"
    BY <2>2 DEF SalesNextAction, Statuses, None
  <2>4. Covered(sales)
    BY DEF SelectionInv, Coherent
  <2>5. \A k \in Keys : st(k) # "UNAVAILABLE"
    BY <2>1, <2>3, <2>4 DEF Selected, Keys, Covered, Statuses, None
  <2> QED  BY <2>5 DEF Unavailable
<1> QED  BY <1>2, <1>3, <1>4 DEF SelectionInv, SelectionKept

LEMMA SelectionStarts == Init => SelectionInv
<1> SUFFICES ASSUME Init PROVE SelectionInv
  OBVIOUS
<1>1. /\ Shaped(sales) /\ sales.offers = {} /\ sales.price = NoPrice
      /\ sales.product = None /\ sales.model = None /\ sales.color = None
      /\ sales.fact.product = NoFact /\ sales.fact.model = NoFact
      /\ sales.fact.color = NoFact
  BY DEF Init, Shaped, Fields, Keys
<1>2. Coherent(sales)
  BY <1>1, NoFactIs DEF Coherent, Told, Covered, Prices, None
<1>3. turn.pc = "idle"
  BY DEF Init, Resting
<1> QED
  BY <1>1, <1>2, <1>3, SalesAssumption
  DEF SelectionInv, PriceOfSelection, OffersFollowTopic, ReadsSomething, Init

\* A reading of a message asks for a scope there is.
LEMMA UnderstoodScope ==
  ASSUME NEW s, NEW m, NEW u \in Understood(s, m)
  PROVE  Answerable(s, m, u).scope \in Scopes \cup {"NONE"}
<1> DEFINE f == Fallback(s, m)
           Fine(v) == v.scope \in Scopes \cup {"NONE"}
<1>1. Fine(f)
  BY DEF Fallback, Scopes
<1>2. ASSUME NEW r \in Semantic(m) PROVE Fine(Guarded(s, m, r))
  <2>1. Fine(r) /\ "scope" \in DOMAIN r /\ "color" \in DOMAIN r
    BY DEF Semantic, Scopes
  <2> DEFINE broad == /\ r.intent = "ASK" /\ m.product # None /\ m.model = None
                      /\ r.model = None /\ r.color = None
             v == IF broad THEN [r EXCEPT !.scope = "FAMILY"] ELSE r
             sc == IF v.scope = "NONE" THEN f.scope ELSE v.scope
             co == IF v.color = None THEN f.color ELSE v.color
             w == [v EXCEPT !.scope = sc, !.color = co]
  <2>2. Fine(v) /\ "scope" \in DOMAIN v /\ "color" \in DOMAIN v
    BY <2>1 DEF Scopes
  <2>3. Guarded(s, m, r) = v \/ Guarded(s, m, r) = f \/ Guarded(s, m, r) = w
    BY DEF Guarded
  <2>4. Fine(sc) \/ sc \in Scopes \cup {"NONE"}
    BY <1>1, <2>2
  <2> HIDE DEF f, v, sc, co
  <2>5. w.scope = sc
    BY <2>2
  <2> HIDE DEF w
  <2> QED  BY <1>1, <2>2, <2>3, <2>5, <1>1 DEF sc
<1>3. Fine(u)
  BY <1>1, <1>2 DEF Understood, Reading
<1>4. Fine(SmallTalk)
  BY DEF SmallTalk
<1> QED  BY <1>1, <1>3, <1>4 DEF Answerable

\* The action property, as a formula of its own.
SiblingsStep ==
  \A k \in Attributes : Reverified(k) =>
       \/ turn.scope = "SELECTION"
       \/ turn.scope = "PRODUCT" /\ k = "model"
       \/ turn.pc = "idle" /\ \E o \in sales.offers : o[k] = sales[k]

LEMMA StaysConfirmed ==
  ASSUME NEW k \in Attributes, NoneConfirmed(sales, sales')
  PROVE  ~Reverified(k)
BY FactIs DEF NoneConfirmed, Reverified, Attributes

LEMMA SaySteps ==
  ASSUME SelectionInv, NEW m \in Messages, Say(m)
  PROVE  SelectionInv' /\ SiblingsStep
<1>1. PICK u \in Understood(sales, m) : LET v == Answerable(sales, m, u) IN
     \E accepted \in Accepts(sales, v, m) :
       LET s == Applied(sales, v, m, accepted) IN
       /\ sales' = s
       /\ turn' = IF Scope(s, v) = "NONE" \/ s.product = None THEN Resting
                  ELSE [pc |-> "lookup", scope |-> Scope(s, v),
                        found |-> None]
       /\ history' =
            [of |-> IF s.price = NoPrice THEN Nothing
                    ELSE IF accepted # NoOffer THEN accepted ELSE history.of,
             scope |-> IF accepted # NoOffer THEN "SELECTION"
                       ELSE history.scope,
             crossed |-> /\ s.offers # {}
                         /\ \/ history.crossed
                            \/ /\ accepted # NoOffer
                               /\ v.product \notin {None, accepted.product}]
  BY Zenon DEF Say
<1> DEFINE v == Answerable(sales, m, u)
<1>2. v.scope \in Scopes \cup {"NONE"}
  BY UnderstoodScope
<1> HIDE DEF v
<1>3. PICK o \in Accepts(sales, v, m) :
       LET s == Applied(sales, v, m, o) IN
       /\ sales' = s
       /\ turn' = IF Scope(s, v) = "NONE" \/ s.product = None THEN Resting
                  ELSE [pc |-> "lookup", scope |-> Scope(s, v),
                        found |-> None]
       /\ history' =
            [of |-> IF s.price = NoPrice THEN Nothing
                    ELSE IF o # NoOffer THEN o ELSE history.of,
             scope |-> IF o # NoOffer THEN "SELECTION"
                       ELSE history.scope,
             crossed |-> /\ s.offers # {}
                         /\ \/ history.crossed
                            \/ /\ o # NoOffer
                               /\ v.product \notin {None, o.product}]
  BY <1>1, Zenon DEF v
<1> DEFINE s == Applied(sales, v, m, o)
<1>4. (o = NoOffer \/ o \in sales.offers) /\ (v.switch => o = NoOffer)
  BY AcceptsIs
<1>5. Coherent(sales)
  BY DEF SelectionInv
<1>6. /\ Coherent(s) /\ Confirmed(sales, o, s) /\ PriceOfThat(sales, o, s)
      /\ s.offers \in {sales.offers, {}}
      /\ /\ \A p \in sales.offers : p.product = sales.product
         /\ o = NoOffer \/ v.product \in {None, o.product}
         => \A p \in s.offers : p.product = s.product
  BY <1>4, <1>5, AppliedIs
<1> HIDE DEF s
<1>7. sales' = s
  BY <1>3 DEF s
<1>8. /\ history'.of = IF s.price = NoPrice THEN Nothing
                       ELSE IF o # NoOffer THEN o ELSE history.of
      /\ history'.scope = IF o # NoOffer THEN "SELECTION" ELSE history.scope
  BY <1>3 DEF s
<1>9. history'.crossed <=> /\ s.offers # {}
                           /\ \/ history.crossed
                              \/ /\ o # NoOffer
                                 /\ v.product \notin {None, o.product}
  BY <1>3, Zenon DEF s
<1>10. turn.pc = "idle" /\ UNCHANGED <<stock, changes>>
  BY Zenon DEF Say
<1>11. Coherent(sales')
  BY <1>6, <1>7
<1>12. PriceOfSelection'
  <2> SUFFICES ASSUME s.price # NoPrice
               PROVE  /\ history'.of.product = s.product
                      /\ history'.scope = "SELECTION" => history'.of = Selection(s)
    BY <1>7 DEF PriceOfSelection
  <2>1. CASE o = NoOffer
    <3>1. s.price = sales.price /\ SameSelection(sales, s)
      BY <1>6, <2>1 DEF PriceOfThat
    <3>2. history'.of = history.of /\ history'.scope = history.scope
      BY <1>8, <2>1
    <3>3. Selection(s) = Selection(sales) /\ s.product = sales.product
      BY <3>1 DEF Selection, SameSelection, Keys
    <3> QED  BY <3>1, <3>2, <3>3 DEF SelectionInv, PriceOfSelection
  <2>2. CASE o # NoOffer
    <3>1. SameSelection(o, s)
      BY <1>6, <2>2 DEF PriceOfThat
    <3>2. o \in [Keys -> STRING]
      BY <1>4, <1>5, <2>2, NoOfferNotListed DEF Coherent
    <3>3. o = Selection(s)
      BY <3>1, <3>2 DEF Selection, SameSelection, Keys
    <3> QED  BY <1>8, <2>2, <3>1, <3>3 DEF SameSelection
  <2> QED  BY <2>1, <2>2
<1>13. OffersFollowTopic'
  <2> SUFFICES ASSUME ~history'.crossed
               PROVE  \A p \in s.offers : p.product = s.product
    BY <1>7 DEF OffersFollowTopic
  <2>1. CASE s.offers = {}
    BY <2>1
  <2>2. CASE s.offers # {}
    <3>1. ~history.crossed /\ (o = NoOffer \/ v.product \in {None, o.product})
      BY <1>9, <2>2
    <3> QED  BY <1>6, <3>1 DEF SelectionInv, OffersFollowTopic
  <2> QED  BY <2>1, <2>2
<1>14. ReadsSomething'
  <2>1. Scope(s, v) \in Scopes \cup {"NONE"}
    BY <1>2 DEF Scope, Scopes
  <2>2. turn' = IF Scope(s, v) = "NONE" \/ s.product = None THEN Resting
                ELSE [pc |-> "lookup", scope |-> Scope(s, v), found |-> None]
    BY <1>3 DEF s
  <2> QED  BY <1>7, <2>1, <2>2 DEF ReadsSomething, Resting
<1>15. SelectionInv'
  <2>1. DOMAIN history' = {"of", "scope", "crossed"}
    BY <1>3
  <2> QED  BY <1>10, <1>11, <1>12, <1>13, <1>14, <2>1 DEF SelectionInv
<1>16. ASSUME NEW k \in Attributes, Reverified(k)
       PROVE  \E p \in sales.offers : p[k] = sales[k]
  <2>1. o # NoOffer
    BY <1>6, <1>7, <1>16, StaysConfirmed DEF Confirmed
  <2>2. s.fact[k] = Fact(sales[k], "VERIFIED")
    BY <1>7, <1>16 DEF Reverified
  <2>3. s.fact[k] = Fact(o[k], "VERIFIED")
    BY <1>6, <2>1, <2>2, FactIs DEF Confirmed
  <2> QED  BY <1>4, <2>1, <2>2, <2>3, FactIs
<1> QED  BY <1>10, <1>15, <1>16 DEF SiblingsStep

LEMMA LookUpSteps ==
  ASSUME SelectionInv, LookUp
  PROVE  SelectionInv' /\ SiblingsStep
<1> DEFINE q == Query(sales, turn.scope)
           items == Matches(q) \cap stock
           one == Cardinality({PriceOf[r] : r \in items}) = 1
           found == IF Matches(q) = {} THEN "NOT_FOUND"
                    ELSE IF items = {} THEN "OUT_OF_STOCK" ELSE "IN_STOCK"
           s == IF found = "IN_STOCK" THEN InStock(sales, turn.scope, items)
                ELSE Offering(Rejected(sales, found), Alternatives(q))
           told == /\ sales' = Assigned(sales, s)
                   /\ turn' = [Resting EXCEPT !.found =
                        IF found # "IN_STOCK" THEN found
                        ELSE IF turn.scope = "FAMILY" THEN None
                        ELSE IF one THEN "ONE_PRICE" ELSE "SEVERAL_PRICES"]
                   /\ history' = IF turn'.found = "ONE_PRICE"
                         THEN [history EXCEPT !.of = q, !.scope = turn.scope]
                         ELSE history
<1>1. turn.pc = "lookup" /\ UNCHANGED <<stock, changes>>
  BY Zenon DEF LookUp
<1>2. told \/ (turn' = Resting /\ UNCHANGED <<sales, history>>)
  BY Zenon DEF LookUp
<1>3. Coherent(sales) /\ sales.product # None /\ turn.scope \in Scopes
  BY <1>1 DEF SelectionInv, ReadsSomething
<1>4. CASE turn' = Resting /\ UNCHANGED <<sales, history>>
  <2>1. SelectionInv'
    BY <1>1, <1>4 DEF SelectionInv, PriceOfSelection, OffersFollowTopic,
       ReadsSomething, Resting
  <2>2. ASSUME NEW k \in Attributes PROVE ~Reverified(k)
    BY <1>4, StaysConfirmed DEF NoneConfirmed
  <2> QED  BY <2>1, <2>2 DEF SiblingsStep
<1>5. CASE told
  <2>1. q.product = sales.product /\ "product" \in Named(q)
    BY <1>3 DEF Query, Keys, Named
  <2>2. turn.scope = "SELECTION" => q = Selection(sales)
    BY DEF Query, Selection
  <2> HIDE DEF q
  <2>3. /\ \A r \in items : r \in Rows /\ r.product = sales.product
        /\ \A r \in Alternatives(q) : r \in Rows /\ r.product = sales.product
    BY <2>1 DEF Matches, Alternatives
  <2>4. /\ turn'.pc = "idle"
        /\ turn'.found = IF found # "IN_STOCK" THEN found
                         ELSE IF turn.scope = "FAMILY" THEN None
                         ELSE IF one THEN "ONE_PRICE" ELSE "SEVERAL_PRICES"
    BY <1>5 DEF Resting
  <2>6. /\ Coherent(s) /\ SameSelection(sales, s)
        /\ \/ s.offers = sales.offers
           \/ s.offers \subseteq Rows /\ \A r \in s.offers : r.product = sales.product
        /\ s.price # NoPrice /\ s.price # sales.price =>
             turn'.found = "ONE_PRICE"
        /\ \A k \in Attributes :
             \/ s.fact[k] = sales.fact[k] \/ s.fact[k].status # "VERIFIED"
             \/ k \in VerifiedKeys(turn.scope)
    <3>1. CASE found = "IN_STOCK"
      <4>1. s = InStock(sales, turn.scope, items)
        BY <3>1
      <4> HIDE DEF items, s
      <4>2. items \subseteq Rows
        BY <2>3
      <4>3. /\ Coherent(s) /\ SameSelection(sales, s)
            /\ s.offers \in {sales.offers, items}
            /\ turn.scope = "FAMILY" => s.price = sales.price
            /\ turn.scope # "FAMILY" /\ ~one => s.price = NoPrice
            /\ "model" \notin VerifiedKeys(turn.scope) =>
                 s.fact.model = sales.fact.model
            /\ "color" \notin VerifiedKeys(turn.scope) =>
                 s.fact.color = sales.fact.color
        BY <1>3, <4>1, <4>2, InStockIs, SMTT(30)
      <4>4. \/ s.offers = sales.offers
            \/ s.offers \subseteq Rows /\ \A r \in s.offers : r.product = sales.product
        BY <2>3, <4>2, <4>3
      <4>5. s.price # NoPrice /\ s.price # sales.price => turn'.found = "ONE_PRICE"
        BY <2>4, <3>1, <4>3
      <4>6. \A k \in Attributes :
             \/ s.fact[k] = sales.fact[k]
             \/ k \in VerifiedKeys(turn.scope)
        BY <4>3 DEF Attributes
      <4> QED  BY <4>3, <4>4, <4>5, <4>6
    <3>2. CASE found # "IN_STOCK"
      <4> DEFINE x == Rejected(sales, found)
                 alt == Alternatives(q)
      <4>1. s = x \/ s = [x EXCEPT !.offers = alt]
        BY <3>2 DEF Offering
      <4>2. /\ Coherent(x) /\ SameSelection(sales, x) /\ NoneConfirmed(sales, x)
            /\ x.offers = sales.offers /\ x.price \in {sales.price, NoPrice}
        BY <1>3, RejectedIs
      <4>3. alt \subseteq Rows
        BY <2>3
      <4> HIDE DEF x, s, alt
      <4>4. Coherent(s) /\ s.fact = x.fact /\ s.price = x.price
            /\ SameSelection(x, s) /\ s.offers \in {x.offers, alt}
        <5>1. CASE s = x
          BY <4>2, <5>1 DEF SameSelection
        <5>2. CASE s = [x EXCEPT !.offers = alt]
          BY <4>2, <4>3, <5>2, OffersDroppedIs
        <5> QED  BY <4>1, <5>1, <5>2
      <4>5. \A k \in Attributes :
             s.fact[k] = sales.fact[k] \/ s.fact[k].status # "VERIFIED"
        BY <4>2, <4>4 DEF NoneConfirmed, Attributes
      <4>6. SameSelection(sales, s)
        BY <4>2, <4>4 DEF SameSelection
      <4>7. \/ s.offers = sales.offers
            \/ s.offers \subseteq Rows /\ \A r \in s.offers : r.product = sales.product
        BY <2>3, <4>2, <4>3, <4>4 DEF alt
      <4> QED  BY <4>2, <4>4, <4>5, <4>6, <4>7
    <3> QED  BY <3>1, <3>2
  <2>7. sales' = Assigned(sales, s)
    BY <1>5
  <2>8. history' = IF turn'.found = "ONE_PRICE"
                   THEN [history EXCEPT !.of = q, !.scope = turn.scope]
                   ELSE history
    BY <1>5
  <2> HIDE DEF s, items, found
  <2>9. /\ Coherent(sales') /\ SameSelection(sales, sales') /\ sales'.fact = s.fact
        /\ sales'.offers = s.offers
        /\ sales'.price = IF s.price = NoPrice THEN sales.price ELSE s.price
    BY <1>3, <2>6, <2>7, AssignedIs
  <2>10. Selection(sales') = Selection(sales)
    BY <2>9 DEF Selection, SameSelection, Keys
  <2>11. Coherent(sales')
    BY <2>9
  <2>12. /\ DOMAIN history' = {"of", "scope", "crossed"}
         /\ history'.crossed = history.crossed
         /\ history'.of = IF turn'.found = "ONE_PRICE" THEN q ELSE history.of
         /\ history'.scope = IF turn'.found = "ONE_PRICE" THEN turn.scope
                             ELSE history.scope
    BY <2>8 DEF SelectionInv
  <2>13. PriceOfSelection'
    <3>1. CASE turn'.found = "ONE_PRICE"
      BY <2>1, <2>2, <2>9, <2>10, <2>12, <3>1 DEF PriceOfSelection, SameSelection
    <3>2. CASE turn'.found # "ONE_PRICE"
      <4>1. sales'.price = sales.price
        BY <2>6, <2>9, <3>2
      <4> QED
        BY <2>9, <2>10, <2>12, <3>2, <4>1
        DEF PriceOfSelection, SameSelection, SelectionInv
    <3> QED  BY <3>1, <3>2
  <2>14. OffersFollowTopic'
    BY <2>6, <2>9, <2>12 DEF OffersFollowTopic, SelectionInv, SameSelection
  <2>15. ReadsSomething'
    BY <2>4 DEF ReadsSomething
  <2>16. SelectionInv'
    BY <1>1, <2>11, <2>12, <2>13, <2>14, <2>15 DEF SelectionInv
  <2>17. ASSUME NEW k \in Attributes, Reverified(k)
         PROVE  \/ turn.scope = "SELECTION"
                \/ turn.scope = "PRODUCT" /\ k = "model"
    <3>1. sales'.fact[k].status = "VERIFIED" /\ sales'.fact[k] # sales.fact[k]
      BY <2>17, FactIs DEF Reverified
    <3>2. k \in VerifiedKeys(turn.scope)
      BY <2>6, <2>9, <3>1
    <3> QED  BY <1>3, <3>2 DEF VerifiedKeys, Scopes, Attributes
  <2> QED  BY <2>16, <2>17 DEF SiblingsStep
<1> QED  BY <1>2, <1>4, <1>5

LEMMA SelectionSteps ==
  ASSUME SelectionInv, [Next]_vars
  PROVE  SelectionInv' /\ [SiblingsStep]_vars
<1>1. ASSUME NEW m \in Messages, Say(m)
      PROVE  SelectionInv' /\ SiblingsStep
  BY <1>1, SaySteps
<1>2. CASE LookUp
  BY <1>2, LookUpSteps
<1>3. ASSUME sales' = sales
      PROVE  SiblingsStep
  BY <1>3, StaysConfirmed DEF SiblingsStep, NoneConfirmed
<1>4. CASE LookUpFails
  <2>1. SelectionInv'
    BY <1>4 DEF LookUpFails, SelectionInv, PriceOfSelection, OffersFollowTopic,
       ReadsSomething, Resting
  <2> QED  BY <1>3, <1>4, <2>1 DEF LookUpFails
<1>5. ASSUME NEW r \in Rows, StockChanges(r)
      PROVE  SelectionInv' /\ SiblingsStep
  <2>1. stock' \subseteq Rows /\ changes' \in 0..MaxChanges
    BY <1>5, SalesAssumption DEF StockChanges, SelectionInv
  <2>2. UNCHANGED <<sales, turn, history>>
    BY <1>5 DEF StockChanges
  <2>3. SelectionInv'
    BY <2>1, <2>2 DEF SelectionInv, PriceOfSelection, OffersFollowTopic,
       ReadsSomething
  <2> QED  BY <1>3, <2>2, <2>3
<1>6. CASE UNCHANGED vars
  BY <1>6 DEF vars, SelectionInv, PriceOfSelection, OffersFollowTopic,
     ReadsSomething
<1> QED  BY <1>1, <1>2, <1>4, <1>5, <1>6 DEF Next

LEMMA OfSelection == [MCNext]_<<part, vars, catalog, chat>> => [Next]_vars
BY DEF MCNext, vars

\* Through every turn of a sales chat the price is of what is selected, the
\* offers are of the topic, and the seller takes no order for what Bito has
\* said is not there (reconcileSalesStateWithBito, applySalesUnderstanding).
THEOREM SelectionAlwaysKept == MCSpec => []SelectionKept
<1>1. MCInit => SelectionInv
  BY SelectionStarts DEF MCInit
<1>2. SelectionInv /\ [MCNext]_<<part, vars, catalog, chat>> => SelectionInv'
  BY OfSelection, SelectionSteps
<1> QED  BY <1>1, <1>2, SelectionHolds, PTL DEF MCSpec

\* What was unavailable becomes available again only by a read that asked for
\* it or an offer that has it (reconcileSalesStateWithBito).
THEOREM SiblingsNeverProve == MCSpec => SiblingsProveNothing
<1>1. MCInit => SelectionInv
  BY SelectionStarts DEF MCInit
<1>2. SelectionInv /\ [MCNext]_<<part, vars, catalog, chat>> =>
        SelectionInv' /\ [SiblingsStep]_vars
  BY OfSelection, SelectionSteps
<1>3. SiblingsProveNothing <=> [][SiblingsStep]_vars
  BY DEF SiblingsProveNothing, SiblingsStep
<1> QED  BY <1>1, <1>2, <1>3, PTL DEF MCSpec

-----------------------------------------------------------------------------
(* The rows of a list and their places in it                               *)

Rank(L, r) == Cardinality({q \in L : q < r})
Segment(L, a, n) == {r \in L : Rank(L, r) >= a /\ Rank(L, r) < a + n}

LEMMA SmallestIn ==
  ASSUME NEW T, T \subseteq Nat, T # {}
  PROVE  \E x \in T : \A y \in T : x <= y
<1> DEFINE R == OpToRel(<, Nat)
<1>1. IsWellFoundedOn(R, Nat)
  BY NatLessThanWellFounded
<1> HIDE DEF R
<1>2. PICK x \in T : \A y \in T : ~ (<<y, x>> \in R)
  BY <1>1, WFMin
<1>3. ASSUME NEW y \in T PROVE x <= y
  <2>1. ~(y < x)
    BY <1>2 DEF R, OpToRel
  <2> QED  BY <2>1
<1> QED  BY <1>3

LEMMA RankIs ==
  ASSUME NEW L, L \subseteq Nat, IsFiniteSet(L)
  PROVE  /\ \A r \in L : Rank(L, r) \in Nat
         /\ \A q, r \in L : q < r => Rank(L, q) < Rank(L, r)
         /\ \A r \in L : Rank(L, r) < Cardinality(L)
<1> DEFINE B(r) == {q \in L : q < r}
<1>1. \A r \in L : B(r) \in SUBSET L
  OBVIOUS
<1>2. ASSUME NEW r \in L PROVE IsFiniteSet(B(r)) /\ Cardinality(B(r)) \in Nat
  BY <1>1, FS_Subset, FS_CardinalityType
<1>3. ASSUME NEW q \in L, NEW r \in L, q < r
      PROVE  Cardinality(B(q)) < Cardinality(B(r))
  <2>0. \A p \in L : p < q => p < r
    <3>1. q \in Nat /\ r \in Nat /\ \A p \in L : p \in Nat
      OBVIOUS
    <3> QED  BY <1>3, <3>1
  <2>1. B(q) \in SUBSET B(r)
    BY <2>0
  <2>2. q \in B(r) /\ q \notin B(q)
    BY <1>3
  <2> HIDE DEF B
  <2>3. Cardinality(B(q)) <= Cardinality(B(r))
        /\ (Cardinality(B(r)) = Cardinality(B(q)) => B(r) = B(q))
    BY <1>2, <2>1, FS_Subset
  <2> QED  BY <1>2, <2>2, <2>3
<1>4. ASSUME NEW r \in L PROVE Cardinality(B(r)) < Cardinality(L)
  <2>1. r \notin B(r)
    BY <1>4
  <2> HIDE DEF B
  <2>2. Cardinality(B(r)) <= Cardinality(L)
        /\ (Cardinality(L) = Cardinality(B(r)) => L = B(r))
    BY <1>1, FS_Subset
  <2> QED  BY <1>2, <2>1, <2>2, FS_CardinalityType
<1> QED  BY <1>2, <1>3, <1>4 DEF Rank

LEMMA SegmentBound ==
  ASSUME NEW L, L \subseteq Nat, IsFiniteSet(L), NEW a \in Nat, NEW n \in Nat
  PROVE  /\ IsFiniteSet(Segment(L, a, n))
         /\ Cardinality(Segment(L, a, n)) \in Nat
         /\ Cardinality(Segment(L, a, n)) <= n
<1> DEFINE S == Segment(L, a, n)
           T == a..(a + n - 1)
           f == [r \in S |-> Rank(L, r)]
<1>0. /\ \A r \in L : r \in Nat /\ Rank(L, r) \in Nat
      /\ \A q, r \in L : q < r => Rank(L, q) < Rank(L, r)
  BY RankIs
<1>1. IsFiniteSet(S) /\ Cardinality(S) \in Nat
  BY FS_Subset, FS_CardinalityType DEF Segment
<1>2. IsFiniteSet(T) /\ Cardinality(T) = n
  BY FS_Interval
<1>3. f \in [S -> T]
  <2>1. \A r \in S : Rank(L, r) \in T
    BY <1>0 DEF Segment
  <2> HIDE DEF S, T
  <2> QED  BY <2>1
<1>4. ASSUME NEW x \in S, NEW y \in S, f[x] = f[y] PROVE x = y
  <2>1. x \in L /\ y \in L /\ Rank(L, x) = Rank(L, y)
    BY <1>4 DEF Segment
  <2>2. ~(x < y) /\ ~(y < x) /\ x \in Nat /\ y \in Nat
    BY <1>0, <2>1
  <2> QED  BY <2>2
<1> HIDE DEF S, T, f
<1>5. ~(n < Cardinality(S))
  BY <1>1, <1>2, <1>3, <1>4, FS_PigeonHole
<1> QED  BY <1>1, <1>5 DEF S

\* Where there are rows beyond it, a segment is full.
LEMMA SegmentFull ==
  ASSUME NEW L, L \subseteq Nat, IsFiniteSet(L), NEW a \in Nat, NEW n \in Nat,
         NEW z \in L, Rank(L, z) >= a + n
  PROVE  Cardinality(Segment(L, a, n)) >= n
<1> DEFINE S == Segment(L, a, n)
           D == Segment(L, 0, a)
           U == {r \in L : Rank(L, r) >= a + n}
<1>1. U \subseteq Nat /\ U # {}
  OBVIOUS
<1>2. PICK x \in U : \A y \in U : x <= y
  BY <1>1, SmallestIn
<1>0. \A r \in L : r \in Nat /\ Rank(L, r) \in Nat
  BY RankIs
<1>3. ASSUME NEW r \in L PROVE r \in S \/ r \in D \/ r \in U
  BY <1>0 DEF Segment
<1>4. {q \in L : q < x} \subseteq D \cup S
  <2>1. ASSUME NEW q \in L, q < x PROVE q \notin U
    <3>1. q \in Nat /\ x \in Nat
      BY <1>0
    <3> QED  BY <1>2, <2>1, <3>1
  <2> HIDE DEF S, D, U
  <2> QED  BY <1>3, <2>1
<1>5. /\ IsFiniteSet(S) /\ Cardinality(S) \in Nat
      /\ IsFiniteSet(D) /\ Cardinality(D) \in Nat /\ Cardinality(D) <= a
  BY SegmentBound
<1>6. Rank(L, x) >= a + n /\ Rank(L, x) \in Nat
  BY RankIs
<1> HIDE DEF S, D, U
<1>7. /\ IsFiniteSet(D \cup S) /\ Cardinality(D \cup S) \in Nat
      /\ Cardinality(D \cup S) <= Cardinality(D) + Cardinality(S)
  <2>1. /\ IsFiniteSet(D \cup S)
        /\ Cardinality(D \cup S) =
             Cardinality(D) + Cardinality(S) - Cardinality(D \cap S)
    BY <1>5, FS_Union
  <2>2. IsFiniteSet(D \cap S)
    BY <1>5, FS_Intersection
  <2>3. Cardinality(D \cap S) \in Nat /\ Cardinality(D \cup S) \in Nat
    BY <2>1, <2>2, FS_CardinalityType
  <2> QED  BY <1>5, <2>1, <2>3
<1>8. Rank(L, x) <= Cardinality(D \cup S)
  BY <1>4, <1>7, FS_Subset DEF Rank
<1> QED  BY <1>5, <1>6, <1>7, <1>8 DEF S

\* The rows of a list that is continued at its end keep their places.
LEMMA RankStays ==
  ASSUME NEW L, L \subseteq Nat, NEW M, M \subseteq Nat, L \subseteq M,
         \A q \in L, r \in M \ L : q < r, NEW x \in L
  PROVE  Rank(M, x) = Rank(L, x)
<1>1. ASSUME NEW q \in M, q < x PROVE q \in L
  BY <1>1
<1>2. {q \in M : q < x} = {q \in L : q < x}
  BY <1>1
<1> QED  BY <1>2 DEF Rank

-----------------------------------------------------------------------------
(* Reading the catalog: what holds of the list and of a page of it         *)

ReadFields == {"pc", "from", "page", "merged", "fetched", "said", "first", "since"}
Shapes == [pager : Catalog!Pagers, cap : Nat \ {0}, limited : BOOLEAN,
           tells : SUBSET Catalog!Facts, deaf : BOOLEAN, search : BOOLEAN]

CatalogTypes ==
  /\ shape \in Shapes
  /\ ask.words \in {"none", "model", "family"} /\ ask.meant \subseteq 1..rows
  /\ rows \in 0..MaxRows /\ pass \in {"first", "full", "again"}

Start(from) == IF shape.deaf THEN 0 ELSE from

LEMMA CountIs == \A S : Catalog!Cardinality(S) = Cardinality(S)
BY DEF Catalog!Cardinality, Cardinality

LEMMA BoundsAre ==
  /\ Limit \in Nat \ {0} /\ MaxPages \in Nat \ {0} /\ MaxRecords \in Nat \ {0}
  /\ MaxRows \in Nat
BY CatalogAssumption DEF Catalog!BitoReadAssumption

LEMMA MinIs ==
  ASSUME NEW a \in Nat, NEW b \in Nat
  PROVE  /\ Catalog!Min({a, b}) = IF a <= b THEN a ELSE b
         /\ Catalog!Max({a, b}) = IF a <= b THEN b ELSE a
BY DEF Catalog!Min, Catalog!Max

LEMMA LengthIs ==
  ASSUME CatalogTypes
  PROVE  LET P == Catalog!PageLength IN
         /\ P \in Nat \ {0}
         /\ ~shape.limited => P = shape.cap
         /\ shape.limited /\ shape.cap >= Limit => P = Limit
<1>1. shape.cap \in Nat \ {0} /\ Limit \in Nat \ {0}
  BY BoundsAre DEF CatalogTypes, Shapes
<1>2. Catalog!Min({Limit, shape.cap}) =
        IF Limit <= shape.cap THEN Limit ELSE shape.cap
  BY <1>1, MinIs
<1> QED  BY <1>1, <1>2 DEF Catalog!PageLength

LEMMA ListedIs ==
  ASSUME CatalogTypes
  PROVE  LET L == Catalog!Listed IN
         /\ L \subseteq Nat /\ IsFiniteSet(L) /\ Cardinality(L) \in Nat
         /\ L \subseteq 1..rows /\ (~Catalog!Searching => L = 1..rows)
         /\ Cardinality(L) <= MaxRows
<1> DEFINE L == Catalog!Listed
<1>0. rows \in Nat /\ rows <= MaxRows /\ MaxRows \in Nat
  BY BoundsAre DEF CatalogTypes
<1>1. L \subseteq 1..rows /\ (~Catalog!Searching => L = 1..rows)
  BY DEF Catalog!Listed
<1>2. IsFiniteSet(1..rows) /\ Cardinality(1..rows) = rows
  BY <1>0, FS_Interval
<1> DEFINE I == 1..rows
<1> HIDE DEF L
<1>3. IsFiniteSet(L) /\ Cardinality(L) <= rows
  <2>1. L \in SUBSET I /\ IsFiniteSet(I) /\ Cardinality(I) = rows
    BY <1>1, <1>2
  <2> HIDE DEF I
  <2> QED  BY <2>1, FS_Subset
<1>4. Cardinality(L) \in Nat
  BY <1>3, FS_CardinalityType
<1>5. L \subseteq Nat
  BY <1>0, <1>1
<1> QED  BY <1>0, <1>1, <1>3, <1>4, <1>5 DEF L

LEMMA PageIs ==
  ASSUME CatalogTypes, NEW from \in Nat
  PROVE  LET L == Catalog!Listed
             P == Catalog!PageLength
         IN /\ Catalog!Page(from) = Segment(L, Start(from), P)
            /\ Catalog!Beyond(from) <=> Cardinality(L) > Start(from) + P
            /\ Start(from) \in Nat
<1>1. \A r : Catalog!Before(r) = Rank(Catalog!Listed, r)
  BY CountIs DEF Catalog!Before, Rank
<1>2. Catalog!Page(from) = Segment(Catalog!Listed, Start(from), Catalog!PageLength)
  BY <1>1 DEF Catalog!Page, Segment, Start
<1>3. Catalog!Beyond(from)
        <=> Cardinality(Catalog!Listed) > Start(from) + Catalog!PageLength
  BY CountIs DEF Catalog!Beyond, Start
<1> QED  BY <1>2, <1>3 DEF Start

\* `since` is how the list that is read began.
Prefix(since) ==
  /\ since \subseteq Catalog!Listed
  /\ \A q \in since, r \in Catalog!Listed \ since : q < r

\* All rows of the first pages are among the rows gathered.
Gathered(since, from, merged) ==
  \A q \in since : Rank(since, q) < Start(from) + Catalog!PageLength => q \in merged

\* A page that is not full is the last one.
LEMMA ShortIsLast ==
  ASSUME CatalogTypes, NEW from \in Nat,
         Cardinality(Catalog!Page(from)) < Catalog!PageLength
  PROVE  \A z \in Catalog!Listed :
           Rank(Catalog!Listed, z) < Start(from) + Catalog!PageLength
<1> DEFINE L == Catalog!Listed
           P == Catalog!PageLength
<1>1. L \subseteq Nat /\ IsFiniteSet(L)
  BY ListedIs
<1>2. P \in Nat /\ Start(from) \in Nat
      /\ Catalog!Page(from) = Segment(L, Start(from), P)
  BY LengthIs, PageIs
<1>3. ASSUME NEW z \in L PROVE Rank(L, z) < Start(from) + P
  <2> HIDE DEF L, P
  <2>1. Cardinality(Segment(L, Start(from), P)) < P
    BY <1>2 DEF P
  <2>2. Cardinality(Segment(L, Start(from), P)) \in Nat
    BY <1>1, <1>2, SegmentBound
  <2>3. Rank(L, z) \in Nat
    BY <1>1, RankIs
  <2>4. ASSUME Rank(L, z) >= Start(from) + P PROVE FALSE
    <3>1. Cardinality(Segment(L, Start(from), P)) >= P
      BY <1>1, <1>2, <2>4, SegmentFull
    <3> QED  BY <1>2, <2>1, <2>2, <3>1
  <2> QED  BY <1>2, <2>3, <2>4
<1> QED  BY <1>3

LEMMA PrefixRank ==
  ASSUME CatalogTypes, NEW since, Prefix(since), NEW q \in since
  PROVE  /\ Rank(Catalog!Listed, q) = Rank(since, q)
         /\ Rank(since, q) \in Nat /\ q \in Catalog!Listed
<1>1. Catalog!Listed \subseteq Nat /\ IsFiniteSet(Catalog!Listed)
  BY ListedIs
<1>2. since \subseteq Nat /\ since \subseteq Catalog!Listed
  BY <1>1 DEF Prefix
<1>3. Rank(Catalog!Listed, q) = Rank(since, q)
  BY <1>1, <1>2, RankStays DEF Prefix
<1> QED  BY <1>1, <1>2, <1>3, RankIs

\* Where the list ends with the page, all that was listed at first is there.
LEMMA AllGathered ==
  ASSUME CatalogTypes, NEW since, Prefix(since), NEW from, NEW merged,
         Gathered(since, from, merged),
         \A z \in Catalog!Listed :
           Rank(Catalog!Listed, z) < Start(from) + Catalog!PageLength
  PROVE  since \subseteq merged
BY PrefixRank DEF Gathered

LEMMA NothingBeyond ==
  ASSUME CatalogTypes, NEW from \in Nat,
         Cardinality(Catalog!Listed) <= Start(from) + Catalog!PageLength
  PROVE  \A z \in Catalog!Listed :
           Rank(Catalog!Listed, z) < Start(from) + Catalog!PageLength
<1>1. /\ Catalog!Listed \subseteq Nat /\ IsFiniteSet(Catalog!Listed)
      /\ Cardinality(Catalog!Listed) \in Nat
  BY ListedIs
<1>2. Catalog!PageLength \in Nat /\ Start(from) \in Nat
  BY LengthIs, PageIs
<1>3. \A z \in Catalog!Listed :
        /\ Rank(Catalog!Listed, z) \in Nat
        /\ Rank(Catalog!Listed, z) < Cardinality(Catalog!Listed)
  BY <1>1, RankIs
<1> QED  BY <1>1, <1>2, <1>3

\* As many rows as are listed are the rows that are listed.
LEMMA CountedOut ==
  ASSUME CatalogTypes, NEW merged, merged \subseteq Catalog!Listed,
         Cardinality(merged) >= Cardinality(Catalog!Listed)
  PROVE  merged = Catalog!Listed
<1>1. IsFiniteSet(Catalog!Listed) /\ Cardinality(Catalog!Listed) \in Nat
  BY ListedIs
<1>2. /\ IsFiniteSet(merged) /\ Cardinality(merged) <= Cardinality(Catalog!Listed)
      /\ Cardinality(Catalog!Listed) = Cardinality(merged) => Catalog!Listed = merged
  BY <1>1, FS_Subset
<1>3. Cardinality(merged) \in Nat
  BY <1>2, FS_CardinalityType
<1> QED  BY <1>1, <1>2, <1>3

-----------------------------------------------------------------------------
(* The invariant of the reading                                            *)

\* What a reading has that asks for another page.
UnderWay(r) ==
  /\ shape.pager # "none" /\ r.page # {}
  /\ Gathered(r.since, r.from, r.merged)
  \* one that is deaf gave something new only because its first page was short
  /\ shape.deaf /\ r.from # 0 => r.since \subseteq r.merged
  \* the first page tells the size of a page, if the list has so many rows
  /\ r.first \in Nat /\ r.first <= Catalog!PageLength
  /\ r.first < Catalog!PageLength => r.since \subseteq r.merged

ReadingIs(r) ==
  /\ DOMAIN r = ReadFields
  /\ r.pc \in {"ask", "next", "failed", "read"}
  /\ Prefix(r.since)
  /\ ~Catalog!Searching => ask.meant \subseteq r.since
  /\ r.from \in Nat /\ r.fetched \in Nat /\ r.fetched <= MaxPages
  /\ r.merged \subseteq Catalog!Listed /\ r.page \subseteq Catalog!Listed
  /\ Cardinality(r.page) <= Catalog!PageLength
  /\ r.pc # "failed" => Cardinality(r.merged) <= MaxRecords
  /\ r.pc = "ask" => r.from = 0 /\ r.merged = {} /\ r.page = {} /\ r.fetched = 0
  /\ r.pc = "next" => UnderWay(r) /\ r.fetched < MaxPages
  /\ r.pc = "read" /\ Catalog!Tells => r.since \subseteq r.merged

AnswerIs ==
  /\ answer.status \in {"none", "listed", "NOT_FOUND", "OUT_OF_STOCK", "IN_STOCK"}
  /\ answer # Catalog!NoAnswer => read.pc = "read"
  /\ Catalog!AbsentMeansAbsent /\ Catalog!FamilyShown

CatalogInv == CatalogTypes /\ ReadingIs(read) /\ AnswerIs

\* HasNext says no only at the end of the list, if the provider tells enough.
LEMMA NoMore ==
  ASSUME CatalogTypes, NEW since, Prefix(since), NEW from \in Nat, NEW merged,
         merged \subseteq Catalog!Listed, NEW first,
         UnderWay([since |-> since, from |-> from, merged |-> merged,
                   first |-> first, page |-> Catalog!Page(from)]),
         Catalog!Tells,
         ~Catalog!MorePages(Catalog!Page(from), Catalog!Said(from), merged, from, first),
         "total" \in shape.tells => Cardinality(merged) >= Catalog!Said(from).total
  PROVE  since \subseteq merged
<1> DEFINE page == Catalog!Page(from)
           said == Catalog!Said(from)
           L == Catalog!Listed
           P == Catalog!PageLength
<1>1. /\ shape.pager # "none" /\ page # {} /\ Gathered(since, from, merged)
      /\ shape.deaf /\ from # 0 => since \subseteq merged
      /\ first \in Nat /\ first <= P
      /\ first < P => since \subseteq merged
  BY DEF UnderWay
<1>2. shape \in Shapes
  BY DEF CatalogTypes
<1>3. /\ said.more <=> Cardinality(L) > Start(from) + P
      /\ said.total = Cardinality(L)
      /\ Start(from) \in Nat /\ P \in Nat \ {0} /\ Cardinality(L) \in Nat
  BY PageIs, LengthIs, ListedIs, CountIs DEF Catalog!Said
<1>4. ASSUME ~said.more PROVE since \subseteq merged
  <2>1. Cardinality(L) <= Start(from) + P
    BY <1>3, <1>4
  <2> QED  BY <1>1, <2>1, NothingBeyond, AllGathered
<1>5. ASSUME "total" \in shape.tells PROVE since \subseteq merged
  <2>1. merged = L
    BY <1>3, <1>5, CountedOut
  <2> QED  BY <2>1 DEF Prefix
<1>6. ASSUME Cardinality(page) < P PROVE since \subseteq merged
  BY <1>1, <1>6, ShortIsLast, AllGathered
<1>7. CASE shape.pager = "cursor"
  <2>1. ~said.more
    BY <1>7 DEF Catalog!MorePages
  <2> QED  BY <1>4, <2>1
<1>8. CASE /\ shape.pager \in {"page", "offset"}
           /\ shape.pager = "page" /\ "pages" \in shape.tells
           /\ "total" \notin shape.tells /\ said.more
  <2>1. ~(from + P < said.total)
    BY <1>8 DEF Catalog!MorePages
  <2>2. CASE shape.deaf /\ from # 0
    BY <1>1, <2>2
  <2>3. CASE ~(shape.deaf /\ from # 0)
    <3>1. Start(from) = from
      BY <2>3 DEF Start
    <3>2. Cardinality(L) <= Start(from) + P
      BY <1>3, <2>1, <3>1
    <3> QED  BY <1>1, <3>2, NothingBeyond, AllGathered
  <2> QED  BY <2>2, <2>3
<1>9. CASE /\ shape.pager \in {"page", "offset"}
           /\ ~(shape.pager = "page" /\ "pages" \in shape.tells)
           /\ "total" \notin shape.tells /\ said.more
  <2> DEFINE n == IF shape.limited THEN Limit ELSE first
  <2>1. ~(Catalog!Cardinality(page) >= Catalog!Max({1, n}))
    BY <1>9, Zenon DEF Catalog!MorePages, Catalog!PageSize
  <2>2. n \in Nat
    BY <1>1, BoundsAre
  <2>3. page \subseteq L /\ IsFiniteSet(L)
    BY ListedIs DEF Catalog!Page
  <2>4. Cardinality(page) \in Nat /\ Cardinality(page) # 0
    BY <1>1, <2>3, FS_Subset, FS_CardinalityType, FS_EmptySet
  <2> HIDE DEF n, page
  <2>5. Cardinality(page) < n
    BY <2>1, <2>2, <2>4, CountIs, MinIs
  <2>6. CASE shape.limited
    <3>1. shape.cap >= Limit
      BY <1>9, <2>6 DEF Catalog!Tells
    <3>2. Cardinality(page) < P
      BY <2>5, <2>6, <3>1, LengthIs DEF n
    <3> QED  BY <1>6, <3>2
  <2>7. CASE ~shape.limited
    BY <1>1, <1>3, <1>6, <2>4, <2>5, <2>7 DEF n
  <2> QED  BY <2>6, <2>7
<1> QED
  BY <1>1, <1>2, <1>4, <1>5, <1>7, <1>8, <1>9 DEF Shapes, Catalog!Pagers

\* After a page the reading goes on, or it is complete, or it failed.
LEMMA SettledIs ==
  ASSUME CatalogTypes, NEW r, DOMAIN r = ReadFields,
         Prefix(r.since), ~Catalog!Searching => ask.meant \subseteq r.since,
         r.from \in Nat, r.fetched \in Nat, r.fetched <= MaxPages,
         r.merged \subseteq Catalog!Listed, r.page \subseteq Catalog!Listed,
         Cardinality(r.page) <= Catalog!PageLength,
         Cardinality(r.merged) <= MaxRecords,
         r.page # {} => UnderWay(r) /\ r.page = Catalog!Page(r.from)
                          /\ r.said = Catalog!Said(r.from),
         r.page = {} /\ Catalog!Tells => r.since \subseteq r.merged
  PROVE  ReadingIs(Catalog!Settled(r))
<1> DEFINE more == Catalog!HasNext(r.page, r.said, r.merged, r.from, r.first)
           w == Catalog!Settled(r)
<1>1. /\ DOMAIN w = ReadFields
      /\ w.from = r.from /\ w.page = r.page /\ w.merged = r.merged
      /\ w.fetched = r.fetched /\ w.first = r.first /\ w.since = r.since
      /\ w.pc \in {"next", "failed", "read"}
  BY DEF Catalog!Settled, ReadFields
<1>2. w.pc = "next" => r.page # {} /\ r.fetched < MaxPages
  BY DEF Catalog!Settled, ReadFields, Catalog!PagesLeft
<1>3. w.pc = "read" /\ r.page # {} =>
        /\ ~more
        /\ "total" \in shape.tells => Cardinality(r.merged) >= r.said.total
  <2>1. w.pc = "read" => ~Catalog!Unfinished(r)
    BY DEF Catalog!Settled, ReadFields
  <2> HIDE DEF w
  <2>2. "total" \in shape.tells /\ ~Catalog!Unfinished(r) =>
          ~(Cardinality(r.merged) < r.said.total)
    BY CountIs DEF Catalog!Unfinished
  <2>3. ~Catalog!Unfinished(r) => (r.page # {} => ~more)
    BY DEF Catalog!Unfinished
  <2>4. IsFiniteSet(Catalog!Listed) /\ Cardinality(Catalog!Listed) \in Nat
    BY ListedIs
  <2>5. Cardinality(r.merged) \in Nat
    BY <2>4, FS_Subset, FS_CardinalityType
  <2>6. r.page # {} => r.said.total \in Nat
    BY <2>4, CountIs DEF Catalog!Said
  <2> QED  BY <2>1, <2>2, <2>3, <2>5, <2>6
<1> HIDE DEF w
<1>4. UnderWay(r) => UnderWay(w)
  BY <1>1 DEF UnderWay
<1>5. ASSUME w.pc = "read", Catalog!Tells PROVE r.since \subseteq r.merged
  <2>1. CASE r.page = {}
    BY <1>5, <2>1
  <2>2. CASE r.page # {}
    <3>1. UnderWay([since |-> r.since, from |-> r.from, merged |-> r.merged,
                    first |-> r.first, page |-> Catalog!Page(r.from)])
      BY <2>2 DEF UnderWay
    <3>2. ~Catalog!MorePages(Catalog!Page(r.from), Catalog!Said(r.from), r.merged,
                             r.from, r.first)
      BY <1>3, <1>5, <2>2 DEF Catalog!HasNext
    <3> QED  BY <1>3, <1>5, <2>2, <3>1, <3>2, NoMore
  <2> QED  BY <2>1, <2>2
<1> QED  BY <1>1, <1>2, <1>4, <1>5 DEF ReadingIs, w

\* What is said of a reading depends on nothing but the provider and the list.
LEMMA SameList ==
  ASSUME UNCHANGED <<shape, ask, rows, pass>>
  PROVE  /\ Catalog!Listed' = Catalog!Listed
         /\ Catalog!PageLength' = Catalog!PageLength
         /\ Catalog!Searching' <=> Catalog!Searching
         /\ Catalog!Tells' <=> Catalog!Tells
<1>1. Catalog!Searching' <=> Catalog!Searching
  BY DEF Catalog!Searching
<1>2. Catalog!Listed' = Catalog!Listed
  BY <1>1 DEF Catalog!Listed
<1>3. Catalog!PageLength' = Catalog!PageLength
  BY DEF Catalog!PageLength
<1>4. Catalog!Tells' <=> Catalog!Tells
  BY <1>3, Zenon DEF Catalog!Tells
<1> QED  BY <1>1, <1>2, <1>3, <1>4

LEMMA SameReading ==
  ASSUME UNCHANGED <<shape, ask, rows, pass>>, ReadingIs(read')
  PROVE  ReadingIs(read)'
<1>1. Prefix(read'.since) => Prefix(read.since)'
  BY SameList DEF Prefix
<1>2. UnderWay(read') => UnderWay(read)'
  BY SameList DEF UnderWay, Gathered, Start
<1> QED  BY <1>1, <1>2, SameList DEF ReadingIs

LEMMA FreshIs ==
  ASSUME CatalogTypes, NEW since, since = Catalog!Listed
  PROVE  ReadingIs(Catalog!Fresh(since))
<1> DEFINE r == Catalog!Fresh(since)
<1>1. /\ DOMAIN r = ReadFields /\ r.pc = "ask" /\ r.from = 0 /\ r.page = {}
      /\ r.merged = {} /\ r.fetched = 0 /\ r.since = since
  BY DEF Catalog!Fresh, ReadFields
<1> HIDE DEF r
<1>2. Prefix(since)
  BY DEF Prefix
<1>3. ~Catalog!Searching => ask.meant \subseteq since
  BY ListedIs DEF CatalogTypes
<1>4. Cardinality({}) = 0 /\ MaxRecords \in Nat /\ MaxPages \in Nat
      /\ Catalog!PageLength \in Nat
  BY FS_EmptySet, BoundsAre, LengthIs
<1> QED  BY <1>1, <1>2, <1>3, <1>4 DEF ReadingIs, r

LEMMA PageFacts ==
  ASSUME CatalogTypes, NEW from \in Nat
  PROVE  LET page == Catalog!Page(from) IN
         /\ page \subseteq Catalog!Listed /\ IsFiniteSet(page)
         /\ Cardinality(page) \in Nat
         /\ Cardinality(page) <= Catalog!PageLength
         /\ \A z \in Catalog!Listed :
              z \in page <=>
                /\ Rank(Catalog!Listed, z) >= Start(from)
                /\ Rank(Catalog!Listed, z) < Start(from) + Catalog!PageLength
<1>1. /\ Catalog!Page(from) = Segment(Catalog!Listed, Start(from), Catalog!PageLength)
      /\ Start(from) \in Nat
  BY PageIs
<1>2. Catalog!PageLength \in Nat
  BY LengthIs
<1>3. Catalog!Listed \subseteq Nat /\ IsFiniteSet(Catalog!Listed)
  BY ListedIs
<1>4. Catalog!Page(from) \subseteq Catalog!Listed
  BY <1>1 DEF Segment
<1>5. \A z \in Catalog!Listed :
        z \in Segment(Catalog!Listed, Start(from), Catalog!PageLength) <=>
          /\ Rank(Catalog!Listed, z) >= Start(from)
          /\ Rank(Catalog!Listed, z) < Start(from) + Catalog!PageLength
  BY DEF Segment
<1> QED  BY <1>1, <1>2, <1>3, <1>4, <1>5, SegmentBound

LEMMA FirstPageStep ==
  ASSUME CatalogInv, Catalog!FirstPage
  PROVE  ReadingIs(read)'
<1> DEFINE page == Catalog!Page(0)
           said == Catalog!Said(0)
           r == [read EXCEPT !.page = page, !.said = said, !.merged = page,
                             !.fetched = 1, !.first = Catalog!Cardinality(page)]
           L == Catalog!Listed
           P == Catalog!PageLength
<1>1. /\ read.pc = "ask"
      /\ read' = IF Catalog!FirstRefused(page, said) THEN [r EXCEPT !.pc = "failed"]
                 ELSE IF page = {} \/ shape.pager = "none"
                 THEN [r EXCEPT !.pc = "read"]
                 ELSE Catalog!Settled(r)
      /\ UNCHANGED <<shape, ask, rows, pass, answer>>
  BY Zenon DEF Catalog!FirstPage
<1>2. CatalogTypes /\ ReadingIs(read)
  BY DEF CatalogInv
<1>3. /\ page \subseteq L /\ Cardinality(page) \in Nat /\ Cardinality(page) <= P
      /\ P \in Nat \ {0} /\ Start(0) = 0
      /\ MaxPages \in Nat \ {0} /\ MaxRecords \in Nat
      /\ Cardinality(L) \in Nat /\ IsFiniteSet(page)
  BY <1>2, PageFacts, LengthIs, BoundsAre, ListedIs DEF Start
<1>4. /\ said.more <=> Cardinality(L) > P
      /\ said.total = Cardinality(L)
  BY <1>2, <1>3, PageIs, CountIs DEF Catalog!Said
<1> HIDE DEF page, said
<1>5. /\ DOMAIN r = ReadFields
      /\ r.from = 0 /\ r.page = page /\ r.merged = page /\ r.said = said
      /\ r.fetched = 1 /\ r.first = Cardinality(page) /\ r.since = read.since
  BY <1>1, <1>2, CountIs DEF ReadingIs, ReadFields
<1> HIDE DEF r
<1>6. Prefix(r.since) /\ (~Catalog!Searching => ask.meant \subseteq r.since)
  BY <1>2, <1>5 DEF ReadingIs
<1>7. Gathered(r.since, 0, page)
  <2>1. ASSUME NEW q \in r.since, Rank(r.since, q) < Start(0) + P PROVE q \in page
    <3>1. Rank(L, q) = Rank(r.since, q) /\ Rank(r.since, q) \in Nat /\ q \in L
      BY <1>2, <1>6, PrefixRank
    <3> QED  BY <1>2, <1>3, <2>1, <3>1, PageFacts DEF page
  <2> QED  BY <2>1 DEF Gathered
<1>8. Cardinality(page) < P => r.since \subseteq page
  BY <1>2, <1>6, <1>7, ShortIsLast, AllGathered DEF page
<1>9. page = {} => Cardinality(page) < P
  BY <1>3, FS_EmptySet
<1>10. Cardinality(L) <= P => r.since \subseteq page
  BY <1>2, <1>3, <1>6, <1>7, NothingBeyond, AllGathered
<1>11. ReadingIs(read')
  <2>1. CASE Catalog!FirstRefused(page, said)
    <3> DEFINE w == [r EXCEPT !.pc = "failed"]
    <3>1. /\ DOMAIN w = ReadFields /\ w.pc = "failed" /\ w.from = 0
          /\ w.page = page /\ w.merged = page /\ w.fetched = 1
          /\ w.since = r.since
      BY <1>5 DEF ReadFields
    <3>2. read' = w
      BY <1>1, <2>1
    <3> HIDE DEF w
    <3> QED  BY <1>3, <1>6, <3>1, <3>2 DEF ReadingIs
  <2>2. CASE ~Catalog!FirstRefused(page, said) /\ (page = {} \/ shape.pager = "none")
    <3> DEFINE w == [r EXCEPT !.pc = "read"]
    <3>1. /\ DOMAIN w = ReadFields /\ w.pc = "read" /\ w.from = 0
          /\ w.page = page /\ w.merged = page /\ w.fetched = 1
          /\ w.since = r.since
      BY <1>5 DEF ReadFields
    <3>2. read' = w
      BY <1>1, <2>2
    <3> HIDE DEF w
    <3>3. Cardinality(page) <= MaxRecords
      BY <1>3, <2>2, CountIs DEF Catalog!FirstRefused
    <3>4. ASSUME Catalog!Tells PROVE r.since \subseteq page
      <4>1. CASE page = {}
        BY <1>8, <1>9, <4>1
      <4>2. CASE page # {} /\ shape.pager = "none"
        <5>1. ~(Catalog!Total(said) > Cardinality(page))
              /\ ~("hasMore" \in shape.tells /\ said.more)
          BY <2>2, <4>2, CountIs DEF Catalog!FirstRefused
        <5>2. CASE "total" \in shape.tells
          <6>1. Cardinality(page) >= Cardinality(L)
            BY <1>3, <1>4, <5>1, <5>2 DEF Catalog!Total
          <6>2. page = L
            BY <1>2, <1>3, <6>1, CountedOut
          <6> QED  BY <1>6, <6>2 DEF Prefix
        <5>3. CASE "hasMore" \in shape.tells
          BY <1>3, <1>4, <1>10, <5>1, <5>3
        <5>4. CASE P >= MaxRows
          BY <1>2, <1>3, <1>10, <5>4, ListedIs, BoundsAre
        <5> QED  BY <3>4, <4>2, <5>2, <5>3, <5>4 DEF Catalog!Tells
      <4> QED  BY <2>2, <4>1, <4>2
    <3> QED  BY <1>3, <1>6, <3>1, <3>2, <3>3, <3>4 DEF ReadingIs
  <2>3. CASE ~Catalog!FirstRefused(page, said) /\ ~(page = {} \/ shape.pager = "none")
    <3>1. read' = Catalog!Settled(r)
      BY <1>1, <2>3
    <3>2. Cardinality(page) <= MaxRecords
      BY <1>3, <2>3, CountIs DEF Catalog!FirstRefused
    <3>3. UnderWay(r)
      BY <1>3, <1>5, <1>7, <1>8, <2>3 DEF UnderWay
    <3>4. r.page = Catalog!Page(r.from) /\ r.said = Catalog!Said(r.from)
      BY <1>5 DEF page, said
    <3>5. ReadingIs(Catalog!Settled(r))
      BY <1>2, <1>3, <1>5, <1>6, <2>3, <3>2, <3>3, <3>4, SettledIs
    <3> QED  BY <3>1, <3>5
  <2> QED  BY <2>1, <2>2, <2>3
<1> QED  BY <1>1, <1>11, SameReading

LEMMA NextPageStep ==
  ASSUME CatalogInv, Catalog!NextPage
  PROVE  ReadingIs(read)'
<1> DEFINE from == IF shape.pager = "offset"
                   THEN read.from + Catalog!Cardinality(read.page)
                   ELSE read.from + Catalog!PageLength
           page == Catalog!Page(from)
           said == Catalog!Said(from)
           L == Catalog!Listed
           P == Catalog!PageLength
           r == [read EXCEPT !.fetched = @ + 1]
<1>1. /\ read.pc = "next"
      /\ read' = IF Catalog!PageRefused(page, said) THEN [r EXCEPT !.pc = "failed"]
                 ELSE IF page = {} THEN Catalog!Settled([r EXCEPT !.page = {}])
                 ELSE Catalog!Settled([r EXCEPT !.from = from, !.page = page,
                                 !.said = said, !.merged = @ \cup page])
      /\ UNCHANGED <<shape, ask, rows, pass, answer>>
  BY Zenon DEF Catalog!NextPage
<1>2. CatalogTypes /\ ReadingIs(read) /\ UnderWay(read) /\ read.fetched < MaxPages
  BY <1>1 DEF CatalogInv, ReadingIs
<1>3. /\ L \subseteq Nat /\ IsFiniteSet(L) /\ P \in Nat \ {0}
      /\ MaxPages \in Nat /\ MaxRecords \in Nat
  BY <1>2, ListedIs, LengthIs, BoundsAre
<1>4. /\ read.page \subseteq L /\ Cardinality(read.page) <= P /\ read.from \in Nat
      /\ read.merged \subseteq L /\ Cardinality(read.merged) <= MaxRecords
      /\ Prefix(read.since) /\ read.fetched \in Nat
      /\ (~Catalog!Searching => ask.meant \subseteq read.since)
  BY <1>1, <1>2 DEF ReadingIs
<1>5. Cardinality(read.page) \in Nat /\ Cardinality(read.page) # 0
  BY <1>2, <1>3, <1>4, FS_Subset, FS_CardinalityType, FS_EmptySet DEF UnderWay
<1>6. from \in Nat /\ from # 0 /\ from <= read.from + P
  BY <1>3, <1>4, <1>5, CountIs
<1> HIDE DEF from
<1>7. /\ page \subseteq L /\ Cardinality(page) \in Nat /\ Cardinality(page) <= P
      /\ Start(from) \in Nat /\ Start(read.from) \in Nat
      /\ \A z \in L : z \in page <=> /\ Rank(L, z) >= Start(from)
                                    /\ Rank(L, z) < Start(from) + P
  BY <1>2, <1>4, <1>6, PageFacts DEF Start
<1>8. \A q \in read.since : /\ Rank(L, q) = Rank(read.since, q)
                            /\ Rank(L, q) \in Nat /\ q \in L
  BY <1>2, <1>4, PrefixRank
<1>9. Gathered(read.since, read.from, read.merged)
  BY <1>2 DEF UnderWay
<1>10. Start(from) <= Start(read.from) + P
  BY <1>3, <1>6 DEF Start
<1> HIDE DEF page, said
<1>11. /\ DOMAIN r = ReadFields
       /\ r.from = read.from /\ r.page = read.page /\ r.merged = read.merged
       /\ r.said = read.said /\ r.fetched = read.fetched + 1
       /\ r.first = read.first /\ r.since = read.since /\ r.pc = read.pc
  BY <1>2 DEF ReadingIs, ReadFields
<1> HIDE DEF r
<1>12. CASE Catalog!PageRefused(page, said)
  <2> DEFINE w == [r EXCEPT !.pc = "failed"]
  <2>1. /\ DOMAIN w = ReadFields /\ w.pc = "failed" /\ w.from = read.from
        /\ w.page = read.page /\ w.merged = read.merged
        /\ w.fetched = read.fetched + 1 /\ w.since = read.since
    BY <1>11 DEF ReadFields
  <2>2. read' = w
    BY <1>1, <1>12
  <2> HIDE DEF w
  <2>3. ReadingIs(read')
    BY <1>2, <1>3, <1>4, <2>1, <2>2 DEF ReadingIs
  <2> QED  BY <1>1, <2>3, SameReading
<1>13. CASE ~Catalog!PageRefused(page, said) /\ page = {}
  <2> DEFINE w == [r EXCEPT !.page = {}]
  <2>1. /\ DOMAIN w = ReadFields /\ w.from = read.from
        /\ w.page = {} /\ w.merged = read.merged
        /\ w.fetched = read.fetched + 1 /\ w.since = read.since
    BY <1>11 DEF ReadFields
  <2>2. read' = Catalog!Settled(w)
    BY <1>1, <1>13
  <2> HIDE DEF w
  <2>3. \A z \in L : Rank(L, z) < Start(from) + P
    <3>1. Cardinality(page) < P
      BY <1>3, <1>13, FS_EmptySet
    <3> QED  BY <1>2, <1>6, <3>1, ShortIsLast DEF page
  <2>4. read.since \subseteq read.merged
    <3>1. ASSUME NEW q \in read.since PROVE Rank(read.since, q) < Start(read.from) + P
      BY <1>3, <1>7, <1>8, <1>10, <1>13, <2>3
    <3> QED  BY <1>9, <3>1 DEF Gathered
  <2>5. Cardinality({}) = 0
    BY FS_EmptySet
  <2>6. ReadingIs(Catalog!Settled(w))
    BY <1>2, <1>3, <1>4, <2>1, <2>4, <2>5, SettledIs
  <2> QED  BY <1>1, <2>2, <2>6, SameReading
<1>14. CASE ~Catalog!PageRefused(page, said) /\ page # {}
  <2> DEFINE all == read.merged \cup page
             w == [r EXCEPT !.from = from, !.page = page, !.said = said,
                            !.merged = @ \cup page]
  <2>1. /\ DOMAIN w = ReadFields /\ w.from = from
        /\ w.page = page /\ w.merged = all /\ w.said = said
        /\ w.fetched = read.fetched + 1 /\ w.since = read.since
        /\ w.first = read.first
    BY <1>11 DEF ReadFields
  <2>2. read' = Catalog!Settled(w)
    BY <1>1, <1>14
  <2> HIDE DEF w
  <2>3. ~(page \subseteq read.merged) /\ ~(Cardinality(all) > MaxRecords)
    BY <1>14, CountIs DEF Catalog!PageRefused
  <2>4. all \subseteq L
    BY <1>4, <1>7
  <2>5. Cardinality(all) <= MaxRecords
    <3>1. Cardinality(all) \in Nat
      BY <1>3, <2>4, FS_Subset, FS_CardinalityType
    <3> QED  BY <1>3, <2>3, <3>1
  <2>6. Gathered(read.since, from, all)
    <3>1. ASSUME NEW q \in read.since, Rank(read.since, q) < Start(from) + P
          PROVE  q \in all
      <4>1. CASE Rank(read.since, q) < Start(read.from) + P
        BY <1>9, <4>1 DEF Gathered
      <4>2. CASE Rank(read.since, q) >= Start(read.from) + P
        <5>1. Rank(L, q) >= Start(from) /\ Rank(L, q) < Start(from) + P /\ q \in L
          BY <1>3, <1>7, <1>8, <1>10, <3>1, <4>2
        <5> QED  BY <1>7, <5>1
      <4> QED  BY <1>3, <1>7, <1>8, <4>1, <4>2
    <3> QED  BY <3>1 DEF Gathered
  <2>7. shape.deaf => read.since \subseteq all
    <3> SUFFICES ASSUME shape.deaf, NEW q \in read.since PROVE q \in read.merged
      OBVIOUS
    <3>1. PICK z \in page : z \notin read.merged
      BY <2>3
    <3>2. z \in L /\ Rank(L, z) \in Nat /\ Rank(L, z) < P
      <4>1. Start(from) = 0
        BY DEF Start
      <4>2. z \in L
        BY <1>7
      <4>3. Rank(L, z) \in Nat
        BY <1>3, <4>2, RankIs
      <4> QED  BY <1>3, <1>7, <4>1, <4>2, <4>3
    <3>3. \A x \in read.since : Rank(L, x) < P => x \in read.merged
      BY <1>3, <1>8, <1>9 DEF Gathered, Start
    <3>4. z \notin read.since
      BY <3>1, <3>2, <3>3
    <3>5. q < z
      BY <1>4, <3>2, <3>4 DEF Prefix
    <3>6. Rank(L, q) < Rank(L, z)
      BY <1>3, <1>8, <3>2, <3>5, RankIs
    <3>7. Rank(L, q) < P
      BY <1>3, <1>8, <3>2, <3>6
    <3> QED  BY <3>3, <3>7
  <2>8. UnderWay(w)
    BY <1>2, <1>14, <2>1, <2>6, <2>7 DEF UnderWay
  <2>9. w.page = Catalog!Page(w.from) /\ w.said = Catalog!Said(w.from)
    BY <2>1 DEF page, said
  <2>10. ReadingIs(Catalog!Settled(w))
    <3>1. /\ Prefix(w.since) /\ (~Catalog!Searching => ask.meant \subseteq w.since)
          /\ w.from \in Nat /\ w.fetched \in Nat /\ w.fetched <= MaxPages
          /\ w.merged \subseteq L /\ w.page \subseteq L /\ Cardinality(w.page) <= P
          /\ Cardinality(w.merged) <= MaxRecords /\ w.page # {}
      BY <1>2, <1>3, <1>4, <1>6, <1>7, <1>14, <2>1, <2>4, <2>5
    <3> QED  BY <1>2, <2>1, <2>8, <2>9, <3>1, SettledIs
  <2> QED  BY <1>1, <2>2, <2>10, SameReading
<1> QED  BY <1>12, <1>13, <1>14

LEMMA NoAnswerYet ==
  ASSUME AnswerIs, read.pc # "read", UNCHANGED answer
  PROVE  AnswerIs'
<1>1. answer' = Catalog!NoAnswer
  BY DEF AnswerIs
<1>2. answer'.status = "none"
  BY <1>1 DEF Catalog!NoAnswer
<1> QED
  BY <1>1, <1>2 DEF AnswerIs, Catalog!AbsentMeansAbsent, Catalog!FamilyShown

LEMMA GrowsStep ==
  ASSUME CatalogInv, Catalog!Grows
  PROVE  CatalogTypes' /\ ReadingIs(read)'
<1>1. /\ read.pc \in {"ask", "next"} /\ rows < MaxRows /\ rows' = rows + 1
      /\ UNCHANGED <<shape, ask, pass, read, answer>>
  BY DEF Catalog!Grows
<1>2. CatalogTypes /\ ReadingIs(read) /\ rows \in Nat /\ MaxRows \in Nat
  BY BoundsAre DEF CatalogInv, CatalogTypes
<1>3. CatalogTypes'
  <2>1. rows' \in 0..MaxRows /\ 1..rows \subseteq 1..rows'
    BY <1>1, <1>2
  <2> QED  BY <1>1, <1>2, <2>1 DEF CatalogTypes
<1>4. (Catalog!Searching' <=> Catalog!Searching)
      /\ Catalog!PageLength' = Catalog!PageLength
  BY <1>1 DEF Catalog!Searching, Catalog!PageLength
<1>5. /\ Catalog!Listed \subseteq Catalog!Listed'
      /\ \A z \in Catalog!Listed' \ Catalog!Listed : z = rows + 1
  BY <1>1, <1>2, <1>4 DEF Catalog!Listed
<1>6. \A q \in Catalog!Listed : q < rows + 1
  BY <1>2, ListedIs
<1>7. Prefix(read.since)'
  <2>1. read.since \subseteq Catalog!Listed
        /\ \A q \in read.since, z \in Catalog!Listed \ read.since : q < z
    BY <1>2 DEF ReadingIs, Prefix
  <2> QED  BY <1>1, <1>5, <1>6, <2>1 DEF Prefix
<1>8. UnderWay(read) => UnderWay(read)'
  BY <1>1, <1>4 DEF UnderWay, Gathered, Start
<1>9. ReadingIs(read)'
  BY <1>1, <1>2, <1>4, <1>5, <1>7, <1>8 DEF ReadingIs
<1> QED  BY <1>3, <1>9

LEMMA ReadMoreStep ==
  ASSUME CatalogInv, Catalog!ReadMore
  PROVE  CatalogTypes' /\ ReadingIs(read)' /\ AnswerIs'
<1>1. /\ answer = Catalog!NoAnswer
      /\ pass' \in {"full", "again"} /\ read' = Catalog!Fresh(1..rows)
      /\ UNCHANGED <<shape, ask, rows, answer>>
  BY DEF Catalog!ReadMore
<1>2. CatalogTypes'
  BY <1>1 DEF CatalogInv, CatalogTypes
<1>3. ~Catalog!Searching'
  BY <1>1 DEF Catalog!Searching
<1>4. Catalog!Listed' = 1..rows
  BY <1>1, <1>3 DEF Catalog!Listed
<1>5. /\ DOMAIN read' = ReadFields /\ read'.pc = "ask" /\ read'.from = 0
      /\ read'.page = {} /\ read'.merged = {} /\ read'.fetched = 0
      /\ read'.since = 1..rows
  BY <1>1 DEF Catalog!Fresh, ReadFields
<1>6. ReadingIs(read)'
  <2>1. Prefix(read.since)'
    BY <1>4, <1>5 DEF Prefix
  <2>2. ask'.meant \subseteq read'.since
    BY <1>1, <1>5 DEF CatalogInv, CatalogTypes
  <2>3. Cardinality({}) = 0 /\ MaxRecords \in Nat /\ MaxPages \in Nat
        /\ Catalog!PageLength \in Nat
    BY FS_EmptySet, BoundsAre, LengthIs DEF CatalogInv
  <2>4. Catalog!PageLength' = Catalog!PageLength
    BY <1>1 DEF Catalog!PageLength
  <2> QED  BY <1>5, <2>1, <2>2, <2>3, <2>4 DEF ReadingIs
<1>7. answer'.status = "none"
  BY <1>1 DEF Catalog!NoAnswer
<1>8. AnswerIs'
  BY <1>1, <1>7 DEF AnswerIs, Catalog!AbsentMeansAbsent, Catalog!FamilyShown
<1> QED  BY <1>2, <1>6, <1>8

LEMMA AnswerStep ==
  ASSUME CatalogInv, Catalog!Answer
  PROVE  AnswerIs'
<1>1. /\ read.pc = "read" /\ ~Catalog!ReadFull /\ ~Catalog!ReadAgain
      /\ UNCHANGED <<shape, ask, rows, pass, read>>
  BY DEF Catalog!Answer
<1>2. /\ answer'.status = IF ask.words = "none" THEN "listed"
                          ELSE IF Catalog!Ranked = {} THEN "NOT_FOUND"
                          ELSE IF Catalog!InStock = {} THEN "OUT_OF_STOCK"
                          ELSE "IN_STOCK"
      /\ answer'.items = Catalog!InStock
      /\ answer'.raw = read.merged \cap ask.opaque
  BY DEF Catalog!Answer
<1>3. Catalog!Tells /\ ~Catalog!Searching => ask.meant \subseteq read.merged
  BY <1>1 DEF CatalogInv, ReadingIs
<1>4. ask.words # "none" =>
        Catalog!Ranked = (read.merged \ ask.opaque) \cap ask.meant
  BY DEF Catalog!Ranked, Catalog!Named
<1>5. Catalog!InStock = Catalog!Ranked \cap ask.stocked
  BY DEF Catalog!InStock
<1>6. Catalog!Tells' <=> Catalog!Tells
  BY <1>1, SameList
<1>7. Catalog!AbsentMeansAbsent'
  <2> SUFFICES ASSUME answer'.status \in {"NOT_FOUND", "OUT_OF_STOCK"}, Catalog!Tells
               PROVE  ask.meant \cap ask.stocked \subseteq answer'.raw
    BY <1>1, <1>6 DEF Catalog!AbsentMeansAbsent
  <2>1. ask.words # "none" /\ Catalog!InStock = {}
    BY <1>2, <1>5
  <2>2. ~Catalog!Searching
    <3> SUFFICES ASSUME Catalog!Searching PROVE FALSE
      OBVIOUS
    <3>1. pass = "first" /\ ~Catalog!Broad
      BY <1>1 DEF Catalog!Searching, Catalog!ReadFull
    <3>2. read.merged # {}
      BY <2>1, <3>1 DEF Catalog!Broad
    <3>3. Catalog!Doubtful
      BY <1>1, <2>1, <3>1, <3>2 DEF Catalog!Doubtful
    <3> QED  BY <1>1, <3>3 DEF Catalog!ReadAgain
  <2> QED  BY <1>2, <1>3, <1>4, <1>5, <2>1, <2>2
<1>8. Catalog!FamilyShown'
  <2> SUFFICES ASSUME ask.words = "family", Catalog!Tells
               PROVE  ask.meant \cap ask.stocked \subseteq answer'.items \cup answer'.raw
    BY <1>1, <1>6 DEF Catalog!FamilyShown
  <2>1. ~Catalog!Searching
    BY <1>1 DEF Catalog!ReadFull, Catalog!Broad, Catalog!Searching
  <2> QED  BY <1>2, <1>3, <1>4, <1>5, <2>1
<1>9. answer'.status \in {"none", "listed", "NOT_FOUND", "OUT_OF_STOCK", "IN_STOCK"}
  BY <1>2
<1> QED  BY <1>1, <1>7, <1>8, <1>9 DEF AnswerIs

LEMMA CatalogStarts == Catalog!Init => CatalogInv
<1> SUFFICES ASSUME Catalog!Init PROVE CatalogInv
  OBVIOUS
<1>1. PICK c \in Cases : shape = c.shape /\ ask = c.ask /\ rows = c.rows
  BY DEF Catalog!Init
<1>2. pass = "first" /\ read = Catalog!Fresh(Catalog!Listed)
      /\ answer = Catalog!NoAnswer
  BY DEF Catalog!Init
<1>3. CatalogTypes
  BY <1>1, <1>2, CatalogAssumption
  DEF CatalogTypes, Shapes, Catalog!BitoReadAssumption
<1>4. ReadingIs(read)
  BY <1>2, <1>3, FreshIs
<1>5. answer.status = "none"
  BY <1>2 DEF Catalog!NoAnswer
<1> QED
  BY <1>2, <1>3, <1>4, <1>5
  DEF CatalogInv, AnswerIs, Catalog!AbsentMeansAbsent, Catalog!FamilyShown

LEMMA CatalogSteps == CatalogInv /\ [Catalog!Next]_catalog => CatalogInv'
<1> SUFFICES ASSUME CatalogInv, [Catalog!Next]_catalog PROVE CatalogInv'
  OBVIOUS
<1>0. CatalogTypes /\ ReadingIs(read) /\ AnswerIs
  BY DEF CatalogInv
<1>1. ASSUME UNCHANGED <<shape, ask, rows, pass>> PROVE CatalogTypes'
  BY <1>0, <1>1 DEF CatalogTypes
<1>2. CASE Catalog!FirstPage
  <2>1. UNCHANGED <<shape, ask, rows, pass, answer>> /\ read.pc = "ask"
    BY <1>2 DEF Catalog!FirstPage
  <2> QED  BY <1>0, <1>1, <1>2, <2>1, FirstPageStep, NoAnswerYet DEF CatalogInv
<1>3. CASE Catalog!NextPage
  <2>1. UNCHANGED <<shape, ask, rows, pass, answer>> /\ read.pc = "next"
    BY <1>3 DEF Catalog!NextPage
  <2> QED  BY <1>0, <1>1, <1>3, <2>1, NextPageStep, NoAnswerYet DEF CatalogInv
<1>4. CASE Catalog!CallFails
  <2> DEFINE w == [read EXCEPT !.pc = "failed"]
  <2>1. UNCHANGED <<shape, ask, rows, pass, answer>> /\ read.pc # "read"
        /\ read' = w
    BY <1>4 DEF Catalog!CallFails
  <2>2. /\ DOMAIN w = ReadFields /\ w.pc = "failed" /\ w.from = read.from
        /\ w.page = read.page /\ w.merged = read.merged
        /\ w.fetched = read.fetched /\ w.since = read.since
    BY <1>0 DEF ReadingIs, ReadFields
  <2> HIDE DEF w
  <2>3. ReadingIs(read')
    BY <1>0, <2>1, <2>2 DEF ReadingIs
  <2> QED  BY <1>0, <1>1, <2>1, <2>3, SameReading, NoAnswerYet DEF CatalogInv
<1>5. CASE Catalog!Grows
  <2>1. UNCHANGED answer /\ read.pc # "read"
    BY <1>5 DEF Catalog!Grows
  <2> QED  BY <1>0, <1>5, <2>1, GrowsStep, NoAnswerYet DEF CatalogInv
<1>6. CASE Catalog!ReadMore
  BY <1>6, ReadMoreStep DEF CatalogInv
<1>7. CASE Catalog!Answer
  <2>1. UNCHANGED <<shape, ask, rows, pass, read>>
    BY <1>7 DEF Catalog!Answer
  <2>2. ReadingIs(read')
    BY <1>0, <2>1
  <2> QED  BY <1>1, <1>7, <2>1, <2>2, SameReading, AnswerStep DEF CatalogInv
<1>8. CASE UNCHANGED catalog
  <2>1. UNCHANGED <<shape, ask, rows, pass, read, answer>>
    BY <1>8 DEF catalog
  <2>2. ReadingIs(read')
    BY <1>0, <2>1
  <2>3. AnswerIs'
    BY <1>0, <2>1, SameList DEF AnswerIs, Catalog!AbsentMeansAbsent, Catalog!FamilyShown
  <2> QED  BY <1>1, <2>1, <2>2, <2>3, SameReading DEF CatalogInv
<1> QED
  BY <1>2, <1>3, <1>4, <1>5, <1>6, <1>7, <1>8 DEF Catalog!Next, Catalog!vars, catalog

LEMMA CatalogHolds == CatalogInv => ReadKept
<1> SUFFICES ASSUME CatalogInv PROVE ReadKept
  OBVIOUS
<1>1. Catalog!CompleteOrFails
  BY DEF CatalogInv, ReadingIs, Catalog!CompleteOrFails
<1>2. Catalog!TypeOK
  BY CountIs DEF CatalogInv, CatalogTypes, Shapes, ReadingIs, AnswerIs, Catalog!TypeOK
<1> QED  BY <1>1, <1>2 DEF ReadKept, CatalogInv, AnswerIs

LEMMA OfCatalog == [MCNext]_<<part, vars, catalog, chat>> => [Catalog!Next]_catalog
BY DEF MCNext

\* A reading of the ERP's list that does not fail has every row that was
\* listed when it began, and a customer is told that there is none only if
\* none is in stock (executeReadAllPages, getFullInventorySnapshot).
THEOREM ReadAlwaysKept == MCSpec => []ReadKept
<1>1. MCInit => CatalogInv
  BY CatalogStarts DEF MCInit
<1>2. CatalogInv /\ [MCNext]_<<part, vars, catalog, chat>> => CatalogInv'
  BY OfCatalog, CatalogSteps
<1> QED  BY <1>1, <1>2, CatalogHolds, PTL DEF MCSpec

-----------------------------------------------------------------------------
(* The chats the agent stays out of                                        *)

Turns == [pc : {"idle", "gate", "read", "hear", "classify", "ensure", "mark",
                "chat", "failed", "refused", "send", "post", "return", "finish"},
          known : BOOLEAN,
          what : {"nothing", "answer", "canned", "fallback", "refusal"},
          post : Nat, said : Nat, since : Nat, erred : BOOLEAN, during : Nat]
Letters == [by : {"nobody", "agent", "owner"},
            step : {"none", "sent", "read", "write", "done", "ignored"},
            mine : Nat, until : Nat, at : Nat, back : Nat, orphan : BOOLEAN]

ChatTypes ==
  /\ now \in Nat /\ now <= MaxTime
  /\ thread \in Threads
  /\ session \in [made : BOOLEAN, pause : Nat] /\ session.pause <= now + Pause
  /\ pausedTo \in Nat /\ pausedTo <= now + Pause
  /\ sendingTo \in Nat /\ sendingTo <= now + InFlight
  /\ reply \in Turns
  /\ reply.post <= MaxPosts /\ reply.since <= now
  /\ posts \in [Chat!Posts -> Letters]
  /\ owner \in [until : Nat, held : BOOLEAN, kept : BOOLEAN]
  /\ owner.until <= now + Pause
  /\ left \in [turns : Nat, faults : Nat, restarts : Nat, owner : Nat]
  /\ Chat!MadePosts = 1..Cardinality(Chat!MadePosts)

\* How much a turn has said at each of its steps.
TurnSays ==
  /\ reply.pc = "idle" => reply = Chat!Idle
  /\ reply.pc \in {"gate", "read", "hear", "classify", "ensure", "mark", "chat",
                   "refused"} => reply.said = 0
  /\ reply.pc = "failed" => reply.erred /\ reply.said <= 1
  /\ reply.pc \in {"send", "post"} =>
       IF reply.what = "fallback" THEN reply.erred /\ reply.said <= 1
       ELSE reply.said = 0
  /\ reply.pc = "return" =>
       IF reply.what = "fallback" THEN reply.erred /\ reply.said <= 2
       ELSE reply.said = 1
  /\ reply.pc = "finish" => reply.said = 1

\* The agent has nothing to do with a saved contact who is no customer.
ContactsAlone ==
  /\ ~thread.customer /\ ~session.made => session.pause = 0
  /\ Chat!Telegram /\ thread.contact /\ ~thread.customer =>
       /\ ~session.made /\ ~reply.known
       /\ reply.pc \in {"idle", "gate", "read", "failed", "refused"}
       /\ \A p \in Chat!Posts : posts[p].by # "agent"

\* A turn that the takeover keeps from saying anything but a refusal.
Silenced ==
  \/ reply.pc \in {"idle", "gate", "read", "refused"}
  \/ reply.pc = "failed" /\ ~reply.known
  \/ reply.pc \in {"send", "post", "return"} /\ reply.what = "refusal"

\* Where a takeover that lasts can be found: in the map, in the row, and in
\* the turn that began in it.
Takeover ==
  /\ owner.held => pausedTo = owner.until
  /\ owner.kept => /\ session.made /\ session.pause = owner.until
                   /\ Chat!Handling = {} /\ Silenced
  /\ owner.held \/ owner.kept => owner.until > now
  /\ owner.until # 0 => owner.until > now
  /\ \A p \in Chat!Posts : posts[p].step \in {"read", "write"} =>
       posts[p].until > 0 /\ posts[p].until <= now + Pause
  /\ Chat!Telegram /\ reply.pc \in {"gate", "read"} => ~reply.known
  /\ reply.during # 0 =>
       /\ Silenced
       /\ reply.during > now /\ reply.during <= now + Pause
       /\ reply.pc = "read" =>
            /\ session.made /\ session.pause >= reply.during
            /\ \A p \in Chat!Posts : posts[p].step \in {"read", "write"} =>
                 posts[p].until >= reply.during
  /\ ~Chat!Telegram =>
       /\ owner.until = 0 /\ ~owner.held /\ ~owner.kept /\ reply.during = 0
       /\ \A p \in Chat!Posts : posts[p].step \in {"none", "done"}

\* What tells an own message from the owner's: the send under way, and the
\* entry of its id after it.
OwnMessages ==
  /\ sendingTo # 0 => reply.pc \in {"post", "return"}
  /\ Chat!Telegram /\ reply.pc \in {"post", "return"} =>
       (now < reply.since + InFlight => sendingTo = reply.since + InFlight)
  /\ reply.pc = "return" =>
       reply.post \in Chat!Posts /\ posts[reply.post].by = "agent"
  /\ \A p \in Chat!Posts :
       posts[p].by = "agent" /\ posts[p].step = "sent" /\ ~posts[p].orphan =>
         \/ reply.pc = "return" /\ reply.post = p /\ posts[p].at = reply.since
              /\ posts[p].back = 0
         \/ /\ posts[p].at <= posts[p].back /\ posts[p].back <= now
            /\ now < posts[p].back + Track => posts[p].mine = posts[p].back + Track

ChatInv ==
  ChatTypes /\ TurnSays /\ ContactsAlone /\ Takeover /\ OwnMessages

LEMMA ChatCountIs == \A S : Chat!Cardinality(S) = Cardinality(S)
BY DEF Chat!Cardinality, Cardinality

LEMMA ChatBoundsAre ==
  /\ MaxTime \in Nat /\ MaxPosts \in Nat
  /\ InFlight \in Nat \ {0} /\ Track \in Nat \ {0} /\ Pause \in Nat \ {0}
  /\ InFlight <= Track
  /\ Threads \subseteq Chat!Thread
  /\ ThreadBounds \subseteq [turns : Nat, faults : Nat, restarts : Nat, owner : Nat]
BY ChatAssumption DEF Chat!CustomerThreadAssumption

LEMMA ChatHolds == ChatInv =>
  (part = "chat" => Chat!TypeOK /\ Chat!OneMessagePerTurn /\ Chat!ContactsLeftAlone)
<1> SUFFICES ASSUME ChatInv
             PROVE  Chat!TypeOK /\ Chat!OneMessagePerTurn /\ Chat!ContactsLeftAlone
  OBVIOUS
<1>1. now \in 0..MaxTime /\ session \in [made : BOOLEAN, pause : 0..(MaxTime + Pause)]
      /\ pausedTo \in 0..(MaxTime + Pause) /\ sendingTo \in 0..(MaxTime + InFlight)
  BY ChatBoundsAre DEF ChatInv, ChatTypes
<1>2. reply.post \in Chat!Posts \cup {Chat!None}
  BY ChatBoundsAre DEF ChatInv, ChatTypes, Turns, Chat!Posts, Chat!None
<1>3. reply.pc = "idle" <=> reply = Chat!Idle
  BY DEF ChatInv, TurnSays, Chat!Idle
<1>4. Chat!TypeOK
  BY <1>1, <1>2, <1>3, ChatCountIs DEF ChatInv, ChatTypes, ContactsAlone, Chat!TypeOK
<1>5. Chat!OneMessagePerTurn
  BY DEF ChatInv, ChatTypes, Turns, TurnSays, Chat!OneMessagePerTurn, Chat!Idle
<1>6. Chat!ContactsLeftAlone
  BY DEF ChatInv, ContactsAlone, Chat!ContactsLeftAlone
<1> QED  BY <1>4, <1>5, <1>6

LEMMA ChatStarts == Chat!Init => ChatInv
<1> SUFFICES ASSUME Chat!Init PROVE ChatInv
  OBVIOUS
<1>1. /\ now = 0 /\ thread \in Threads /\ pausedTo = 0 /\ sendingTo = 0
      /\ session = [made |-> thread.customer, pause |-> 0]
      /\ reply = Chat!Idle /\ owner = Chat!NoTakeover /\ left \in ThreadBounds
      /\ posts = [p \in Chat!Posts |-> Chat!NoPost]
  BY DEF Chat!Init
<1>2. Chat!MadePosts = {}
  BY <1>1 DEF Chat!MadePosts, Chat!NoPost
<1>3. Cardinality(Chat!MadePosts) = 0 /\ 1..0 = {}
  BY <1>2, FS_EmptySet
<1>4. Chat!NoPost \in Letters /\ Chat!Idle \in Turns
  BY DEF Chat!NoPost, Letters, Chat!Idle, Turns, Chat!None
<1>5. posts \in [Chat!Posts -> Letters]
      /\ \A p \in Chat!Posts : posts[p].by = "nobody" /\ posts[p].step = "none"
  BY <1>1, <1>4 DEF Chat!NoPost
<1>6. thread.customer \in BOOLEAN
  BY <1>1, ChatBoundsAre DEF Chat!Thread
<1>7. ChatTypes
  BY <1>1, <1>2, <1>3, <1>4, <1>5, <1>6, ChatBoundsAre
     DEF ChatTypes, Chat!NoTakeover, Chat!Idle, Chat!None
<1>8. TurnSays
  BY <1>1 DEF TurnSays, Chat!Idle
<1>9. ContactsAlone
  BY <1>1, <1>5 DEF ContactsAlone, Chat!Idle
<1>10. Takeover
  BY <1>1, <1>5 DEF Takeover, Chat!Idle, Chat!NoTakeover, Silenced
<1>11. OwnMessages
  BY <1>1, <1>5 DEF OwnMessages, Chat!Idle
<1> QED  BY <1>7, <1>8, <1>9, <1>10, <1>11 DEF ChatInv

\* A step of the turn that leaves the messages, the maps and the clock alone.
Within ==
  \/ Chat!Arrive \/ Chat!Gate \/ Chat!ReadSession \/ Chat!EnsureWhatsApp
  \/ Chat!Hear \/ Chat!Classify \/ Chat!EnsureSession \/ Chat!Mark \/ Chat!Chat
  \/ Chat!Failed \/ Chat!Refused \/ Chat!Finish

LEMMA SameMade ==
  ASSUME \A p \in Chat!Posts : posts'[p].by = posts[p].by,
         Chat!MadePosts = 1..Cardinality(Chat!MadePosts)
  PROVE  (Chat!MadePosts = 1..Cardinality(Chat!MadePosts))'
<1>1. Chat!MadePosts' = Chat!MadePosts
  BY DEF Chat!MadePosts
<1> QED  BY <1>1


Unmoved ==
  /\ now' = now /\ thread' = thread /\ pausedTo' = pausedTo
  /\ sendingTo' = sendingTo /\ posts' = posts /\ owner' = owner

Lefts == [turns : Nat, faults : Nat, restarts : Nat, owner : Nat]

\* What a step of the turn has to see to.
GoesOn ==
  /\ Unmoved /\ left' \in Lefts
  /\ reply' \in Turns /\ reply'.post <= MaxPosts /\ reply'.since <= now
  /\ session' \in [made : BOOLEAN, pause : Nat] /\ session'.pause <= now + Pause
  /\ reply'.pc \notin {"post", "return"} /\ reply.pc \notin {"post", "return"}
  /\ TurnSays' /\ ContactsAlone'
  /\ owner.kept => Silenced' /\ session'.made /\ session'.pause = owner.until
  /\ Chat!Telegram /\ reply'.pc \in {"gate", "read"} => ~reply'.known
  /\ reply'.during # 0 =>
       /\ Silenced'
       /\ reply'.during > now /\ reply'.during <= now + Pause
       /\ reply'.pc = "read" =>
            /\ session'.made /\ session'.pause >= reply'.during
            /\ \A p \in Chat!Posts : posts[p].step \in {"read", "write"} =>
                 posts[p].until >= reply'.during
  /\ ~Chat!Telegram => reply'.during = 0

LEMMA GoesOnWell == ChatInv /\ GoesOn => ChatInv'
<1> SUFFICES ASSUME ChatInv, GoesOn PROVE ChatInv'
  OBVIOUS
<1> USE ChatBoundsAre
<1>0. ChatTypes /\ Takeover /\ OwnMessages
  BY DEF ChatInv
<1>1. Unmoved
  BY DEF GoesOn
<1>2. (Chat!MadePosts = 1..Cardinality(Chat!MadePosts))'
  BY <1>0, <1>1, SameMade DEF ChatTypes, Unmoved
<1>3. Chat!Telegram' = Chat!Telegram /\ Chat!Handling' = Chat!Handling
  BY <1>1 DEF Chat!Telegram, Chat!Handling, Unmoved
<1>4. ChatTypes'
  BY <1>0, <1>1, <1>2 DEF ChatTypes, GoesOn, Unmoved, Lefts
<1>5. Takeover'
  BY <1>0, <1>1, <1>3 DEF Takeover, GoesOn, Unmoved
<1>6. OwnMessages'
  BY <1>0, <1>1, <1>3 DEF OwnMessages, GoesOn, Unmoved
<1> QED  BY <1>4, <1>5, <1>6 DEF ChatInv, GoesOn

Same(u) == u \in Turns /\ u.post = reply.post /\ u.said = reply.said
           /\ u.since = reply.since /\ u.during = reply.during
Stays(u) == Same(u) /\ u.known = reply.known /\ u.what = reply.what

LEMMA ToIdle ==
  ChatInv /\ Unmoved /\ left' \in Lefts /\ session' = session
  /\ reply.pc \notin {"post", "return"} /\ reply' = Chat!Idle => GoesOn
<1> SUFFICES ASSUME ChatInv, Unmoved, left' \in Lefts, session' = session,
                    reply.pc \notin {"post", "return"}, reply' = Chat!Idle
             PROVE  GoesOn
  OBVIOUS
<1> USE ChatBoundsAre
<1>1. /\ reply' \in Turns /\ reply'.pc = "idle" /\ reply'.post = 0 /\ reply'.since = 0
      /\ reply'.during = 0 /\ ~reply'.known /\ reply'.said = 0
  BY DEF Chat!Idle, Turns, Chat!None
<1>2. TurnSays'
  BY <1>1 DEF TurnSays
<1>3. ContactsAlone'
  BY <1>1 DEF ContactsAlone, ChatInv, Unmoved, Chat!Telegram
<1>4. Silenced'
  BY <1>1 DEF Silenced
<1> QED
  BY <1>1, <1>2, <1>3, <1>4 DEF GoesOn, ChatInv, ChatTypes, Takeover

LEMMA ToFailed ==
  ChatInv /\ Unmoved /\ left' \in Lefts /\ session' = session
  /\ reply.pc \in {"gate", "read", "hear", "classify", "ensure", "mark", "chat", "finish"}
  /\ Stays(reply') /\ reply'.pc = "failed" /\ reply'.erred => GoesOn
<1> SUFFICES ASSUME ChatInv, Unmoved, left' \in Lefts, session' = session,
                    reply.pc \in {"gate", "read", "hear", "classify", "ensure",
                                  "mark", "chat", "finish"},
                    Stays(reply'), reply'.pc = "failed", reply'.erred
             PROVE  GoesOn
  OBVIOUS
<1> USE ChatBoundsAre
<1>1. /\ reply' \in Turns /\ reply'.post = reply.post /\ reply'.said = reply.said
      /\ reply'.since = reply.since /\ reply'.during = reply.during
      /\ reply'.known = reply.known
  BY DEF Stays, Same
<1>2. TurnSays'
  BY <1>1 DEF ChatInv, TurnSays
<1>3. ContactsAlone'
  BY <1>1 DEF ContactsAlone, ChatInv, Unmoved, Chat!Telegram
<1>4. Silenced => Silenced' \/ ~Chat!Telegram
  BY <1>1 DEF Silenced, ChatInv, Takeover
<1>5. ~Chat!Telegram => ~owner.kept /\ reply.during = 0
  BY DEF ChatInv, Takeover, Chat!NoTakeover
<1> QED
  BY <1>1, <1>2, <1>3, <1>4, <1>5 DEF GoesOn, ChatInv, ChatTypes, Takeover

LEMMA ThrowsIs ==
  ASSUME NEW pc \in {"failed", "refused"}, ChatInv, Chat!Throws(pc)
  PROVE  left' \in Lefts /\ Stays(reply') /\ reply'.pc = pc /\ reply'.erred
<1>1. reply \in Turns /\ left \in Lefts
  BY DEF ChatInv, ChatTypes, Lefts
<1>2. left' \in Lefts
  BY <1>1 DEF Chat!Throws, Lefts
<1> QED  BY <1>1, <1>2 DEF Chat!Throws, Turns, Stays, Same

LEMMA GoesToIs ==
  ASSUME NEW pc \in {"hear", "classify", "mark", "chat"}, ChatInv, Chat!GoesTo(pc)
  PROVE  Stays(reply') /\ reply'.pc = pc
<1>1. reply \in Turns
  BY DEF ChatInv, ChatTypes
<1> QED  BY <1>1 DEF Chat!GoesTo, Turns, Stays, Same

\* The steps of processIncoming, one by one: first what becomes of the turn.
LEMMA ArriveStep == ChatInv /\ Chat!Arrive => GoesOn
<1> SUFFICES ASSUME ChatInv, Chat!Arrive PROVE GoesOn
  OBVIOUS
<1> USE ChatBoundsAre
<1>1. /\ reply' \in Turns /\ reply'.pc = "gate" /\ reply'.known = ~Chat!Telegram
      /\ reply'.post = 0 /\ reply'.since = 0 /\ reply'.during = 0 /\ reply'.said = 0
  BY DEF Chat!Arrive, Chat!Idle, Turns, Chat!None, Chat!Telegram
<1>0. left \in Lefts
  BY DEF Lefts, ChatInv, ChatTypes
<1>2. Unmoved /\ left' \in Lefts /\ session' = session /\ reply.pc = "idle"
  BY <1>0 DEF Chat!Arrive, Unmoved, Lefts
<1>3. TurnSays' /\ Silenced'
  BY <1>1 DEF TurnSays, Silenced
<1>4. ContactsAlone'
  BY <1>1, <1>2 DEF ContactsAlone, ChatInv, Unmoved, Chat!Telegram
<1>5. /\ reply'.post <= MaxPosts /\ reply'.since <= now
      /\ session' \in [made : BOOLEAN, pause : Nat] /\ session'.pause <= now + Pause
      /\ owner.kept => session'.made /\ session'.pause = owner.until
  BY <1>1, <1>2 DEF ChatInv, ChatTypes, Takeover
<1> QED
  BY <1>1, <1>2, <1>3, <1>4, <1>5 DEF GoesOn

LEMMA GateStep == ChatInv /\ Chat!Gate => GoesOn
<1> SUFFICES ASSUME ChatInv, Chat!Gate PROVE GoesOn
  OBVIOUS
<1> USE ChatBoundsAre
<1>1. reply \in Turns /\ left \in Lefts
  BY DEF ChatInv, ChatTypes, Lefts
<1>2. Unmoved /\ left' \in Lefts /\ session' = session /\ reply.pc = "gate"
  BY <1>1, ThrowsIs DEF Chat!Gate, Chat!Ends, Unmoved
<1>3. Chat!TakenOverTo \in Nat
  BY DEF Chat!TakenOverTo, ChatInv, ChatTypes
<1>4. \/ reply' = Chat!Idle
      \/ /\ reply' \in Turns /\ reply'.pc \in {"read", "refused"}
         /\ reply'.post = reply.post /\ reply'.said = reply.said
         /\ reply'.since = reply.since /\ reply'.known = reply.known
         /\ reply'.during = Chat!TakenOverTo
         /\ reply'.pc = "read" => ~(Chat!Telegram /\ Chat!PausedInMemory)
      \/ Stays(reply') /\ reply'.pc = "failed" /\ reply'.erred
  <2>1. \/ reply' = Chat!Idle
        \/ reply' = [reply EXCEPT !.pc = "read", !.during = Chat!TakenOverTo]
             /\ ~(Chat!Telegram /\ Chat!PausedInMemory)
        \/ reply' = [reply EXCEPT !.pc = "refused", !.during = Chat!TakenOverTo]
        \/ Chat!Throws("failed")
    BY DEF Chat!Gate, Chat!Ends
  <2>2. CASE reply' = [reply EXCEPT !.pc = "read", !.during = Chat!TakenOverTo]
               /\ ~(Chat!Telegram /\ Chat!PausedInMemory)
    BY <1>1, <1>3, <2>2 DEF Turns
  <2>3. CASE reply' = [reply EXCEPT !.pc = "refused", !.during = Chat!TakenOverTo]
    BY <1>1, <1>3, <2>3 DEF Turns
  <2>4. CASE Chat!Throws("failed")
    BY <2>4, ThrowsIs
  <2> QED  BY <2>1, <2>2, <2>3, <2>4
<1>5. CASE reply' = Chat!Idle
  BY <1>2, <1>5, ToIdle
<1>6. CASE /\ reply' \in Turns /\ reply'.pc \in {"read", "refused"}
           /\ reply'.post = reply.post /\ reply'.said = reply.said
           /\ reply'.since = reply.since /\ reply'.known = reply.known
           /\ reply'.during = Chat!TakenOverTo
           /\ reply'.pc = "read" => ~(Chat!Telegram /\ Chat!PausedInMemory)
  <2>1. TurnSays' /\ Silenced'
    BY <1>2, <1>6 DEF TurnSays, Silenced, ChatInv
  <2>2. ContactsAlone'
    BY <1>2, <1>6 DEF ContactsAlone, ChatInv, Unmoved, Chat!Telegram
  <2>3. reply'.during # 0 =>
          reply'.during = owner.until /\ owner.until > now /\ (owner.held \/ owner.kept)
    BY <1>6 DEF Chat!TakenOverTo, ChatInv, Takeover
  <2>4. Chat!Telegram /\ owner.held => Chat!PausedInMemory
    BY DEF Chat!PausedInMemory, ChatInv, Takeover
  <2>5. ~Chat!Telegram => reply'.during = 0 /\ ~owner.kept
    BY <1>6 DEF Chat!TakenOverTo, ChatInv, Takeover, Chat!NoTakeover
  <2>6. reply'.during # 0 /\ reply'.pc = "read" =>
          /\ session.made /\ session.pause = reply'.during
          /\ \A p \in Chat!Posts : posts[p].step \notin {"read", "write"}
    BY <1>6, <2>3, <2>4, <2>5 DEF ChatInv, Takeover, Chat!Handling
  <2> QED
    BY <1>2, <1>6, <2>1, <2>2, <2>3, <2>5, <2>6 DEF GoesOn, ChatInv, ChatTypes, Takeover
<1>7. CASE Stays(reply') /\ reply'.pc = "failed" /\ reply'.erred
  BY <1>2, <1>7, ToFailed
<1> QED  BY <1>4, <1>5, <1>6, <1>7

\* The agent goes on to a step at which it will say something.
LEMMA ToWork ==
  ChatInv /\ Unmoved /\ left' \in Lefts
  /\ reply.pc \in {"read", "hear", "classify", "ensure", "mark", "chat", "failed"}
  /\ reply' \in Turns /\ reply'.post = reply.post /\ reply'.since = reply.since
  /\ reply'.said = reply.said /\ reply'.during = reply.during /\ reply.during = 0
  /\ reply'.pc \in {"hear", "classify", "ensure", "mark", "chat", "send", "refused"}
  /\ (reply.pc = "failed" => reply'.pc = "send" /\ reply'.what = "fallback"
                               /\ reply'.erred)
  /\ (reply'.pc = "send" /\ reply'.what = "fallback" => reply.pc = "failed")
  /\ session' \in [made : BOOLEAN, pause : Nat] /\ session'.pause \in {0, session.pause}
  /\ ~owner.kept /\ (session.made => session'.made)
  /\ (~thread.customer /\ ~session'.made => session'.pause = 0)
  /\ (Chat!Telegram /\ thread.contact => session.made \/ thread.customer)
  => GoesOn
<1> SUFFICES
      ASSUME ChatInv, Unmoved, left' \in Lefts,
        reply.pc \in {"read", "hear", "classify", "ensure", "mark", "chat", "failed"},
        reply' \in Turns, reply'.post = reply.post, reply'.since = reply.since,
        reply'.said = reply.said, reply'.during = reply.during, reply.during = 0,
        reply'.pc \in {"hear", "classify", "ensure", "mark", "chat", "send", "refused"},
        reply.pc = "failed" => reply'.pc = "send" /\ reply'.what = "fallback"
                                 /\ reply'.erred,
        reply'.pc = "send" /\ reply'.what = "fallback" => reply.pc = "failed",
        session' \in [made : BOOLEAN, pause : Nat],
        session'.pause \in {0, session.pause},
        ~owner.kept, session.made => session'.made,
        ~thread.customer /\ ~session'.made => session'.pause = 0,
        Chat!Telegram /\ thread.contact => session.made \/ thread.customer
      PROVE GoesOn
  OBVIOUS
<1> USE ChatBoundsAre
<1>1. TurnSays'
  BY DEF TurnSays, ChatInv
<1>2. ContactsAlone'
  BY DEF ContactsAlone, ChatInv, Unmoved, Chat!Telegram
<1>3. session'.pause <= now + Pause
  BY DEF ChatInv, ChatTypes
<1> QED
  BY <1>1, <1>2, <1>3 DEF GoesOn, ChatInv, ChatTypes

\* A turn past the takeover of the row is in none, and not with a contact.
LEMMA PastGate ==
  ChatInv /\ reply.pc \in {"hear", "classify", "ensure", "mark", "chat"} =>
    /\ reply.during = 0 /\ ~owner.kept
    /\ Chat!Telegram /\ thread.contact => session.made \/ thread.customer
BY DEF ChatInv, Takeover, ContactsAlone, Silenced

LEMMA ReadSessionStep == ChatInv /\ Chat!ReadSession => GoesOn
<1> SUFFICES ASSUME ChatInv, Chat!ReadSession PROVE GoesOn
  OBVIOUS
<1> USE ChatBoundsAre
<1>1. reply \in Turns /\ left \in Lefts /\ session \in [made : BOOLEAN, pause : Nat]
  BY DEF ChatInv, ChatTypes, Lefts
<1>2. /\ Unmoved /\ left' \in Lefts /\ session' = session /\ reply.pc = "read"
      /\ Chat!Telegram
  BY <1>1, ThrowsIs DEF Chat!ReadSession, Unmoved
<1>3. \/ reply' = Chat!Idle
      \/ /\ reply' \in Turns /\ reply'.pc = "hear"
         /\ reply'.post = reply.post /\ reply'.said = reply.said
         /\ reply'.since = reply.since /\ reply'.during = reply.during
         /\ ~(session.pause > now) /\ Chat!MayOpen
      \/ Stays(reply') /\ reply'.pc = "failed" /\ reply'.erred
  <2>1. \/ reply' = Chat!Idle
        \/ reply' = [reply EXCEPT !.pc = "hear", !.known = session.made]
             /\ ~(session.pause > now) /\ Chat!MayOpen
        \/ Chat!Throws("failed")
    BY DEF Chat!ReadSession
  <2>2. CASE reply' = [reply EXCEPT !.pc = "hear", !.known = session.made]
               /\ ~(session.pause > now) /\ Chat!MayOpen
    BY <1>1, <2>2 DEF Turns
  <2>3. CASE Chat!Throws("failed")
    BY <2>3, ThrowsIs
  <2> QED  BY <2>1, <2>2, <2>3
<1>4. CASE reply' = Chat!Idle
  BY <1>2, <1>4, ToIdle
<1>5. CASE /\ reply' \in Turns /\ reply'.pc = "hear"
           /\ reply'.post = reply.post /\ reply'.said = reply.said
           /\ reply'.since = reply.since /\ reply'.during = reply.during
           /\ ~(session.pause > now) /\ Chat!MayOpen
  <2>1. reply.during = 0 /\ ~owner.kept
    BY <1>2, <1>5 DEF ChatInv, ChatTypes, Turns, Takeover
  <2>2. thread.contact => session.made \/ thread.customer
    BY <1>5 DEF Chat!MayOpen
  <2>3. ~thread.customer /\ ~session.made => session.pause = 0
    BY DEF ChatInv, ContactsAlone
  <2> QED  BY <1>1, <1>2, <1>5, <2>1, <2>2, <2>3, ToWork
<1>6. CASE Stays(reply') /\ reply'.pc = "failed" /\ reply'.erred
  BY <1>2, <1>6, ToFailed
<1> QED  BY <1>3, <1>4, <1>5, <1>6

LEMMA EnsureWhatsAppStep == ChatInv /\ Chat!EnsureWhatsApp => GoesOn
<1> SUFFICES ASSUME ChatInv, Chat!EnsureWhatsApp PROVE GoesOn
  OBVIOUS
<1>1. /\ Unmoved /\ reply.pc = "read" /\ ~Chat!Telegram
      /\ session \in [made : BOOLEAN, pause : Nat] /\ left \in Lefts
  BY DEF Chat!EnsureWhatsApp, Unmoved, ChatInv, ChatTypes, Lefts
<1>2. reply.during = 0 /\ ~owner.kept
  BY <1>1 DEF ChatInv, Takeover, Chat!NoTakeover
<1>3. CASE session' = [session EXCEPT !.made = TRUE] /\ Chat!GoesTo("hear")
             /\ UNCHANGED left
  <2>1. session' \in [made : BOOLEAN, pause : Nat] /\ session'.pause = session.pause
        /\ session'.made
    BY <1>1, <1>3
  <2>2. Stays(reply') /\ reply'.pc = "hear"
    BY <1>3, GoesToIs
  <2> QED  BY <1>1, <1>2, <1>3, <2>1, <2>2, ToWork DEF Stays, Same
<1>4. CASE Chat!Throws("failed") /\ UNCHANGED session
  BY <1>1, <1>4, ThrowsIs, ToFailed
<1> QED  BY <1>3, <1>4 DEF Chat!EnsureWhatsApp

LEMMA HearStep == ChatInv /\ Chat!Hear => GoesOn
<1> SUFFICES ASSUME ChatInv, Chat!Hear PROVE GoesOn
  OBVIOUS
<1>1. /\ Unmoved /\ reply.pc = "hear" /\ session' = session
      /\ session \in [made : BOOLEAN, pause : Nat] /\ left \in Lefts /\ reply \in Turns
      /\ ~thread.customer /\ ~session.made => session.pause = 0
  BY DEF Chat!Hear, Unmoved, ChatInv, ChatTypes, Lefts, ContactsAlone
<1>2. CASE \/ Chat!GoesTo(IF reply.known THEN "mark" ELSE "classify")
           \/ reply' = [reply EXCEPT !.pc = "send", !.what = "canned"]
  <2>1. Same(reply') /\ reply'.pc \in {"mark", "classify", "send"}
        /\ (reply'.pc = "send" => reply'.what = "canned")
    <3>1. CASE reply' = [reply EXCEPT !.pc = IF reply.known THEN "mark" ELSE "classify"]
      BY <1>1, <3>1 DEF Turns, Same
    <3>2. CASE reply' = [reply EXCEPT !.pc = "send", !.what = "canned"]
      BY <1>1, <3>2 DEF Turns, Same
    <3> QED  BY <1>2, <3>1, <3>2 DEF Chat!GoesTo
  <2>2. left' \in Lefts
    BY <1>1, ThrowsIs DEF Chat!Hear, Chat!Ends
  <2> QED  BY <1>1, <2>1, <2>2, PastGate, ToWork DEF Same
<1>3. CASE Chat!Ends /\ UNCHANGED left
  BY <1>1, <1>3, ToIdle DEF Chat!Ends
<1>4. CASE Chat!Throws("failed")
  BY <1>1, <1>4, ThrowsIs, ToFailed
<1> QED  BY <1>2, <1>3, <1>4 DEF Chat!Hear

LEMMA ClassifyStep == ChatInv /\ Chat!Classify => GoesOn
<1> SUFFICES ASSUME ChatInv, Chat!Classify PROVE GoesOn
  OBVIOUS
<1>1. /\ Unmoved /\ reply.pc = "classify" /\ session' = session
      /\ session \in [made : BOOLEAN, pause : Nat] /\ left \in Lefts /\ reply \in Turns
      /\ ~thread.customer /\ ~session.made => session.pause = 0
  BY DEF Chat!Classify, Unmoved, ChatInv, ChatTypes, Lefts, ContactsAlone
<1>2. CASE \/ reply' = [reply EXCEPT !.pc = "ensure", !.known = TRUE] /\ UNCHANGED left
           \/ Chat!Throws("refused")
  <2>1. Same(reply') /\ reply'.pc \in {"ensure", "refused"} /\ left' \in Lefts
    <3>1. CASE reply' = [reply EXCEPT !.pc = "ensure", !.known = TRUE] /\ UNCHANGED left
      BY <1>1, <3>1 DEF Turns, Same
    <3>2. CASE Chat!Throws("refused")
      BY <3>2, ThrowsIs DEF Stays
    <3> QED  BY <1>2, <3>1, <3>2
  <2> QED  BY <1>1, <2>1, PastGate, ToWork DEF Same
<1>3. CASE Chat!Ends /\ UNCHANGED left
  BY <1>1, <1>3, ToIdle DEF Chat!Ends
<1>4. CASE Chat!Throws("failed")
  BY <1>1, <1>4, ThrowsIs, ToFailed
<1> QED  BY <1>2, <1>3, <1>4 DEF Chat!Classify

LEMMA EnsureSessionStep == ChatInv /\ Chat!EnsureSession => GoesOn
<1> SUFFICES ASSUME ChatInv, Chat!EnsureSession PROVE GoesOn
  OBVIOUS
<1>1. /\ Unmoved /\ reply.pc = "ensure"
      /\ session \in [made : BOOLEAN, pause : Nat] /\ left \in Lefts
  BY DEF Chat!EnsureSession, Unmoved, ChatInv, ChatTypes, Lefts
<1>2. CASE session' = [session EXCEPT !.made = TRUE] /\ Chat!GoesTo("mark")
             /\ UNCHANGED left
  <2>1. session' \in [made : BOOLEAN, pause : Nat] /\ session'.pause = session.pause
        /\ session'.made
    BY <1>1, <1>2
  <2>2. Stays(reply') /\ reply'.pc = "mark"
    BY <1>2, GoesToIs
  <2> QED  BY <1>1, <1>2, <2>1, <2>2, PastGate, ToWork DEF Stays, Same
<1>3. CASE Chat!Throws("failed") /\ UNCHANGED session
  BY <1>1, <1>3, ThrowsIs, ToFailed
<1> QED  BY <1>2, <1>3 DEF Chat!EnsureSession

LEMMA MarkStep == ChatInv /\ Chat!Mark => GoesOn
<1> SUFFICES ASSUME ChatInv, Chat!Mark PROVE GoesOn
  OBVIOUS
<1>1. /\ Unmoved /\ reply.pc = "mark"
      /\ session \in [made : BOOLEAN, pause : Nat] /\ left \in Lefts
  BY DEF Chat!Mark, Unmoved, ChatInv, ChatTypes, Lefts
<1>2. CASE session' = [session EXCEPT !.pause = 0] /\ Chat!GoesTo("chat")
             /\ UNCHANGED left
  <2>1. session' \in [made : BOOLEAN, pause : Nat] /\ session'.pause = 0
        /\ session'.made = session.made
    BY <1>1, <1>2
  <2>2. Stays(reply') /\ reply'.pc = "chat"
    BY <1>2, GoesToIs
  <2> QED  BY <1>1, <1>2, <2>1, <2>2, PastGate, ToWork DEF Stays, Same
<1>3. CASE Chat!Throws("failed") /\ UNCHANGED session
  BY <1>1, <1>3, ThrowsIs, ToFailed
<1> QED  BY <1>2, <1>3 DEF Chat!Mark

LEMMA ChatStep == ChatInv /\ Chat!Chat => GoesOn
<1> SUFFICES ASSUME ChatInv, Chat!Chat PROVE GoesOn
  OBVIOUS
<1>1. /\ Unmoved /\ reply.pc = "chat" /\ session' = session
      /\ session \in [made : BOOLEAN, pause : Nat] /\ left \in Lefts /\ reply \in Turns
      /\ ~thread.customer /\ ~session.made => session.pause = 0
  BY DEF Chat!Chat, Unmoved, ChatInv, ChatTypes, Lefts, ContactsAlone
<1>2. CASE \/ reply' = [reply EXCEPT !.pc = "send", !.what = "answer"] /\ UNCHANGED left
           \/ Chat!Throws("refused")
  <2>1. /\ Same(reply') /\ reply'.pc \in {"send", "refused"} /\ left' \in Lefts
        /\ reply'.pc = "send" => reply'.what = "answer"
    <3>1. CASE reply' = [reply EXCEPT !.pc = "send", !.what = "answer"] /\ UNCHANGED left
      BY <1>1, <3>1 DEF Turns, Same
    <3>2. CASE Chat!Throws("refused")
      BY <3>2, ThrowsIs DEF Stays
    <3> QED  BY <1>2, <3>1, <3>2
  <2> QED  BY <1>1, <2>1, PastGate, ToWork DEF Same
<1>3. CASE Chat!Throws("failed")
  BY <1>1, <1>3, ThrowsIs, ToFailed
<1> QED  BY <1>2, <1>3 DEF Chat!Chat

LEMMA FinishStep == ChatInv /\ Chat!Finish => GoesOn
<1> SUFFICES ASSUME ChatInv, Chat!Finish PROVE GoesOn
  OBVIOUS
<1>1. /\ Unmoved /\ reply.pc = "finish" /\ session' = session /\ left \in Lefts
  BY DEF Chat!Finish, Unmoved, ChatInv, ChatTypes, Lefts
<1>2. CASE Chat!Ends /\ UNCHANGED left
  BY <1>1, <1>2, ToIdle DEF Chat!Ends
<1>3. CASE Chat!Throws("failed")
  BY <1>1, <1>3, ThrowsIs, ToFailed
<1> QED  BY <1>2, <1>3 DEF Chat!Finish

\* An error is told to a customer only, whom nothing is kept from.
LEMMA FailedStep == ChatInv /\ Chat!Failed => GoesOn
<1> SUFFICES ASSUME ChatInv, Chat!Failed PROVE GoesOn
  OBVIOUS
<1>1. /\ Unmoved /\ reply.pc = "failed" /\ session' = session /\ left' = left
      /\ session \in [made : BOOLEAN, pause : Nat] /\ left \in Lefts /\ reply \in Turns
      /\ ~thread.customer /\ ~session.made => session.pause = 0
  BY DEF Chat!Failed, Unmoved, ChatInv, ChatTypes, Lefts, ContactsAlone
<1>2. CASE ~reply.known
  BY <1>1, <1>2, ToIdle DEF Chat!Failed
<1>3. CASE reply.known
  <2>1. reply' = [reply EXCEPT !.pc = "send", !.what = "fallback"]
    BY <1>3 DEF Chat!Failed
  <2>2. Same(reply') /\ reply'.pc = "send" /\ reply'.what = "fallback"
        /\ reply'.erred = reply.erred
    BY <1>1, <2>1 DEF Turns, Same
  <2>3. /\ reply.during = 0 /\ ~owner.kept /\ reply.erred
        /\ Chat!Telegram /\ thread.contact => session.made \/ thread.customer
    BY <1>1, <1>3 DEF ChatInv, Takeover, Silenced, TurnSays, ContactsAlone
  <2> QED  BY <1>1, <2>2, <2>3, ToWork DEF Same
<1> QED  BY <1>2, <1>3

\* A refusal is the one message a takeover does not hold back.
LEMMA RefusedStep == ChatInv /\ Chat!Refused => GoesOn
<1> SUFFICES ASSUME ChatInv, Chat!Refused PROVE GoesOn
  OBVIOUS
<1> USE ChatBoundsAre
<1>1. /\ Unmoved /\ reply.pc = "refused" /\ session' = session /\ left' = left
      /\ left \in Lefts /\ reply \in Turns
  BY DEF Chat!Refused, Unmoved, ChatInv, ChatTypes, Lefts
<1>2. CASE ~(reply.known \/ session.made)
  BY <1>1, <1>2, ToIdle DEF Chat!Refused
<1>3. CASE reply.known \/ session.made
  <2>1. reply' = [reply EXCEPT !.pc = "send", !.what = "refusal"]
    BY <1>3 DEF Chat!Refused
  <2>2. Same(reply') /\ reply'.pc = "send" /\ reply'.what = "refusal"
    BY <1>1, <2>1 DEF Turns, Same
  <2>3. TurnSays' /\ Silenced'
    BY <1>1, <2>2 DEF ChatInv, TurnSays, Silenced, Same
  <2>4. ContactsAlone'
    BY <1>1, <1>3, <2>2 DEF ChatInv, ContactsAlone, Unmoved, Chat!Telegram
  <2>5. owner.kept => session.made /\ session.pause = owner.until
    BY DEF ChatInv, Takeover
  <2>6. /\ reply'.during = reply.during
        /\ reply.during # 0 => reply.during > now /\ reply.during <= now + Pause
        /\ ~Chat!Telegram => reply.during = 0
    BY <2>2 DEF ChatInv, Takeover, Same
  <2>7. /\ reply' \in Turns /\ reply'.post <= MaxPosts /\ reply'.since <= now
        /\ session' \in [made : BOOLEAN, pause : Nat] /\ session'.pause <= now + Pause
    BY <1>1, <2>2 DEF ChatInv, ChatTypes, Same
  <2> QED  BY <1>1, <2>2, <2>3, <2>4, <2>5, <2>6, <2>7 DEF GoesOn
<1> QED  BY <1>2, <1>3

LEMMA WithinStep == ChatInv /\ Within => ChatInv'
BY ArriveStep, GateStep, ReadSessionStep, EnsureWhatsAppStep, HearStep, ClassifyStep,
   EnsureSessionStep, MarkStep, ChatStep, FailedStep, RefusedStep, FinishStep,
   GoesOnWell DEF Within

-----------------------------------------------------------------------------
(* Sending                                                                 *)

LEMMA SendStep == ChatInv /\ Chat!Send => ChatInv'
<1> SUFFICES ASSUME ChatInv, Chat!Send PROVE ChatInv'
  OBVIOUS
<1> USE ChatBoundsAre
<1>0. ChatTypes /\ TurnSays /\ ContactsAlone /\ Takeover /\ OwnMessages
  BY DEF ChatInv
<1>1. /\ now' = now /\ thread' = thread /\ session' = session /\ pausedTo' = pausedTo
      /\ posts' = posts /\ owner' = owner /\ left' = left /\ reply.pc = "send"
      /\ reply' = [reply EXCEPT !.pc = "post", !.since = now]
      /\ sendingTo' = IF Chat!Telegram THEN now + InFlight ELSE 0
  BY DEF Chat!Send
<1>2. /\ reply' \in Turns /\ reply'.pc = "post" /\ reply'.since = now
      /\ reply'.post = reply.post /\ reply'.said = reply.said
      /\ reply'.what = reply.what /\ reply'.erred = reply.erred
      /\ reply'.known = reply.known /\ reply'.during = reply.during
  BY <1>0, <1>1 DEF ChatTypes, Turns
<1>3. Chat!Telegram' = Chat!Telegram /\ Chat!Handling' = Chat!Handling
  BY <1>1 DEF Chat!Telegram, Chat!Handling
<1>4. (Chat!MadePosts = 1..Cardinality(Chat!MadePosts))'
  BY <1>0, <1>1, SameMade DEF ChatTypes
<1>5. ChatTypes'
  <2>1. sendingTo' \in Nat /\ sendingTo' <= now' + InFlight /\ reply'.since <= now'
    <3>1. now \in Nat /\ InFlight \in Nat
      BY <1>0 DEF ChatTypes
    <3>2. /\ now' = now /\ reply'.since = now
          /\ sendingTo' = IF Chat!Telegram THEN now + InFlight ELSE 0
      BY <1>1, <1>2
    <3> QED  BY <3>1, <3>2
  <2> QED  BY <1>0, <1>1, <1>2, <1>4, <2>1 DEF ChatTypes
<1>6. TurnSays'
  BY <1>0, <1>1, <1>2 DEF TurnSays
<1>7. ContactsAlone'
  BY <1>0, <1>1, <1>2, <1>3 DEF ContactsAlone
<1>8. Silenced => Silenced'
  BY <1>1, <1>2 DEF Silenced
<1>9. Takeover'
  BY <1>0, <1>1, <1>2, <1>3, <1>8 DEF Takeover
<1>10. OwnMessages'
  BY <1>0, <1>1, <1>2, <1>3 DEF OwnMessages, ChatTypes
<1> QED  BY <1>5, <1>6, <1>7, <1>9, <1>10 DEF ChatInv

LEMMA SendThrowsIs ==
  ASSUME ChatInv, Chat!SendThrows, reply.pc \in {"post", "return"}
  PROVE  /\ left' \in Lefts
         /\ \/ reply' = Chat!Idle
            \/ Stays(reply') /\ reply'.pc = "failed" /\ reply'.erred
                 /\ reply.what \in {"answer", "canned"}
<1>1. reply \in Turns /\ left \in Lefts
  BY DEF ChatInv, ChatTypes, Lefts
<1>2. left' \in Lefts
  BY <1>1 DEF Chat!SendThrows, Lefts
<1>3. CASE reply.what \in {"answer", "canned"}
  <2>1. reply' = [reply EXCEPT !.pc = "failed", !.erred = TRUE]
    BY <1>3 DEF Chat!SendThrows
  <2> QED  BY <1>1, <1>2, <1>3, <2>1 DEF Turns, Stays, Same
<1>4. CASE reply.what \notin {"answer", "canned"}
  BY <1>2, <1>4 DEF Chat!SendThrows
<1> QED  BY <1>3, <1>4

\* What is left of the turn once a send is over: nothing, the catch clause, or
\* markProcessed.
Over ==
  \/ reply' = Chat!Idle
  \/ Stays(reply') /\ reply'.pc = "failed" /\ reply'.erred
       /\ reply.what \in {"answer", "canned"}
  \/ Stays(reply') /\ reply'.pc = "finish" /\ reply.pc = "return"
       /\ reply.what = "answer"

LEMMA SendOver ==
  ASSUME ChatInv, reply.pc \in {"post", "return"}, Over, left' \in Lefts,
         UNCHANGED <<now, thread, session, pausedTo, owner>>, sendingTo' = 0,
         posts' \in [Chat!Posts -> Letters],
         \A p \in Chat!Posts :
           \/ posts'[p] = posts[p] /\ ~(reply.pc = "return" /\ reply.post = p
                                         /\ posts[p].step = "sent")
           \/ /\ posts'[p].by = posts[p].by /\ posts'[p].step = posts[p].step
              /\ posts[p].step = "sent"
              /\ \/ posts'[p].orphan
                 \/ /\ posts'[p].at <= posts'[p].back /\ posts'[p].back = now
                    /\ posts'[p].mine = now + Track
  PROVE  ChatInv'
<1> USE ChatBoundsAre
<1>0. ChatTypes /\ TurnSays /\ ContactsAlone /\ Takeover /\ OwnMessages
  BY DEF ChatInv
<1>1. Chat!Telegram' = Chat!Telegram
  BY DEF Chat!Telegram
<1>2. \A p \in Chat!Posts : posts'[p].by = posts[p].by /\ posts'[p].step = posts[p].step
  OBVIOUS
<1>3. Chat!Handling' = Chat!Handling
  BY <1>2 DEF Chat!Handling
<1>4. (Chat!MadePosts = 1..Cardinality(Chat!MadePosts))'
  BY <1>0, <1>2, SameMade DEF ChatTypes
<1>5. /\ reply' \in Turns /\ reply'.pc \in {"idle", "failed", "finish"}
      /\ reply'.post <= MaxPosts /\ reply'.since <= now
  <2>1. CASE reply' = Chat!Idle
    BY <1>0, <2>1 DEF ChatTypes, Turns, Chat!Idle, Chat!None
  <2>2. CASE Same(reply') /\ reply'.pc \in {"failed", "finish"}
    BY <1>0, <2>2 DEF ChatTypes, Same
  <2> QED  BY <2>1, <2>2 DEF Over, Stays
<1>6. ChatTypes'
  BY <1>0, <1>4, <1>5 DEF ChatTypes, Lefts
<1>7. TurnSays'
  BY <1>0, <1>5 DEF TurnSays, Over, Stays, Same, Chat!Idle
<1>8. ContactsAlone'
  BY <1>0, <1>1, <1>2 DEF ContactsAlone
<1>9. owner.kept \/ reply.during # 0 => reply' = Chat!Idle
  BY <1>0 DEF Takeover, Silenced, Over
<1>10. reply' = Chat!Idle => Silenced' /\ reply'.during = 0
  BY DEF Chat!Idle, Silenced
<1>11. reply.during = 0 => reply'.during = 0
  BY <1>10 DEF Over, Stays, Same
<1>12. \A p \in Chat!Posts : posts[p].step \in {"read", "write"} =>
         posts'[p].until = posts[p].until
  OBVIOUS
<1>13. Takeover'
  BY <1>0, <1>1, <1>2, <1>3, <1>5, <1>9, <1>10, <1>11, <1>12 DEF Takeover
<1>14. OwnMessages'
  <2>1. ASSUME NEW p \in Chat!Posts, posts'[p].by = "agent",
               posts'[p].step = "sent", ~posts'[p].orphan
        PROVE  /\ posts'[p].at <= posts'[p].back /\ posts'[p].back <= now
               /\ now < posts'[p].back + Track => posts'[p].mine = posts'[p].back + Track
    <3>1. CASE posts'[p] = posts[p] /\ ~(reply.pc = "return" /\ reply.post = p
                                         /\ posts[p].step = "sent")
      BY <1>0, <2>1, <3>1 DEF OwnMessages
    <3>2. CASE posts'[p].at <= posts'[p].back /\ posts'[p].back = now
                 /\ posts'[p].mine = now + Track
      BY <1>0, <3>2 DEF ChatTypes
    <3> QED  BY <2>1, <3>1, <3>2
  <2> QED  BY <1>5, <2>1 DEF OwnMessages
<1> QED  BY <1>6, <1>7, <1>8, <1>13, <1>14 DEF ChatInv

LEMMA ReturnStep == ChatInv /\ Chat!Return => ChatInv'
<1> SUFFICES ASSUME ChatInv, Chat!Return PROVE ChatInv'
  OBVIOUS
<1> USE ChatBoundsAre
<1>0. ChatTypes /\ OwnMessages /\ posts \in [Chat!Posts -> Letters] /\ now \in Nat
  BY DEF ChatInv, ChatTypes
<1>1. /\ UNCHANGED <<now, thread, session, pausedTo, owner>> /\ sendingTo' = 0
      /\ reply.pc = "return" /\ reply \in Turns /\ left \in Lefts
      /\ reply.post \in Chat!Posts
  BY <1>0 DEF Chat!Return, Chat!GuardLifted, ChatTypes, Lefts, OwnMessages
<1>2. Over /\ left' \in Lefts
  <2>1. CASE Chat!AfterSend /\ UNCHANGED left
    <3>1. CASE reply.what = "answer"
      <4>1. reply' = [reply EXCEPT !.pc = "finish"]
        BY <2>1, <3>1 DEF Chat!AfterSend, Chat!GoesTo
      <4> QED  BY <1>1, <2>1, <3>1, <4>1 DEF Over, Stays, Same, Turns
    <3>2. CASE reply.what # "answer"
      BY <1>1, <2>1, <3>2 DEF Chat!AfterSend, Chat!Ends, Over
    <3> QED  BY <3>1, <3>2
  <2>2. CASE Chat!SendThrows
    BY <1>1, <2>2, SendThrowsIs DEF Over
  <2> QED  BY <2>1, <2>2 DEF Chat!Return
<1>3. CASE posts[reply.post].step # "sent"
  <2>1. posts' = posts
    BY <1>3 DEF Chat!Return
  <2> QED  BY <1>0, <1>1, <1>2, <1>3, <2>1, SendOver
<1>4. CASE posts[reply.post].step = "sent"
  <2> DEFINE l == posts[reply.post]
             m == posts'[reply.post]
  <2>1. l \in Letters /\ Chat!Tracked = now + Track /\ Chat!Tracked \in Nat
    BY <1>0, <1>1 DEF Chat!Tracked
  <2>2. \/ posts' = [posts EXCEPT ![reply.post] =
                       [l EXCEPT !.mine = Chat!Tracked, !.back = now]]
        \/ posts' = [posts EXCEPT ![reply.post] = [l EXCEPT !.orphan = TRUE]]
    BY <1>4 DEF Chat!Return
  <2>3. /\ [l EXCEPT !.mine = Chat!Tracked, !.back = now] \in Letters
        /\ [l EXCEPT !.orphan = TRUE] \in Letters
    BY <1>0, <2>1 DEF Letters
  <2>4. /\ posts' \in [Chat!Posts -> Letters]
        /\ \A p \in Chat!Posts : p # reply.post => posts'[p] = posts[p]
        /\ \/ m = [l EXCEPT !.mine = Chat!Tracked, !.back = now]
           \/ m = [l EXCEPT !.orphan = TRUE]
    BY <1>0, <1>1, <2>2, <2>3
  <2>5. /\ m.by = l.by /\ m.step = l.step
        /\ m.orphan \/ (m.at = l.at /\ m.back = now /\ m.mine = now + Track
                         /\ m.orphan = l.orphan)
    BY <2>1, <2>4 DEF Letters
  <2>6. ~l.orphan => l.at <= now
    <3>1. l.by = "agent" /\ l.step = "sent"
      BY <1>0, <1>1, <1>4 DEF OwnMessages
    <3>2. l.at \in Nat /\ l.back \in Nat /\ reply.since <= now /\ reply.since \in Nat
      BY <1>0, <1>1, <2>1 DEF Letters, ChatTypes, Turns
    <3> QED  BY <1>0, <1>1, <3>1, <3>2 DEF OwnMessages
  <2> HIDE DEF l, m
  <2>7. \A p \in Chat!Posts :
          IF p = reply.post
          THEN /\ m.by = l.by /\ m.step = l.step /\ l.step = "sent"
               /\ m.orphan \/ (m.at <= m.back /\ m.back = now /\ m.mine = now + Track)
          ELSE posts'[p] = posts[p]
    BY <1>4, <2>4, <2>5, <2>6 DEF l
  <2> QED  BY <1>1, <1>2, <1>4, <2>4, <2>7, SendOver DEF l, m
<1> QED  BY <1>3, <1>4

\* The next message is one that nobody has written yet.
LEMMA OneMore ==
  ASSUME NEW l \in Letters, l.by # "nobody", ChatTypes,
         NEW p, p = Chat!Cardinality(Chat!MadePosts) + 1, p \in Chat!Posts,
         posts' = [posts EXCEPT ![p] = l]
  PROVE  /\ (Chat!MadePosts = 1..Cardinality(Chat!MadePosts))'
         /\ posts' \in [Chat!Posts -> Letters] /\ posts'[p] = l
         /\ \A q \in Chat!Posts : q # p => posts'[q] = posts[q]
         /\ p \notin Chat!MadePosts
<1> DEFINE n == Cardinality(Chat!MadePosts)
<1> USE ChatBoundsAre
<1>1. posts \in [Chat!Posts -> Letters] /\ Chat!MadePosts = 1..n /\ p = n + 1
      /\ p \in 1..MaxPosts
  BY ChatCountIs DEF ChatTypes, Chat!Posts
<1>2. IsFiniteSet(1..MaxPosts) /\ Chat!MadePosts \subseteq 1..MaxPosts
  BY FS_Interval DEF Chat!MadePosts, Chat!Posts
<1>3. n \in Nat
  BY <1>2, FS_Subset, FS_CardinalityType
<1>4. Chat!MadePosts' = Chat!MadePosts \cup {p}
  BY <1>1 DEF Chat!MadePosts
<1> HIDE DEF n
<1>5. Chat!MadePosts' = 1..p
  BY <1>1, <1>3, <1>4
<1>6. Cardinality(1..p) = p
  <2>1. p \in Int /\ 1 \in Int /\ p >= 1
    BY <1>1, <1>3
  <2>2. Cardinality(1..p) = IF 1 > p THEN 0 ELSE p - 1 + 1
    BY <2>1, FS_Interval
  <2> QED  BY <2>1, <2>2
<1>7. (Chat!MadePosts = 1..Cardinality(Chat!MadePosts))'
  BY <1>5, <1>6
<1>8. p \notin Chat!MadePosts
  BY <1>1, <1>3
<1> QED  BY <1>1, <1>7, <1>8

LEMMA PostStep == ChatInv /\ Chat!Post => ChatInv'
<1> SUFFICES ASSUME ChatInv, Chat!Post PROVE ChatInv'
  OBVIOUS
<1> USE ChatBoundsAre
<1>0. ChatTypes /\ TurnSays /\ ContactsAlone /\ Takeover /\ OwnMessages
      /\ reply \in Turns /\ posts \in [Chat!Posts -> Letters]
  BY DEF ChatInv, ChatTypes
<1> DEFINE p == Chat!Cardinality(Chat!MadePosts) + 1
           l == [Chat!NoPost EXCEPT !.by = "agent",
                   !.step = IF Chat!Telegram THEN "sent" ELSE "done",
                   !.at = IF Chat!Telegram THEN reply.since ELSE 0]
<1>1. /\ now' = now /\ thread' = thread /\ session' = session /\ pausedTo' = pausedTo
      /\ owner' = owner /\ reply.pc = "post" /\ p \in Chat!Posts
  BY DEF Chat!Post
<1>2. CASE /\ posts' = [posts EXCEPT ![p] = l]
           /\ reply' = [reply EXCEPT !.pc = "return", !.said = @ + 1, !.post = p]
           /\ UNCHANGED <<sendingTo, left>>
  <2>1. /\ l \in Letters /\ l.by = "agent" /\ l.back = 0
        /\ l.step = (IF Chat!Telegram THEN "sent" ELSE "done")
        /\ Chat!Telegram => l.at = reply.since
    BY <1>0 DEF Chat!NoPost, Letters, Turns
  <2>2. p \in Nat /\ p <= MaxPosts
    BY <1>1 DEF Chat!Posts
  <2> HIDE DEF l
  <2>3. /\ (Chat!MadePosts = 1..Cardinality(Chat!MadePosts))'
        /\ posts' \in [Chat!Posts -> Letters] /\ posts'[p] = l
        /\ \A q \in Chat!Posts : q # p => posts'[q] = posts[q]
    BY <1>0, <1>1, <1>2, <2>1, OneMore
  <2> HIDE DEF p
  <2>4. /\ reply' \in Turns /\ reply'.pc = "return" /\ reply'.said = reply.said + 1
        /\ reply'.post = p /\ reply'.what = reply.what /\ reply'.erred = reply.erred
        /\ reply'.known = reply.known /\ reply'.during = reply.during
        /\ reply'.since = reply.since
    <3>1. reply.said + 1 \in Nat
      BY <1>0 DEF Turns
    <3>2. reply' = [reply EXCEPT !.pc = "return", !.said = reply.said + 1, !.post = p]
      BY <1>2
    <3> QED  BY <1>0, <2>2, <3>1, <3>2 DEF Turns
  <2>5. Chat!Telegram' = Chat!Telegram
    BY <1>1 DEF Chat!Telegram
  <2>6. \A q \in Chat!Posts : posts'[q].step \in {"read", "write"} =>
          q # p /\ posts'[q] = posts[q]
    BY <2>1, <2>3
  <2>7. Chat!Handling' \subseteq Chat!Handling
    BY <2>6 DEF Chat!Handling
  <2>8. ChatTypes'
    BY <1>0, <1>1, <1>2, <2>2, <2>3, <2>4 DEF ChatTypes
  <2>9. TurnSays'
    BY <1>0, <1>1, <2>4 DEF TurnSays, Turns
  <2>10. ContactsAlone'
    BY <1>0, <1>1, <2>4, <2>5 DEF ContactsAlone
  <2>11. Silenced => Silenced'
    BY <1>1, <2>4 DEF Silenced
  <2>12. ~Chat!Telegram => \A q \in Chat!Posts : posts'[q].step \in {"none", "done"}
    BY <1>0, <2>1, <2>3 DEF Takeover
  <2>13. Takeover'
    BY <1>0, <1>1, <2>4, <2>5, <2>6, <2>7, <2>11, <2>12 DEF Takeover
  <2>14. OwnMessages'
    <3>1. ASSUME NEW q \in Chat!Posts, posts'[q].by = "agent",
                 posts'[q].step = "sent", ~posts'[q].orphan
          PROVE  \/ reply'.post = q /\ posts'[q].at = reply'.since /\ posts'[q].back = 0
                 \/ /\ posts'[q].at <= posts'[q].back /\ posts'[q].back <= now
                    /\ now < posts'[q].back + Track =>
                         posts'[q].mine = posts'[q].back + Track
      <4>1. CASE q = p
        BY <2>1, <2>3, <2>4, <3>1, <4>1
      <4>2. CASE q # p
        BY <1>0, <1>1, <2>3, <3>1, <4>2 DEF OwnMessages
      <4> QED  BY <4>1, <4>2
    <3>2. posts'[p].by = "agent" /\ p \in Chat!Posts
      BY <1>1, <2>1, <2>3
    <3> QED  BY <1>0, <1>1, <1>2, <2>4, <2>5, <3>1, <3>2 DEF OwnMessages
  <2> QED  BY <2>8, <2>9, <2>10, <2>13, <2>14 DEF ChatInv
<1>3. CASE Chat!SendThrows /\ sendingTo' = Chat!GuardLifted /\ UNCHANGED posts
  <2>1. Over /\ left' \in Lefts
    BY <1>1, <1>3, SendThrowsIs DEF Over
  <2> QED  BY <1>0, <1>1, <1>3, <2>1, SendOver DEF Chat!GuardLifted
<1> QED  BY <1>2, <1>3 DEF Chat!Post

-----------------------------------------------------------------------------
(* What the owner writes, and the updates about it                         *)

LEMMA OwnerWritesStep == ChatInv /\ Chat!OwnerWrites => ChatInv'
<1> SUFFICES ASSUME ChatInv, Chat!OwnerWrites PROVE ChatInv'
  OBVIOUS
<1> USE ChatBoundsAre
<1>0. ChatTypes /\ TurnSays /\ ContactsAlone /\ Takeover /\ OwnMessages
      /\ posts \in [Chat!Posts -> Letters] /\ left \in Lefts
  BY DEF ChatInv, ChatTypes, Lefts
<1> DEFINE p == Chat!Cardinality(Chat!MadePosts) + 1
           l == [Chat!NoPost EXCEPT !.by = "owner", !.step = "sent"]
<1>1. /\ now' = now /\ thread' = thread /\ session' = session /\ pausedTo' = pausedTo
      /\ owner' = owner /\ reply' = reply /\ sendingTo' = sendingTo
      /\ p \in Chat!Posts /\ Chat!Telegram /\ posts' = [posts EXCEPT ![p] = l]
      /\ left.owner > 0 /\ left' = [left EXCEPT !.owner = @ - 1]
  BY DEF Chat!OwnerWrites
<1>2. l \in Letters /\ l.by = "owner" /\ l.step = "sent"
  BY DEF Chat!NoPost, Letters
<1> HIDE DEF l
<1>3. /\ (Chat!MadePosts = 1..Cardinality(Chat!MadePosts))'
      /\ posts' \in [Chat!Posts -> Letters] /\ posts'[p] = l
      /\ \A q \in Chat!Posts : q # p => posts'[q] = posts[q]
      /\ p \notin Chat!MadePosts
  BY <1>0, <1>1, <1>2, OneMore
<1> HIDE DEF p
<1>4. left' \in Lefts
  BY <1>0, <1>1 DEF Lefts
<1>5. Chat!Telegram' = Chat!Telegram
  BY <1>1 DEF Chat!Telegram
<1>6. \A q \in Chat!Posts : posts'[q].step \in {"read", "write"} =>
        q # p /\ posts'[q] = posts[q]
  BY <1>2, <1>3
<1>7. Chat!Handling' \subseteq Chat!Handling
  BY <1>6 DEF Chat!Handling
<1>8. ChatTypes'
  BY <1>0, <1>1, <1>3, <1>4 DEF ChatTypes, Lefts
<1>9. TurnSays' /\ (Silenced => Silenced')
  BY <1>0, <1>1 DEF TurnSays, Silenced
<1>10. ContactsAlone'
  BY <1>0, <1>1, <1>2, <1>3, <1>5 DEF ContactsAlone
<1>11. Takeover'
  BY <1>0, <1>1, <1>5, <1>6, <1>7, <1>9 DEF Takeover
<1>12. OwnMessages'
  <2>1. ASSUME reply.pc = "return" PROVE posts'[reply.post].by = "agent"
    <3>1. reply.post \in Chat!Posts /\ posts[reply.post].by = "agent"
      BY <1>0, <2>1 DEF OwnMessages
    <3>2. reply.post # p
      <4>1. posts[reply.post].by # "nobody"
        BY <3>1
      <4>2. reply.post \in Chat!MadePosts
        BY <3>1, <4>1 DEF Chat!MadePosts
      <4> QED  BY <1>3, <4>2
    <3> QED  BY <1>3, <3>1, <3>2
  <2>2. \A q \in Chat!Posts : posts'[q].by = "agent" => posts'[q] = posts[q]
    BY <1>2, <1>3
  <2> QED  BY <1>0, <1>1, <1>5, <2>1, <2>2 DEF OwnMessages
<1> QED  BY <1>8, <1>9, <1>10, <1>11, <1>12 DEF ChatInv

\* The update about a message changes the entry of that message only.
LEMMA UpdateHandled ==
  ASSUME ChatInv, NEW p \in Chat!Posts, NEW l \in Letters,
         l.by = posts[p].by, l.step # "sent", posts' = [posts EXCEPT ![p] = l],
         UNCHANGED <<now, thread, sendingTo, reply>>
  PROVE  /\ posts' \in [Chat!Posts -> Letters] /\ posts'[p] = l
         /\ \A q \in Chat!Posts : q # p => posts'[q] = posts[q]
         /\ \A q \in Chat!Posts : posts'[q].by = posts[q].by
         /\ (Chat!MadePosts = 1..Cardinality(Chat!MadePosts))'
         /\ Chat!Telegram' = Chat!Telegram
         /\ TurnSays' /\ OwnMessages' /\ (Silenced => Silenced')
<1>0. ChatTypes /\ TurnSays /\ OwnMessages /\ posts \in [Chat!Posts -> Letters]
  BY DEF ChatInv, ChatTypes
<1>1. /\ posts' \in [Chat!Posts -> Letters] /\ posts'[p] = l
      /\ \A q \in Chat!Posts : q # p => posts'[q] = posts[q]
      /\ \A q \in Chat!Posts : posts'[q].by = posts[q].by
  BY <1>0
<1>2. (Chat!MadePosts = 1..Cardinality(Chat!MadePosts))'
  BY <1>0, <1>1, SameMade DEF ChatTypes
<1>3. Chat!Telegram' = Chat!Telegram
  BY DEF Chat!Telegram
<1>4. TurnSays' /\ (Silenced => Silenced')
  BY <1>0 DEF TurnSays, Silenced
<1>5. \A q \in Chat!Posts : posts'[q].step = "sent" => posts'[q] = posts[q]
  BY <1>1
<1>6. OwnMessages'
  BY <1>0, <1>1, <1>3, <1>5 DEF OwnMessages
<1> QED  BY <1>1, <1>2, <1>3, <1>4, <1>6

LEMMA OutgoingStep ==
  ASSUME ChatInv, NEW p \in Chat!Posts, Chat!Outgoing(p) PROVE ChatInv'
<1> USE ChatBoundsAre
<1>0. ChatTypes /\ TurnSays /\ ContactsAlone /\ Takeover /\ OwnMessages
      /\ posts \in [Chat!Posts -> Letters] /\ now \in Nat
  BY DEF ChatInv, ChatTypes
<1>1. /\ now' = now /\ thread' = thread /\ session' = session /\ reply' = reply
      /\ sendingTo' = sendingTo /\ left' = left /\ Chat!Telegram
      /\ posts[p].step = "sent" /\ posts[p] \in Letters
  BY <1>0 DEF Chat!Outgoing
<1>2. CASE /\ \/ posts' = Chat!Handled(p, "done")
              \/ posts' = Chat!Handled(p, "ignored")
           /\ UNCHANGED <<pausedTo, owner>>
  <2>1. PICK l \in Letters :
          /\ l.by = posts[p].by /\ l.step \in {"done", "ignored"}
          /\ posts' = [posts EXCEPT ![p] = l]
    <3>1. \A st \in {"done", "ignored"} :
            LET l == [Chat!NoPost EXCEPT !.by = posts[p].by, !.step = st]
            IN  l \in Letters /\ l.by = posts[p].by /\ l.step = st
      BY <1>1 DEF Chat!NoPost, Letters
    <3> QED  BY <1>2, <3>1 DEF Chat!Handled
  <2>2. /\ posts' \in [Chat!Posts -> Letters] /\ posts'[p] = l
        /\ \A q \in Chat!Posts : q # p => posts'[q] = posts[q]
        /\ \A q \in Chat!Posts : posts'[q].by = posts[q].by
        /\ (Chat!MadePosts = 1..Cardinality(Chat!MadePosts))'
        /\ Chat!Telegram' = Chat!Telegram
        /\ TurnSays' /\ OwnMessages' /\ (Silenced => Silenced')
    BY <1>1, <2>1, UpdateHandled
  <2>3. \A q \in Chat!Posts : posts'[q].step \in {"read", "write"} =>
          posts'[q] = posts[q]
    BY <2>1, <2>2
  <2>4. Chat!Handling' \subseteq Chat!Handling
    BY <2>3 DEF Chat!Handling
  <2>5. ChatTypes'
    BY <1>0, <1>1, <1>2, <2>2 DEF ChatTypes
  <2>6. ContactsAlone'
    BY <1>0, <1>1, <2>2 DEF ContactsAlone
  <2>7. Takeover'
    BY <1>0, <1>1, <1>2, <2>2, <2>3, <2>4 DEF Takeover
  <2> QED  BY <2>2, <2>5, <2>6, <2>7 DEF ChatInv
<1>3. CASE /\ posts' = [posts EXCEPT ![p].step = "read", ![p].until = now + Pause]
           /\ pausedTo' = now + Pause
           /\ owner' = [until |-> now + Pause, held |-> TRUE, kept |-> FALSE]
  <2> DEFINE l == [posts[p] EXCEPT !.step = "read", !.until = now + Pause]
  <2>1. /\ l \in Letters /\ l.by = posts[p].by /\ l.step = "read"
        /\ l.until = now + Pause
    <3>1. now + Pause \in Nat
      BY <1>0
    <3> QED  BY <1>1, <3>1 DEF Letters
  <2>2. posts' = [posts EXCEPT ![p] = l]
    BY <1>0, <1>1, <1>3
  <2> HIDE DEF l
  <2>3. /\ posts' \in [Chat!Posts -> Letters] /\ posts'[p] = l
        /\ \A q \in Chat!Posts : q # p => posts'[q] = posts[q]
        /\ \A q \in Chat!Posts : posts'[q].by = posts[q].by
        /\ (Chat!MadePosts = 1..Cardinality(Chat!MadePosts))'
        /\ Chat!Telegram' = Chat!Telegram
        /\ TurnSays' /\ OwnMessages' /\ (Silenced => Silenced')
    BY <1>1, <2>1, <2>2, UpdateHandled
  <2>4. /\ owner' \in [until : Nat, held : BOOLEAN, kept : BOOLEAN]
        /\ owner'.until = now + Pause /\ owner'.held /\ ~owner'.kept
        /\ now + Pause \in Nat /\ now + Pause > now
    BY <1>0, <1>3
  <2>5. ChatTypes'
    <3>1. /\ pausedTo' \in Nat /\ pausedTo' <= now' + Pause
          /\ owner'.until <= now' + Pause
      BY <1>0, <1>1, <1>3, <2>4
    <3>2. ChatTypes
      BY <1>0
    <3> QED  BY <1>1, <2>3, <2>4, <3>1, <3>2 DEF ChatTypes
  <2>6. ContactsAlone'
    BY <1>0, <1>1, <2>3 DEF ContactsAlone
  <2>7. \A q \in Chat!Posts : posts'[q].step \in {"read", "write"} =>
          \/ posts'[q].until = now + Pause
          \/ posts'[q] = posts[q]
    BY <2>1, <2>3
  <2>8. Takeover'
    BY <1>0, <1>1, <1>3, <2>3, <2>4, <2>7 DEF Takeover
  <2> QED  BY <2>3, <2>5, <2>6, <2>8 DEF ChatInv
<1> QED  BY <1>2, <1>3 DEF Chat!Outgoing

LEMMA OutgoingReadsStep ==
  ASSUME ChatInv, NEW p \in Chat!Posts, Chat!OutgoingReads(p) PROVE ChatInv'
<1> USE ChatBoundsAre
<1>0. ChatTypes /\ TurnSays /\ ContactsAlone /\ Takeover /\ OwnMessages
      /\ posts \in [Chat!Posts -> Letters]
  BY DEF ChatInv, ChatTypes
<1>1. /\ now' = now /\ thread' = thread /\ session' = session /\ reply' = reply
      /\ sendingTo' = sendingTo /\ left' = left /\ pausedTo' = pausedTo
      /\ owner' = owner /\ posts[p].step = "read" /\ posts[p] \in Letters
  BY <1>0 DEF Chat!OutgoingReads
<1> DEFINE l == [posts[p] EXCEPT !.step = "write"]
<1>2. /\ l \in Letters /\ l.by = posts[p].by /\ l.step = "write"
      /\ l.until = posts[p].until
  BY <1>0, <1>1 DEF Letters
<1>3. posts' = [posts EXCEPT ![p] = l]
  BY <1>0 DEF Chat!OutgoingReads
<1> HIDE DEF l
<1>4. /\ posts' \in [Chat!Posts -> Letters] /\ posts'[p] = l
      /\ \A q \in Chat!Posts : q # p => posts'[q] = posts[q]
      /\ \A q \in Chat!Posts : posts'[q].by = posts[q].by
      /\ (Chat!MadePosts = 1..Cardinality(Chat!MadePosts))'
      /\ Chat!Telegram' = Chat!Telegram
      /\ TurnSays' /\ OwnMessages' /\ (Silenced => Silenced')
  BY <1>1, <1>2, <1>3, UpdateHandled
<1>5. ~owner.kept /\ Chat!Telegram
  BY <1>0, <1>1 DEF Takeover, Chat!Handling
<1>6. ChatTypes'
  BY <1>0, <1>1, <1>4 DEF ChatTypes
<1>7. ContactsAlone'
  BY <1>0, <1>1, <1>4 DEF ContactsAlone
<1>8. \A q \in Chat!Posts : posts'[q].step \in {"read", "write"} =>
        posts[q].step \in {"read", "write"} /\ posts'[q].until = posts[q].until
  BY <1>1, <1>2, <1>4
<1>9. Takeover'
  BY <1>0, <1>1, <1>4, <1>5, <1>8 DEF Takeover
<1> QED  BY <1>4, <1>6, <1>7, <1>9 DEF ChatInv

LEMMA OutgoingWritesStep ==
  ASSUME ChatInv, NEW p \in Chat!Posts, Chat!OutgoingWrites(p) PROVE ChatInv'
<1> USE ChatBoundsAre
<1>0. ChatTypes /\ TurnSays /\ ContactsAlone /\ Takeover /\ OwnMessages
      /\ posts \in [Chat!Posts -> Letters] /\ now \in Nat
      /\ session \in [made : BOOLEAN, pause : Nat] /\ left \in Lefts
      /\ owner \in [until : Nat, held : BOOLEAN, kept : BOOLEAN]
  BY DEF ChatInv, ChatTypes, Lefts
<1>1. /\ now' = now /\ thread' = thread /\ reply' = reply
      /\ sendingTo' = sendingTo /\ pausedTo' = pausedTo
      /\ posts' = Chat!Handled(p, "done")
      /\ posts[p].step = "write" /\ posts[p] \in Letters
  BY <1>0 DEF Chat!OutgoingWrites
<1> DEFINE l == [Chat!NoPost EXCEPT !.by = posts[p].by, !.step = "done"]
<1>2. l \in Letters /\ l.by = posts[p].by /\ l.step = "done"
  BY <1>1 DEF Chat!NoPost, Letters
<1>3. posts' = [posts EXCEPT ![p] = l]
  BY <1>1 DEF Chat!Handled
<1> HIDE DEF l
<1>4. /\ posts' \in [Chat!Posts -> Letters] /\ posts'[p] = l
      /\ \A q \in Chat!Posts : q # p => posts'[q] = posts[q]
      /\ \A q \in Chat!Posts : posts'[q].by = posts[q].by
      /\ (Chat!MadePosts = 1..Cardinality(Chat!MadePosts))'
      /\ Chat!Telegram' = Chat!Telegram
      /\ TurnSays' /\ OwnMessages' /\ (Silenced => Silenced')
  BY <1>1, <1>2, <1>3, UpdateHandled
<1>5. /\ ~owner.kept /\ Chat!Telegram /\ posts[p].until \in Nat
      /\ posts[p].until > 0 /\ posts[p].until <= now + Pause
  BY <1>0, <1>1 DEF Takeover, Chat!Handling, Letters
<1>6. \A q \in Chat!Posts : posts'[q].step \in {"read", "write"} =>
        q # p /\ posts'[q] = posts[q]
  BY <1>2, <1>4
<1>7. Chat!Handling' = Chat!Handling \ {p}
  BY <1>2, <1>4 DEF Chat!Handling
<1>8. CASE /\ session' = [session EXCEPT !.pause = IF session.made
                                          THEN Chat!PauseWritten(p) ELSE 0]
           /\ owner' = [owner EXCEPT !.kept = @ \/ /\ session.made /\ Chat!Alone(p)
                                                   /\ posts[p].until = owner.until]
           /\ UNCHANGED left
  <2>1. /\ session' \in [made : BOOLEAN, pause : Nat] /\ session'.made = session.made
        /\ session'.pause = IF session.made THEN posts[p].until ELSE 0
    BY <1>0, <1>5, <1>8 DEF Chat!PauseWritten
  <2>2. /\ owner' \in [until : Nat, held : BOOLEAN, kept : BOOLEAN]
        /\ owner'.until = owner.until /\ owner'.held = owner.held
        /\ owner'.kept => session.made /\ Chat!Alone(p) /\ posts[p].until = owner.until
    <3> DEFINE k == session.made /\ Chat!Alone(p) /\ posts[p].until = owner.until
    <3>1. k \in BOOLEAN
      BY <1>0
    <3>2. owner' = [owner EXCEPT !.kept = owner.kept \/ k]
      BY <1>8
    <3>3. (owner.kept \/ k) \in BOOLEAN
      BY <1>0
    <3> HIDE DEF k
    <3>4. owner' \in [until : Nat, held : BOOLEAN, kept : BOOLEAN]
          /\ owner'.until = owner.until /\ owner'.held = owner.held
          /\ owner'.kept = (owner.kept \/ k)
      BY <1>0, <3>2, <3>3
    <3> QED  BY <1>5, <3>4 DEF k
  <2>3. ChatTypes'
    <3>1. session'.pause <= now' + Pause
      BY <1>0, <1>1, <1>5, <2>1
    <3>2. ChatTypes
      BY <1>0
    <3> QED  BY <1>1, <1>4, <1>8, <2>1, <2>2, <3>1, <3>2 DEF ChatTypes
  <2>4. ContactsAlone'
    BY <1>0, <1>1, <1>4, <2>1 DEF ContactsAlone
  <2>5. owner.until # 0 => owner.until > now
    BY <1>0 DEF Takeover
  <2>6. owner'.kept => /\ session'.made /\ session'.pause = owner'.until
                       /\ Chat!Handling' = {} /\ Silenced'
    BY <1>1, <1>7, <2>1, <2>2 DEF Chat!Alone, Silenced
  <2>7. owner'.held \/ owner'.kept => owner'.until > now
    BY <1>0, <1>5, <2>2, <2>5 DEF Takeover
  <2>8. reply.during # 0 /\ reply.pc = "read" =>
          session'.made /\ session'.pause >= reply.during
    BY <1>0, <1>1, <2>1 DEF Takeover
  <2>9. Takeover'
    BY <1>0, <1>1, <1>4, <1>5, <1>6, <2>2, <2>6, <2>7, <2>8 DEF Takeover
  <2> QED  BY <1>4, <2>3, <2>4, <2>9 DEF ChatInv
<1>9. CASE /\ left' = [left EXCEPT !.faults = @ - 1] /\ left.faults > 0
           /\ UNCHANGED <<session, owner>>
  <2>1. left' \in Lefts
    BY <1>0, <1>9 DEF Lefts
  <2>2. ChatTypes'
    BY <1>0, <1>1, <1>4, <1>9, <2>1 DEF ChatTypes, Lefts
  <2>3. ContactsAlone'
    BY <1>0, <1>1, <1>4, <1>9 DEF ContactsAlone
  <2>4. Takeover'
    BY <1>0, <1>1, <1>4, <1>5, <1>6, <1>9 DEF Takeover
  <2> QED  BY <1>4, <2>2, <2>3, <2>4 DEF ChatInv
<1> QED  BY <1>8, <1>9 DEF Chat!OutgoingWrites

-----------------------------------------------------------------------------
(* Restarts and the clock                                                  *)

LEMMA RestartStep == ChatInv /\ Chat!Restart => ChatInv'
<1> SUFFICES ASSUME ChatInv, Chat!Restart PROVE ChatInv'
  OBVIOUS
<1> USE ChatBoundsAre
<1>0. ChatTypes /\ TurnSays /\ ContactsAlone /\ Takeover /\ OwnMessages
      /\ posts \in [Chat!Posts -> Letters] /\ left \in Lefts
      /\ owner \in [until : Nat, held : BOOLEAN, kept : BOOLEAN]
  BY DEF ChatInv, ChatTypes, Lefts
<1>1. /\ now' = now /\ thread' = thread /\ session' = session
      /\ reply' = Chat!Idle /\ pausedTo' = 0 /\ sendingTo' = 0
      /\ owner' = [owner EXCEPT !.held = FALSE]
      /\ left.restarts > 0 /\ left' = [left EXCEPT !.restarts = @ - 1]
  BY DEF Chat!Restart, Chat!Ends
<1>2. left' \in Lefts
  BY <1>0, <1>1 DEF Lefts
<1>3. /\ owner' \in [until : Nat, held : BOOLEAN, kept : BOOLEAN]
      /\ owner'.until = owner.until /\ ~owner'.held /\ owner'.kept = owner.kept
  BY <1>0, <1>1
<1>4. /\ reply' \in Turns /\ reply'.pc = "idle" /\ reply'.post = 0 /\ reply'.since = 0
      /\ reply'.during = 0 /\ ~reply'.known /\ reply'.said = 0
  BY <1>1 DEF Chat!Idle, Turns, Chat!None
<1>5. posts' = [q \in Chat!Posts |->
        IF q \in Chat!Handling
          THEN [Chat!NoPost EXCEPT !.by = posts[q].by, !.step = "done"]
        ELSE IF posts[q].step = "sent" /\ posts[q].by = "agent"
          THEN [posts[q] EXCEPT !.mine = 0, !.orphan = TRUE]
        ELSE posts[q]]
  BY DEF Chat!Restart
<1>6. ASSUME NEW q \in Chat!Posts
      PROVE  /\ posts'[q] \in Letters /\ posts'[q].by = posts[q].by
             /\ posts'[q].step \notin {"read", "write"}
             /\ posts'[q].step \in {posts[q].step, "done"}
             /\ posts'[q].step = "sent" /\ posts'[q].by = "agent" => posts'[q].orphan
  <2>0. posts[q] \in Letters
    BY <1>0
  <2>1. CASE q \in Chat!Handling
    <3> DEFINE l == [Chat!NoPost EXCEPT !.by = posts[q].by, !.step = "done"]
    <3>1. l \in Letters /\ l.by = posts[q].by /\ l.step = "done"
      BY <2>0 DEF Chat!NoPost, Letters
    <3>2. posts'[q] = l
      BY <1>5, <2>1
    <3> HIDE DEF l
    <3> QED  BY <3>1, <3>2
  <2>2. CASE q \notin Chat!Handling /\ posts[q].step = "sent" /\ posts[q].by = "agent"
    <3> DEFINE l == [posts[q] EXCEPT !.mine = 0, !.orphan = TRUE]
    <3>1. l \in Letters /\ l.by = posts[q].by /\ l.step = posts[q].step /\ l.orphan
      BY <2>0 DEF Letters
    <3>2. posts'[q] = l
      BY <1>5, <2>2
    <3> HIDE DEF l
    <3> QED  BY <2>2, <3>1, <3>2
  <2>3. CASE q \notin Chat!Handling /\ ~(posts[q].step = "sent" /\ posts[q].by = "agent")
    <3>1. posts'[q] = posts[q]
      BY <1>5, <2>3
    <3> QED  BY <2>0, <2>3, <3>1 DEF Chat!Handling
  <2> QED  BY <2>1, <2>2, <2>3
<1>7. posts' \in [Chat!Posts -> Letters]
  <2>1. DOMAIN posts' = Chat!Posts /\ posts' = [q \in Chat!Posts |-> posts'[q]]
    BY <1>5
  <2> QED  BY <1>6, <2>1
<1>8. Chat!Handling' = {} /\ Chat!Telegram' = Chat!Telegram
  BY <1>1, <1>6 DEF Chat!Handling, Chat!Telegram
<1>9. (Chat!MadePosts = 1..Cardinality(Chat!MadePosts))'
  BY <1>0, <1>6, SameMade DEF ChatTypes
<1>10. ChatTypes'
  <2>1. /\ pausedTo' \in Nat /\ pausedTo' <= now' + Pause
        /\ sendingTo' \in Nat /\ sendingTo' <= now' + InFlight
        /\ reply'.post <= MaxPosts /\ reply'.since <= now'
    <3>1. now \in Nat
      BY <1>0 DEF ChatTypes
    <3> QED  BY <1>1, <1>4, <3>1
  <2>2. ChatTypes
    BY <1>0
  <2> QED  BY <1>1, <1>2, <1>3, <1>4, <1>7, <1>9, <2>1, <2>2 DEF ChatTypes, Lefts
<1>11. TurnSays' /\ Silenced'
  BY <1>1, <1>4 DEF TurnSays, Silenced
<1>12. ContactsAlone'
  BY <1>0, <1>1, <1>4, <1>6, <1>8 DEF ContactsAlone
<1>13. ~Chat!Telegram =>
         /\ owner'.until = 0 /\ ~owner'.held /\ ~owner'.kept
         /\ \A q \in Chat!Posts : posts'[q].step \in {"none", "done"}
  <2>1. ~Chat!Telegram => owner.until = 0 /\ ~owner.kept
          /\ \A q \in Chat!Posts : posts[q].step \in {"none", "done"}
    BY <1>0 DEF Takeover
  <2>2. \A q \in Chat!Posts :
          posts[q].step \in {"none", "done"} => posts'[q].step \in {"none", "done"}
    BY <1>6
  <2> QED  BY <1>3, <2>1, <2>2
<1>14. Takeover'
  BY <1>0, <1>1, <1>3, <1>4, <1>6, <1>8, <1>11, <1>13 DEF Takeover
<1>15. OwnMessages'
  BY <1>1, <1>4, <1>6 DEF OwnMessages
<1> QED  BY <1>10, <1>11, <1>12, <1>14, <1>15 DEF ChatInv

LEMMA TickStep == ChatInv /\ Chat!Tick => ChatInv'
<1> SUFFICES ASSUME ChatInv, Chat!Tick PROVE ChatInv'
  OBVIOUS
<1> USE ChatBoundsAre
<1>0. ChatTypes /\ TurnSays /\ ContactsAlone /\ Takeover /\ OwnMessages
      /\ posts \in [Chat!Posts -> Letters] /\ now \in Nat /\ reply \in Turns
      /\ session \in [made : BOOLEAN, pause : Nat]
      /\ owner \in [until : Nat, held : BOOLEAN, kept : BOOLEAN]
  BY DEF ChatInv, ChatTypes
<1>1. /\ now < MaxTime /\ now' = now + 1 /\ thread' = thread /\ left' = left
      /\ session' = [session EXCEPT !.pause = Chat!Lasting(session.pause)]
      /\ pausedTo' = Chat!Lasting(pausedTo) /\ sendingTo' = Chat!Lasting(sendingTo)
      /\ posts' = [q \in Chat!Posts |->
                     [posts[q] EXCEPT !.mine = Chat!Lasting(posts[q].mine)]]
      /\ reply' = [reply EXCEPT !.during = Chat!Lasting(reply.during)]
      /\ owner' = IF Chat!Lasting(owner.until) = 0 THEN Chat!NoTakeover ELSE owner
  BY DEF Chat!Tick
<1>2. \A u \in Nat : /\ Chat!Lasting(u) \in Nat
                     /\ Chat!Lasting(u) = IF u > now + 1 THEN u ELSE 0
  BY <1>0 DEF Chat!Lasting
<1>3. /\ session' \in [made : BOOLEAN, pause : Nat] /\ session'.made = session.made
      /\ session'.pause = IF session.pause > now + 1 THEN session.pause ELSE 0
  BY <1>0, <1>1, <1>2
<1>4. /\ reply' \in Turns /\ reply'.pc = reply.pc /\ reply'.post = reply.post
      /\ reply'.since = reply.since /\ reply'.known = reply.known
      /\ reply'.said = reply.said /\ reply'.what = reply.what
      /\ reply'.erred = reply.erred /\ reply.during \in Nat /\ reply.since \in Nat
      /\ reply'.during = IF reply.during > now + 1 THEN reply.during ELSE 0
  <2>1. reply.during \in Nat /\ Chat!Lasting(reply.during) \in Nat
    BY <1>0, <1>2 DEF Turns
  <2> QED  BY <1>0, <1>1, <1>2, <2>1 DEF Turns
<1>5. ASSUME NEW q \in Chat!Posts
      PROVE  /\ posts'[q] \in Letters /\ posts'[q].by = posts[q].by
             /\ posts'[q].step = posts[q].step /\ posts'[q].until = posts[q].until
             /\ posts'[q].at = posts[q].at /\ posts'[q].back = posts[q].back
             /\ posts'[q].orphan = posts[q].orphan
             /\ posts[q].at \in Nat /\ posts[q].back \in Nat /\ posts[q].until \in Nat
             /\ posts[q].mine \in Nat
             /\ posts'[q].mine = IF posts[q].mine > now + 1 THEN posts[q].mine ELSE 0
  <2>1. posts[q] \in Letters
    BY <1>0
  <2>2. posts[q].mine \in Nat /\ Chat!Lasting(posts[q].mine) \in Nat
    BY <1>2, <2>1 DEF Letters
  <2>3. posts'[q] = [posts[q] EXCEPT !.mine = Chat!Lasting(posts[q].mine)]
    BY <1>1
  <2> QED  BY <1>2, <2>1, <2>2, <2>3 DEF Letters
<1>6. posts' \in [Chat!Posts -> Letters]
  <2>1. DOMAIN posts' = Chat!Posts /\ posts' = [q \in Chat!Posts |-> posts'[q]]
    BY <1>1
  <2> QED  BY <1>5, <2>1
<1>7. /\ owner' \in [until : Nat, held : BOOLEAN, kept : BOOLEAN]
      /\ IF owner.until > now + 1 THEN owner' = owner
         ELSE owner' = Chat!NoTakeover /\ ~owner'.held /\ ~owner'.kept
              /\ owner'.until = 0
  BY <1>0, <1>1, <1>2 DEF Chat!NoTakeover
<1>8. Chat!Handling' = Chat!Handling /\ Chat!Telegram' = Chat!Telegram
  BY <1>1, <1>5 DEF Chat!Handling, Chat!Telegram
<1>9. (Chat!MadePosts = 1..Cardinality(Chat!MadePosts))'
  BY <1>0, <1>5, SameMade DEF ChatTypes
<1>10. /\ pausedTo \in Nat /\ pausedTo' = IF pausedTo > now + 1 THEN pausedTo ELSE 0
       /\ sendingTo \in Nat /\ sendingTo' = IF sendingTo > now + 1 THEN sendingTo ELSE 0
  BY <1>0, <1>1, <1>2 DEF ChatTypes
<1>11. ChatTypes'
  <2>0. /\ session.pause \in Nat /\ session.pause <= now + Pause
        /\ pausedTo <= now + Pause /\ sendingTo <= now + InFlight
    BY <1>0 DEF ChatTypes
  <2>1. now' \in Nat /\ now' <= MaxTime
    BY <1>0, <1>1
  <2> DEFINE late(u, d) == (IF u > now + 1 THEN u ELSE 0) <= now' + d
  <2>2. \A u, d \in Nat : u <= now + d => late(u, d)
    BY <1>0, <1>1
  <2>3. late(session.pause, Pause) /\ late(pausedTo, Pause) /\ late(sendingTo, InFlight)
    BY <1>10, <2>0, <2>2
  <2>4. session'.pause <= now' + Pause
    BY <1>3, <2>3
  <2>5. /\ pausedTo' \in Nat /\ pausedTo' <= now' + Pause
        /\ sendingTo' \in Nat /\ sendingTo' <= now' + InFlight
    BY <1>10, <2>3
  <2>6. ChatTypes /\ reply.post <= MaxPosts /\ reply.since <= now
        /\ owner.until <= now + Pause /\ owner.until \in Nat
    BY <1>0 DEF ChatTypes
  <2>7. reply'.post <= MaxPosts /\ reply'.since <= now'
    BY <1>0, <1>1, <1>4, <2>6
  <2>8. owner'.until <= now' + Pause
    <3>1. CASE owner.until > now + 1
      BY <1>0, <1>1, <1>7, <2>6, <3>1
    <3>2. CASE ~(owner.until > now + 1)
      BY <1>1, <1>7, <2>1, <3>2
    <3> QED  BY <3>1, <3>2
  <2> QED  BY <1>1, <1>3, <1>4, <1>6, <1>7, <1>9, <2>1, <2>4, <2>5, <2>6, <2>7, <2>8
           DEF ChatTypes
<1>12. TurnSays'
  <2>1. reply.pc = "idle" => reply' = Chat!Idle
    <3>1. ASSUME reply.pc = "idle" PROVE reply' = Chat!Idle
      <4>1. reply = Chat!Idle /\ reply.during = 0
        BY <1>0, <3>1 DEF TurnSays, Chat!Idle
      <4>2. Chat!Lasting(reply.during) = reply.during
        BY <1>0, <1>2, <4>1
      <4>3. reply' = [reply EXCEPT !.during = reply.during]
        BY <1>1, <4>2
      <4> QED  BY <1>0, <4>1, <4>3 DEF Turns, Chat!Idle
    <3> QED  BY <3>1
  <2> QED  BY <1>0, <1>4, <2>1 DEF TurnSays
<1>13. Silenced => Silenced'
  BY <1>4 DEF Silenced
<1>14. ContactsAlone'
  <2>1. ContactsAlone /\ session.pause \in Nat
    BY <1>0
  <2>2. session.pause = 0 => session'.pause = 0
    BY <1>3, <2>1
  <2> QED  BY <1>1, <1>3, <1>4, <1>5, <1>8, <2>1, <2>2 DEF ContactsAlone
<1>15. Takeover'
  <2>1. owner'.held => pausedTo' = owner'.until
    BY <1>0, <1>7, <1>10 DEF Takeover
  <2>2. owner'.kept => /\ session'.made /\ session'.pause = owner'.until
                       /\ Chat!Handling' = {} /\ Silenced'
    BY <1>0, <1>3, <1>7, <1>8, <1>13 DEF Takeover
  <2>3. /\ owner'.held \/ owner'.kept => owner'.until > now'
        /\ owner'.until # 0 => owner'.until > now'
    BY <1>1, <1>7
  <2>4. \A q \in Chat!Posts : posts'[q].step \in {"read", "write"} =>
          posts'[q].until > 0 /\ posts'[q].until <= now' + Pause
    <3>1. \A q \in Chat!Posts : posts[q].step \in {"read", "write"} =>
            posts[q].until > 0 /\ posts[q].until <= now + Pause
      BY <1>0 DEF Takeover
    <3>2. \A u \in Nat : u <= now + Pause => u <= now' + Pause
      BY <1>0, <1>1
    <3> QED  BY <1>5, <3>1, <3>2
  <2>5. reply'.during # 0 =>
          /\ Silenced'
          /\ reply'.during > now' /\ reply'.during <= now' + Pause
          /\ reply'.pc = "read" =>
               /\ session'.made /\ session'.pause >= reply'.during
               /\ \A q \in Chat!Posts : posts'[q].step \in {"read", "write"} =>
                    posts'[q].until >= reply'.during
    <3>1. reply'.during # 0 => reply'.during = reply.during /\ reply.during > now + 1
      BY <1>0, <1>4
    <3>2. reply.during # 0 =>
            /\ Silenced /\ reply.during <= now + Pause
            /\ reply.pc = "read" =>
                 /\ session.made /\ session.pause >= reply.during
                 /\ \A q \in Chat!Posts : posts[q].step \in {"read", "write"} =>
                      posts[q].until >= reply.during
      BY <1>0 DEF Takeover
    <3>3. reply.during > now + 1 /\ session.pause >= reply.during =>
            session'.pause = session.pause
      BY <1>0, <1>3, <1>4
    <3>4. reply.during <= now + Pause => reply.during <= now' + Pause
      BY <1>0, <1>1, <1>4
    <3>5. reply.during > now + 1 => reply.during > now' /\ reply.during # 0
      BY <1>0, <1>1, <1>4
    <3> QED  BY <1>3, <1>4, <1>5, <1>13, <3>1, <3>2, <3>3, <3>4, <3>5
  <2>6. ~Chat!Telegram' =>
          /\ owner'.until = 0 /\ ~owner'.held /\ ~owner'.kept /\ reply'.during = 0
          /\ \A q \in Chat!Posts : posts'[q].step \in {"none", "done"}
    BY <1>0, <1>4, <1>5, <1>7, <1>8 DEF Takeover
  <2> QED  BY <1>0, <1>4, <1>8, <2>1, <2>2, <2>3, <2>4, <2>5, <2>6 DEF Takeover
<1>16. OwnMessages'
  <2>1. sendingTo' # 0 => reply'.pc \in {"post", "return"}
    BY <1>0, <1>4, <1>10 DEF OwnMessages
  <2>2. Chat!Telegram' /\ reply'.pc \in {"post", "return"} =>
          (now' < reply'.since + InFlight => sendingTo' = reply'.since + InFlight)
    BY <1>0, <1>1, <1>4, <1>8, <1>10 DEF OwnMessages
  <2>3. ASSUME NEW q \in Chat!Posts, posts'[q].by = "agent",
               posts'[q].step = "sent", ~posts'[q].orphan
        PROVE  \/ /\ reply'.pc = "return" /\ reply'.post = q
                  /\ posts'[q].at = reply'.since /\ posts'[q].back = 0
               \/ /\ posts'[q].at <= posts'[q].back /\ posts'[q].back <= now'
                  /\ now' < posts'[q].back + Track =>
                       posts'[q].mine = posts'[q].back + Track
    <3>1. \/ /\ reply.pc = "return" /\ reply.post = q
             /\ posts[q].at = reply.since /\ posts[q].back = 0
          \/ /\ posts[q].at <= posts[q].back /\ posts[q].back <= now
             /\ now < posts[q].back + Track => posts[q].mine = posts[q].back + Track
      BY <1>0, <1>5, <2>3 DEF OwnMessages
    <3>2. /\ posts'[q].at = posts[q].at /\ posts'[q].back = posts[q].back
          /\ posts[q].at \in Nat /\ posts[q].back \in Nat /\ posts[q].mine \in Nat
          /\ posts'[q].mine = IF posts[q].mine > now + 1 THEN posts[q].mine ELSE 0
      BY <1>5
    <3> QED  BY <1>0, <1>1, <1>4, <3>1, <3>2
  <2>4. reply'.pc = "return" =>
          reply'.post \in Chat!Posts /\ posts'[reply'.post].by = "agent"
    BY <1>0, <1>4, <1>5 DEF OwnMessages
  <2> QED  BY <2>1, <2>2, <2>3, <2>4 DEF OwnMessages
<1> QED  BY <1>11, <1>12, <1>14, <1>15, <1>16 DEF ChatInv

LEMMA ChatRests == ChatInv /\ UNCHANGED chat => ChatInv'
<1> SUFFICES ASSUME ChatInv, UNCHANGED chat PROVE ChatInv'
  OBVIOUS
<1>1. UNCHANGED <<now, thread, session, pausedTo, sendingTo, reply, posts, owner, left>>
  BY DEF chat
<1>2. /\ Chat!Telegram' = Chat!Telegram /\ Chat!Handling' = Chat!Handling
      /\ Chat!MadePosts' = Chat!MadePosts /\ (Silenced => Silenced')
  BY <1>1 DEF Chat!Telegram, Chat!Handling, Chat!MadePosts, Silenced
<1>3. ChatTypes' /\ TurnSays'
  BY <1>1, <1>2 DEF ChatInv, ChatTypes, TurnSays
<1>4. ContactsAlone' /\ Takeover'
  BY <1>1, <1>2 DEF ChatInv, ContactsAlone, Takeover
<1>5. OwnMessages'
  BY <1>1, <1>2 DEF ChatInv, OwnMessages
<1> QED  BY <1>3, <1>4, <1>5 DEF ChatInv

LEMMA ChatSteps == ChatInv /\ [Chat!Next]_chat => ChatInv'
BY WithinStep, SendStep, PostStep, ReturnStep, OwnerWritesStep, OutgoingStep,
   OutgoingReadsStep, OutgoingWritesStep, RestartStep, TickStep, ChatRests
   DEF Chat!Next, Chat!Turn, Within

\* Only Post makes the turn say more, and nothing else than a refusal is held
\* against a turn that began in a takeover.
LEMMA PauseStep ==
  ChatInv /\ [Chat!Next]_chat =>
    (Chat!SaysNow /\ reply.what # "refusal" => reply.during = 0)
<1> SUFFICES ASSUME ChatInv, [Chat!Next]_chat, Chat!SaysNow, reply.what # "refusal"
             PROVE  reply.during = 0
  OBVIOUS
<1>0. reply \in Turns /\ left \in Lefts
  BY DEF ChatInv, ChatTypes, Lefts
<1>1. reply'.said > reply.said
  BY DEF Chat!SaysNow
<1>2. ASSUME reply' = Chat!Idle \/ reply'.said = reply.said PROVE FALSE
  <2>1. reply'.said = 0 \/ reply'.said = reply.said
    BY <1>2 DEF Chat!Idle
  <2>2. reply.said \in Nat
    BY <1>0 DEF Turns
  <2> QED  BY <1>1, <2>1, <2>2
<1>3. CASE Within
  <2>1. \A pc \in {"hear", "classify", "mark", "chat"} :
          Chat!GoesTo(pc) => reply'.said = reply.said
    BY GoesToIs DEF Stays, Same
  <2>2. \A pc \in {"failed", "refused"} : Chat!Throws(pc) => reply'.said = reply.said
    BY ThrowsIs DEF Stays, Same
  <2>3. reply' = Chat!Idle \/ reply'.said = reply.said \/ reply'.said = 0
    BY <1>0, <1>3, <2>1, <2>2
       DEF Within, Turns, Chat!Ends, Chat!Idle, Chat!Arrive, Chat!Gate, Chat!ReadSession,
           Chat!EnsureWhatsApp, Chat!Hear, Chat!Classify, Chat!EnsureSession,
           Chat!Mark, Chat!Chat, Chat!Failed, Chat!Refused, Chat!Finish
  <2>4. reply.said \in Nat
    BY <1>0 DEF Turns
  <2> QED  BY <1>1, <1>2, <2>3, <2>4
<1>4. CASE Chat!Send
  BY <1>0, <1>2, <1>4 DEF Chat!Send, Turns
<1>5. CASE Chat!Post
  BY <1>5 DEF Chat!Post, ChatInv, Takeover, Silenced
<1>6. CASE Chat!Return
  BY <1>0, <1>2, <1>6, SendThrowsIs
     DEF Chat!Return, Chat!AfterSend, Chat!GoesTo, Chat!Ends, Turns, Stays, Same
<1>7. CASE \/ Chat!OwnerWrites \/ Chat!Restart
           \/ \E p \in Chat!Posts : \/ Chat!Outgoing(p) \/ Chat!OutgoingReads(p)
                                    \/ Chat!OutgoingWrites(p)
  BY <1>2, <1>7 DEF Chat!OwnerWrites, Chat!Outgoing, Chat!OutgoingReads,
     Chat!OutgoingWrites, Chat!Restart, Chat!Ends
<1>8. CASE Chat!Tick
  <2>1. reply' = [reply EXCEPT !.during = Chat!Lasting(reply.during)]
    BY <1>8 DEF Chat!Tick
  <2> QED  BY <1>0, <1>2, <2>1 DEF Turns
<1>9. CASE UNCHANGED chat
  BY <1>2, <1>9 DEF chat
<1> QED
  BY <1>3, <1>4, <1>5, <1>6, <1>7, <1>8, <1>9 DEF Chat!Next, Chat!Turn, Within

\* Only the update about a message tells whose it is.
LEMMA TouchedByUpdates ==
  ChatInv /\ [Chat!Next]_chat =>
    \A p \in Chat!Posts :
      posts[p].step = "sent" /\ posts'[p].step \in {"read", "ignored"} =>
        Chat!Outgoing(p)
<1> SUFFICES ASSUME ChatInv, [Chat!Next]_chat, NEW p \in Chat!Posts,
                    posts[p].step = "sent", posts'[p].step \in {"read", "ignored"}
             PROVE  Chat!Outgoing(p)
  OBVIOUS
<1>0. ChatTypes /\ OwnMessages /\ posts \in [Chat!Posts -> Letters]
      /\ posts[p] \in Letters
  BY DEF ChatInv, ChatTypes
<1>1. CASE Within \/ Chat!Send
  BY <1>1 DEF Within, Chat!Send, Chat!Arrive, Chat!Gate, Chat!ReadSession,
     Chat!EnsureWhatsApp, Chat!Hear, Chat!Classify, Chat!EnsureSession,
     Chat!Mark, Chat!Chat, Chat!Failed, Chat!Refused, Chat!Finish
<1>2. CASE Chat!Post \/ Chat!OwnerWrites
  <2>1. PICK q \in Chat!Posts, l \in Letters :
          /\ l.step \in {"sent", "done"}
          /\ posts' = [posts EXCEPT ![q] = l] \/ posts' = posts
    <3>1. CASE Chat!Post
      <4> DEFINE l == [Chat!NoPost EXCEPT !.by = "agent",
                         !.step = IF Chat!Telegram THEN "sent" ELSE "done",
                         !.at = IF Chat!Telegram THEN reply.since ELSE 0]
      <4>1. reply.since \in Nat
        BY <1>0 DEF ChatTypes, Turns
      <4>2. l \in Letters /\ l.step \in {"sent", "done"}
        BY <4>1 DEF Chat!NoPost, Letters
      <4>3. /\ Chat!Cardinality(Chat!MadePosts) + 1 \in Chat!Posts
            /\ \/ posts' = [posts EXCEPT ![Chat!Cardinality(Chat!MadePosts) + 1] = l]
               \/ posts' = posts
        BY <3>1 DEF Chat!Post
      <4> HIDE DEF l
      <4> QED  BY <4>2, <4>3
    <3>2. CASE Chat!OwnerWrites
      <4> DEFINE l == [Chat!NoPost EXCEPT !.by = "owner", !.step = "sent"]
      <4>1. l \in Letters /\ l.step = "sent"
        BY DEF Chat!NoPost, Letters
      <4>2. /\ Chat!Cardinality(Chat!MadePosts) + 1 \in Chat!Posts
            /\ posts' = [posts EXCEPT ![Chat!Cardinality(Chat!MadePosts) + 1] = l]
        BY <3>2 DEF Chat!OwnerWrites
      <4> HIDE DEF l
      <4> QED  BY <4>1, <4>2
    <3> QED  BY <1>2, <3>1, <3>2
  <2> QED  BY <1>0, <2>1
<1>3. CASE Chat!Return
  <2>1. reply.post \in Chat!Posts
    BY <1>0, <1>3 DEF Chat!Return, OwnMessages
  <2>2. \/ posts' = posts
        \/ posts' = [posts EXCEPT ![reply.post] =
                       [posts[reply.post] EXCEPT !.mine = Chat!Tracked, !.back = now]]
        \/ posts' = [posts EXCEPT ![reply.post] =
                       [posts[reply.post] EXCEPT !.orphan = TRUE]]
    BY <1>3 DEF Chat!Return
  <2>3. PICK l \in Letters : /\ l.step = posts[reply.post].step
                             /\ posts' = [posts EXCEPT ![reply.post] = l]
    <3> DEFINE o == posts[reply.post]
    <3>1. o \in Letters /\ Chat!Tracked \in Nat /\ now \in Nat
      BY <1>0, <2>1, ChatBoundsAre DEF Chat!Tracked, ChatTypes
    <3>2. LET l == [o EXCEPT !.mine = Chat!Tracked, !.back = now]
          IN  l \in Letters /\ l.step = o.step
      BY <3>1 DEF Letters
    <3>3. LET l == [o EXCEPT !.orphan = TRUE] IN l \in Letters /\ l.step = o.step
      BY <3>1 DEF Letters
    <3>4. posts = [posts EXCEPT ![reply.post] = o]
      BY <1>0, <2>1
    <3> QED  BY <2>2, <3>1, <3>2, <3>3, <3>4
  <2>4. posts'[p].step = posts[p].step
    BY <1>0, <2>1, <2>3
  <2> QED  BY <2>4
<1>4. ASSUME NEW q \in Chat!Posts, Chat!Outgoing(q) PROVE Chat!Outgoing(p)
  <2>1. CASE q = p
    BY <1>4, <2>1
  <2>2. CASE q # p
    BY <1>0, <1>4, <2>2 DEF Chat!Outgoing, Chat!Handled
  <2> QED  BY <2>1, <2>2
<1>5. ASSUME NEW q \in Chat!Posts, Chat!OutgoingReads(q) \/ Chat!OutgoingWrites(q)
      PROVE  FALSE
  BY <1>0, <1>5 DEF Chat!OutgoingReads, Chat!OutgoingWrites, Chat!Handled
<1>6. CASE Chat!Restart
  <2>1. p \notin Chat!Handling
    BY DEF Chat!Handling
  <2>2. posts'[p] = IF posts[p].step = "sent" /\ posts[p].by = "agent"
                    THEN [posts[p] EXCEPT !.mine = 0, !.orphan = TRUE] ELSE posts[p]
    BY <1>6, <2>1 DEF Chat!Restart
  <2>3. posts'[p].step = posts[p].step
    BY <1>0, <2>2 DEF Letters
  <2> QED  BY <2>3
<1>7. CASE Chat!Tick
  <2>1. posts'[p] = [posts[p] EXCEPT !.mine = Chat!Lasting(posts[p].mine)]
    BY <1>7 DEF Chat!Tick
  <2>2. posts'[p].step = posts[p].step
    BY <1>0, <2>1 DEF Letters
  <2> QED  BY <2>2
<1>8. CASE UNCHANGED chat
  BY <1>8 DEF chat
<1> QED
  BY <1>1, <1>2, <1>3, <1>4, <1>5, <1>6, <1>7, <1>8
     DEF Chat!Next, Chat!Turn, Within

LEMMA EchoStep ==
  ChatInv /\ [Chat!Next]_chat =>
    \A p \in Chat!Posts :
      posts[p].by = "agent" /\ posts[p].step = "sent" /\ posts'[p].step = "read" =>
        \/ posts[p].orphan
        \/ /\ now >= posts[p].at + InFlight
           /\ posts[p].back # 0 => now >= posts[p].back + Track
<1> SUFFICES ASSUME ChatInv, [Chat!Next]_chat, NEW p \in Chat!Posts,
                    posts[p].by = "agent", posts[p].step = "sent",
                    posts'[p].step = "read", ~posts[p].orphan
             PROVE  /\ now >= posts[p].at + InFlight
                    /\ posts[p].back # 0 => now >= posts[p].back + Track
  OBVIOUS
<1> USE ChatBoundsAre
<1>0. posts \in [Chat!Posts -> Letters] /\ posts[p] \in Letters /\ now \in Nat
      /\ reply.since \in Nat
  BY DEF ChatInv, ChatTypes, Turns
<1>1. Chat!Outgoing(p)
  BY TouchedByUpdates
<1>2. posts[p].mine <= now /\ sendingTo <= now /\ Chat!Telegram
  BY <1>0, <1>1 DEF Chat!Outgoing, Chat!Handled, Chat!NoPost
<1>3. posts[p].at \in Nat /\ posts[p].back \in Nat /\ posts[p].mine \in Nat
  BY <1>0 DEF Letters
<1>4. CASE reply.pc = "return" /\ posts[p].at = reply.since /\ posts[p].back = 0
  <2>1. now < reply.since + InFlight => sendingTo = reply.since + InFlight
    BY <1>2, <1>4 DEF ChatInv, OwnMessages
  <2> QED  BY <1>0, <1>2, <1>4, <2>1 DEF ChatInv, ChatTypes
<1>5. CASE /\ posts[p].at <= posts[p].back /\ posts[p].back <= now
           /\ now < posts[p].back + Track => posts[p].mine = posts[p].back + Track
  BY <1>0, <1>2, <1>3, <1>5
<1> QED  BY <1>4, <1>5 DEF ChatInv, OwnMessages

LEMMA DeafStep ==
  ChatInv /\ [Chat!Next]_chat =>
    \A p \in Chat!Posts :
      posts[p].by = "owner" /\ posts'[p].step = "ignored" /\ posts[p].step = "sent" =>
        reply.pc \in {"post", "return"}
<1> SUFFICES ASSUME ChatInv, [Chat!Next]_chat, NEW p \in Chat!Posts,
                    posts'[p].step = "ignored", posts[p].step = "sent",
                    posts[p].by = "owner"
             PROVE  reply.pc \in {"post", "return"}
  OBVIOUS
<1>0. posts \in [Chat!Posts -> Letters] /\ now \in Nat /\ sendingTo \in Nat
      /\ posts[p] \in Letters
  BY DEF ChatInv, ChatTypes
<1>1. Chat!Outgoing(p)
  BY TouchedByUpdates
<1>2. sendingTo > now
  <2>1. posts' = [posts EXCEPT ![p].step = "read", ![p].until = now + Pause]
          => posts'[p].step = "read"
    BY <1>0 DEF Letters
  <2>2. posts' = Chat!Handled(p, "done") => posts'[p].step = "done"
    BY <1>0 DEF Chat!Handled, Chat!NoPost
  <2> QED  BY <1>1, <2>1, <2>2 DEF Chat!Outgoing
<1> QED  BY <1>0, <1>2 DEF ChatInv, OwnMessages

LEMMA OfChat == [MCNext]_<<part, vars, catalog, chat>> => [Chat!Next]_chat
BY DEF MCNext

ChatIsWell ==
  part = "chat" =>
    /\ Chat!TypeOK
    /\ Chat!OneMessagePerTurn /\ Chat!ContactsLeftAlone
PauseAct == Chat!SaysNow /\ reply.what # "refusal" => reply.during = 0
EchoAct ==
  \A p \in Chat!Posts :
    posts[p].by = "agent" /\ posts[p].step = "sent" /\ posts'[p].step = "read" =>
      \/ posts[p].orphan
      \/ /\ now >= posts[p].at + InFlight
         /\ posts[p].back # 0 => now >= posts[p].back + Track
DeafAct ==
  \A p \in Chat!Posts :
    posts[p].by = "owner" /\ posts'[p].step = "ignored" /\ posts[p].step = "sent" =>
      reply.pc \in {"post", "return"}

\* However a turn, the updates about messages, failing calls and restarts
\* overlap: a turn that began in a takeover of the owner's says nothing but
\* that the agent is not entitled, the agent's messages are not taken for the
\* owner's, and a saved contact who is no customer is not written to
\* (processIncoming, safeReply, handleOutgoing).
THEOREM ChatsAreKept == MCSpec => ChatsKept
<1>1. MCInit => ChatInv
  BY ChatStarts DEF MCInit
<1>2. ChatInv /\ [MCNext]_<<part, vars, catalog, chat>> =>
        ChatInv' /\ [PauseAct]_chat /\ [EchoAct]_chat /\ [DeafAct]_chat
  BY OfChat, ChatSteps, PauseStep, EchoStep, DeafStep DEF PauseAct, EchoAct, DeafAct
<1>3. ChatInv => ChatIsWell
  BY ChatHolds DEF ChatIsWell
<1>4. ChatsKept <=> []ChatIsWell /\ [][PauseAct]_chat /\ [][EchoAct]_chat
                      /\ [][DeafAct]_chat
  <2>1. Chat!PauseHonoured <=> [][PauseAct]_chat
    BY DEF PauseAct, chat, Chat!vars, Chat!PauseHonoured
  <2>2. Chat!OwnEchoKnown <=> [][EchoAct]_chat
    BY DEF EchoAct, chat, Chat!vars, Chat!OwnEchoKnown
  <2>3. Chat!DeafOnlyWhileSending <=> [][DeafAct]_chat
    BY DEF DeafAct, chat, Chat!vars, Chat!DeafOnlyWhileSending
  <2>4. ChatsKept <=> []ChatIsWell /\ Chat!PauseHonoured /\ Chat!OwnEchoKnown
                        /\ Chat!DeafOnlyWhileSending
    BY DEF ChatsKept, ChatIsWell
  <2> QED  BY <2>1, <2>2, <2>3, <2>4
<1> QED  BY <1>1, <1>2, <1>3, <1>4, PTL DEF MCSpec

=============================================================================
