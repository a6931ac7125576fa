---------------------------- MODULE AccountProofs ----------------------------
(***************************************************************************)
(* Proofs about PaperAccount: its types, that the store follows the        *)
(* broker, that purchases stay within the cash, that the account is a      *)
(* ledger across restarts between calls, that its books agree and cover    *)
(* the delivery sells, and that its profit is the cash's.                  *)
(***************************************************************************)
EXTENDS PaperAccount, TLAPS, SequenceTheorems, SumTheorems

-----------------------------------------------------------------------------
(* Jobs.                                                                   *)

Context == [open: Prices, high: Prices, low: Prices, last: Prices]

\* A job is in a list.
Has(s, j) == \E k \in DOMAIN s : s[k] = j

\* Taking the first job leaves the others.
LEMMA HasTail ==
  ASSUME NEW S, NEW s \in Seq(S), s # <<>>, NEW j, Has(s, j), Head(s) # j
  PROVE  Has(Tail(s), j)
<1>1. PICK k \in DOMAIN s : s[k] = j
  BY DEF Has
<1>2. k # 1
  BY <1>1
<1>3. k - 1 \in DOMAIN Tail(s) /\ Tail(s)[k - 1] = j
  BY <1>1, <1>2
<1> QED BY <1>3 DEF Has

\* Putting jobs in front keeps the others.
LEMMA HasConcat ==
  ASSUME NEW S, NEW a \in Seq(S), NEW b \in Seq(S), NEW j, Has(a, j) \/ Has(b, j)
  PROVE  Has(a \o b, j)
<1>1. CASE Has(a, j)
  BY <1>1 DEF Has
<1>2. CASE Has(b, j)
  <2>1. PICK k \in DOMAIN b : b[k] = j
    BY <1>2 DEF Has
  <2>2. Len(a) + k \in DOMAIN (a \o b) /\ (a \o b)[Len(a) + k] = j
    BY <2>1
  <2> QED BY <2>2 DEF Has
<1> QED BY <1>1, <1>2

\* The fields of a job, by what it does.
LEMMA JobFields ==
  ASSUME NEW S, NEW j \in Job(S)
  PROVE  /\ j.job = "try" => j.id \in S /\ j.px \in Context /\ j.now \in BOOLEAN
         /\ j.job = "match" => j.ids \subseteq S /\ j.px \in Context
         /\ j.job = "order" => j.id \in S /\ j = SaveOrder(j.id)
         /\ j.job = "position" =>
              j.product \in Product /\ j = [job |-> "position", product |-> j.product]
         /\ j.job = "fill" => j = [job |-> "fill"]
         /\ j.job = "account" => j = SaveAccount
  BY DEF Job, Context, SaveOrder, SaveAccount

\* The jobs the calls make.
LEMMA JobsMade ==
  ASSUME NEW S
  PROVE  /\ \A o \in S, px \in Context, now \in BOOLEAN : Try(o, px, now) \in Job(S)
         /\ \A ids \in SUBSET S, px \in Context : Match(ids, px) \in Job(S)
         /\ \A o \in S : SaveOrder(o) \in Job(S)
         /\ \A p \in Product : [job |-> "position", product |-> p] \in Job(S)
         /\ SaveAccount \in Job(S) /\ [job |-> "fill"] \in Job(S)
  BY DEF Job, Context, Try, Match, SaveOrder, SaveAccount

\* Jobs about some orders are jobs about more.
LEMMA JobsGrow ==
  ASSUME NEW S, NEW T, S \subseteq T
  PROVE  Seq(Job(S)) \subseteq Seq(Job(T))
<1>1. Job(S) \subseteq Job(T)
  BY DEF Job
<1> QED BY <1>1, SeqMonotonic

\* A list of one job has it.
LEMMA Singleton ==
  ASSUME NEW S, NEW e \in S
  PROVE  <<e>> \in Seq(S) /\ Has(<<e>>, e)
<1>1. <<e>> \in Seq(S)
  OBVIOUS
<1>2. 1 \in DOMAIN <<e>> /\ <<e>>[1] = e
  OBVIOUS
<1> QED BY <1>1, <1>2 DEF Has

\* The writes of a fill.
LEMMA SaveFillMakes ==
  ASSUME NEW S, NEW o \in S, NEW p \in Product
  PROVE  /\ SaveFill(o, p) \in Seq(Job(S))
         /\ Has(SaveFill(o, p), [job |-> "fill"])
         /\ Has(SaveFill(o, p), [job |-> "position", product |-> p])
         /\ Has(SaveFill(o, p), SaveAccount)
         /\ Has(SaveFill(o, p), SaveOrder(o))
<1> DEFINE f == [job |-> "fill"]
           q == [job |-> "position", product |-> p]
           s == <<f, q, SaveAccount, SaveOrder(o)>>
<1>1. f \in Job(S) /\ q \in Job(S) /\ SaveAccount \in Job(S) /\ SaveOrder(o) \in Job(S)
  BY JobsMade
<1>2. s \in Seq(Job(S))
  BY <1>1
<1>3. DOMAIN s = 1..4 /\ s[1] = f /\ s[2] = q /\ s[3] = SaveAccount /\ s[4] = SaveOrder(o)
  OBVIOUS
<1>4. 1 \in 1..4 /\ 2 \in 1..4 /\ 3 \in 1..4 /\ 4 \in 1..4
  OBVIOUS
<1> HIDE DEF s
<1>5. SaveFill(o, p) = s
  BY DEF s, SaveFill
<1> QED BY <1>2, <1>3, <1>4, <1>5 DEF Has
-----------------------------------------------------------------------------
(* Orders, prices and positions.                                           *)

\* The size of what is not flat is positive.
LEMMA MagnitudePositive ==
  ASSUME NEW q \in Int, q # 0
  PROVE  Magnitude(q) \in Nat \ {0}
  BY DEF Magnitude

\* A request makes a well-formed order with nothing filled.
LEMMA RequestMakes ==
  ASSUME NEW r \in Requests
  PROVE  /\ WellFormed(FromRequest(r)) /\ FromRequest(r).filled = 0
         /\ WellFormed([FromRequest(r) EXCEPT !.status = "REJECTED"])
         /\ [FromRequest(r) EXCEPT !.status = "REJECTED"].filled = 0
<1>1. /\ r.product \in Product /\ r.side \in {BUY, SELL} /\ r.qty \in Nat \ {0}
      /\ r.type \in {"MARKET", "LIMIT", "SL", "SLM"}
      /\ r.price \in Prices \cup {None} /\ r.trigger \in Prices \cup {None}
      /\ r.type \in {"LIMIT", "SL"} => r.price \in Prices
      /\ r.type \in {"SL", "SLM"} => r.trigger \in Prices
  BY AccountAssumption
<1> QED BY <1>1 DEF FromRequest, WellFormed, OrderType, Status, Working, Stopped

\* Closing a position makes a well-formed order with nothing filled.
LEMMA ClosingMakes ==
  ASSUME NEW p \in Product, NEW q \in Int, q # 0
  PROVE  WellFormed(Closing(p, q)) /\ Closing(p, q).filled = 0
<1>1. Magnitude(q) \in Nat \ {0}
  BY MagnitudePositive
<1> QED BY <1>1 DEF Closing, FromRequest, WellFormed, OrderType, Status, Working, Stopped,
                    None

\* Denominators stay positive.
LEMMA ProductPositive ==
  ASSUME NEW a \in Nat \ {0}, NEW b \in Nat \ {0}
  PROVE  a * b \in Nat \ {0}
  OBVIOUS

\* Fractions are closed under the operations on them.
LEMMA Fractions ==
  /\ \A n \in Int : Whole(n) \in Fraction
  /\ \A a, b \in Fraction : Plus(a, b) \in Fraction
  /\ \A k \in Int, a \in Fraction : Times(k, a) \in Fraction
  /\ \A k \in Nat \ {0}, a \in Fraction : Over(a, k) \in Fraction
<1>1. \A n \in Int : Whole(n) \in Fraction
  BY DEF Whole, Fraction
<1>2. ASSUME NEW a \in Fraction, NEW b \in Fraction
      PROVE  Plus(a, b) \in Fraction
  <2>1. a[1] \in Int /\ a[2] \in Nat \ {0} /\ b[1] \in Int /\ b[2] \in Nat \ {0}
    BY DEF Fraction
  <2>2. a[2] * b[2] \in Nat \ {0}
    BY <2>1, ProductPositive
  <2>3. a[1] * b[2] + b[1] * a[2] \in Int
    BY <2>1
  <2> QED BY <2>2, <2>3 DEF Plus, Fraction
<1>3. ASSUME NEW k \in Int, NEW a \in Fraction
      PROVE  Times(k, a) \in Fraction
  <2>1. a[1] \in Int /\ a[2] \in Nat \ {0}
    BY DEF Fraction
  <2>2. k * a[1] \in Int
    BY <2>1
  <2> QED BY <2>1, <2>2 DEF Times, Fraction
<1>4. ASSUME NEW k \in Nat \ {0}, NEW a \in Fraction
      PROVE  Over(a, k) \in Fraction
  <2>1. a[1] \in Int /\ a[2] \in Nat \ {0}
    BY DEF Fraction
  <2>2. a[2] * k \in Nat \ {0}
    BY <2>1, ProductPositive
  <2> QED BY <2>1, <2>2 DEF Over, Fraction
<1> QED BY <1>1, <1>2, <1>3, <1>4

\* The smaller of two quantities.
LEMMA MinOf ==
  ASSUME NEW a \in Int, NEW b \in Int
  PROVE  Min({a, b}) = IF a <= b THEN a ELSE b
<1>1. Min({a, b}) = CHOOSE x \in {a, b} : \A y \in {a, b} : x <= y
  BY DEF Min
<1>2. \E x \in {a, b} : \A y \in {a, b} : x <= y
  <2>1. CASE a <= b
    BY <2>1
  <2>2. CASE b <= a
    BY <2>2
  <2> QED BY <2>1, <2>2
<1>3. Min({a, b}) \in {a, b} /\ \A y \in {a, b} : Min({a, b}) <= y
  BY <1>1, <1>2
<1> QED BY <1>3

\* Booking a fill on a position keeps its type.
LEMMA AppliedTyped ==
  ASSUME NEW pos \in PositionType, NEW signed \in Int, signed # 0, NEW p \in Prices
  PROVE  /\ Applied(pos, signed, p) \in PositionType
         /\ Applied(pos, signed, p).qty = pos.qty + signed
         /\ Valued(Applied(pos, signed, p))
<1> DEFINE new == pos.qty + signed
           opening == pos.qty = 0 \/ (pos.qty > 0) = (signed > 0)
           flipped == new # 0 /\ (new > 0) # (pos.qty > 0)
           sign == IF pos.qty > 0 THEN 1 ELSE -1
           least == Min({Magnitude(pos.qty), Magnitude(signed)})
           closed == least * sign
           opened == Over(Plus(Times(Magnitude(pos.qty), pos.avg), Whole(p * Magnitude(signed))),
                          Magnitude(new))
           gained == Plus(pos.realised, Times(closed, Plus(Whole(p), Times(-1, pos.avg))))
           a == IF opening THEN opened
                ELSE IF new = 0 THEN Whole(0) ELSE IF flipped THEN Whole(p) ELSE pos.avg
           g == IF opening THEN pos.realised ELSE gained
<1>1. /\ pos.qty \in Int /\ pos.avg \in Fraction /\ pos.realised \in Fraction /\ pos.fees \in Nat
  BY DEF PositionType
<1>2. p \in Int /\ Fee \in Nat /\ new \in Int
  BY <1>1, AccountAssumption
<1>3. Magnitude(pos.qty) \in Int /\ Magnitude(signed) \in Int
  BY <1>1 DEF Magnitude
<1>4. opening => Magnitude(new) \in Nat \ {0}
  <2>1. opening => new # 0
    BY <1>1
  <2> QED BY <2>1, <1>2, MagnitudePositive
<1>5. opening => opened \in Fraction
  <2>1. p * Magnitude(signed) \in Int
    BY <1>2, <1>3
  <2>2. Plus(Times(Magnitude(pos.qty), pos.avg), Whole(p * Magnitude(signed))) \in Fraction
    BY <1>1, <1>3, <2>1, Fractions
  <2> QED BY <2>2, <1>4, Fractions
<1>6. gained \in Fraction
  <2>1. least \in Int
    BY <1>3, MinOf
  <2>2. closed \in Int
    BY <2>1
  <2> HIDE DEF closed
  <2>3. Times(-1, pos.avg) \in Fraction /\ Whole(p) \in Fraction
    BY <1>1, <1>2, Fractions
  <2>4. Times(closed, Plus(Whole(p), Times(-1, pos.avg))) \in Fraction
    BY <2>2, <2>3, Fractions
  <2> QED BY <2>4, <1>1, Fractions
<1>7. a \in Fraction /\ g \in Fraction
  <2>1. Whole(0) \in Fraction /\ Whole(p) \in Fraction
    BY <1>2, Fractions
  <2> HIDE DEF opened, gained, opening, flipped, new
  <2> QED BY <1>1, <1>5, <1>6, <2>1
<1>8. Applied(pos, signed, p) =
        [qty |-> new, avg |-> a, realised |-> g, fees |-> pos.fees + Fee, last |-> p]
  BY DEF Applied
<1>9. pos.fees + Fee \in Nat
  BY <1>1, <1>2
<1> HIDE DEF a, g, new
<1>10. Applied(pos, signed, p) \in PositionType
  BY <1>2, <1>7, <1>8, <1>9 DEF PositionType
<1> QED BY <1>8, <1>10 DEF new, Valued

\* Orders trade at prices there are.
LEMMA TradesAtPrices ==
  ASSUME NEW order, WellFormed(order), NEW px \in Context, NEW now \in BOOLEAN
  PROVE  /\ TradedAt(order, px, now) \subseteq Prices
         /\ order.status = "TRIGGER_PENDING" => TriggeredAt(order, px, now) \subseteq Prices
<1>1. px.open \in Prices /\ px.last \in Prices
  BY DEF Context
<1>2. TradedAt(order, px, now) \subseteq Prices
  BY <1>1 DEF TradedAt, WellFormed, OrderType
<1>3. order.status = "TRIGGER_PENDING" => TriggeredAt(order, px, now) \subseteq Prices
  BY <1>1 DEF TriggeredAt, WellFormed
<1> QED BY <1>2, <1>3
-----------------------------------------------------------------------------
(* Steps that change orders.                                               *)

\* A call that adds an order and is going to write it.
LEMMA BookedKeeps ==
  ASSUME IInv, AtRest, NEW x, WellFormed(x),
         issued' = issued + 1, orders' = With(orders, issued', x),
         todo' \in Seq(Job(DOMAIN orders')), Has(todo', SaveOrder(issued')),
         UNCHANGED <<fills, cash, positions, last, disk, restarts>>
  PROVE  IInv'
<1>1. /\ issued' \notin DOMAIN orders
      /\ DOMAIN orders' = DOMAIN orders \cup {issued'}
      /\ orders'[issued'] = x
      /\ \A o \in DOMAIN orders : orders'[o] = orders[o]
  BY DEF IInv, TypeOK, With
<1>2. TypeOK'
  <2>1. \A o \in DOMAIN orders' : WellFormed(orders'[o])
    BY <1>1 DEF IInv, TypeOK
  <2>2. issued' \in Nat /\ DOMAIN orders' \subseteq 1..issued'
    BY <1>1 DEF IInv, TypeOK
  <2>3. DOMAIN disk.orders \subseteq 1..issued'
    BY DEF IInv, TypeOK
  <2> QED BY <2>1, <2>2, <2>3 DEF IInv, TypeOK
<1>3. \A j : ~Queued(j)
  BY DEF AtRest, Queued
<1>4. StaleIsQueued'
  <2>1. DOMAIN disk.orders \subseteq DOMAIN orders'
    BY <1>1 DEF IInv, StaleIsQueued
  <2>2. ASSUME NEW o \in DOMAIN orders'
        PROVE  \/ o \in DOMAIN disk.orders /\ Kept(disk.orders[o], orders'[o])
               \/ Has(todo', SaveOrder(o))
    <3>1. CASE o = issued'
      BY <3>1
    <3>2. CASE o \in DOMAIN orders
      BY <1>1, <1>3, <3>2 DEF IInv, StaleIsQueued
    <3> QED BY <1>1, <3>1, <3>2
  <2>3. /\ disk.fills = fills /\ disk.cash = cash
        /\ \A p \in Product : disk.positions[p] = positions[p]
    BY <1>3 DEF IInv, StaleIsQueued
  <2> QED BY <2>1, <2>2, <2>3 DEF StaleIsQueued, Queued, Has
<1> QED BY <1>2, <1>4 DEF IInv

\* A call that changes an order and is going to write it.
LEMMA AmendedKeeps ==
  ASSUME IInv, AtRest, NEW o \in DOMAIN orders, NEW x, WellFormed(x),
         orders' = [orders EXCEPT ![o] = x],
         todo' \in Seq(Job(DOMAIN orders)), Has(todo', SaveOrder(o)),
         UNCHANGED <<fills, cash, positions, last, disk, issued, restarts>>
  PROVE  IInv'
<1>1. /\ DOMAIN orders' = DOMAIN orders /\ orders'[o] = x
      /\ \A y \in DOMAIN orders : y # o => orders'[y] = orders[y]
  OBVIOUS
<1>2. TypeOK'
  <2>1. \A y \in DOMAIN orders' : WellFormed(orders'[y])
    BY <1>1 DEF IInv, TypeOK
  <2> QED BY <1>1, <2>1 DEF IInv, TypeOK
<1>3. \A j : ~Queued(j)
  BY DEF AtRest, Queued
<1>4. StaleIsQueued'
  <2>2. ASSUME NEW y \in DOMAIN orders
        PROVE  \/ y \in DOMAIN disk.orders /\ Kept(disk.orders[y], orders'[y])
               \/ Has(todo', SaveOrder(y))
    <3>1. CASE y = o
      BY <3>1
    <3>2. CASE y # o
      BY <1>1, <1>3, <3>2 DEF IInv, StaleIsQueued
    <3> QED BY <3>1, <3>2
  <2>3. /\ disk.fills = fills /\ disk.cash = cash
        /\ \A p \in Product : disk.positions[p] = positions[p]
        /\ DOMAIN disk.orders \subseteq DOMAIN orders
    BY <1>3 DEF IInv, StaleIsQueued
  <2> QED BY <1>1, <2>2, <2>3 DEF StaleIsQueued, Queued, Has
<1> QED BY <1>2, <1>4 DEF IInv

\* The jobs place_order and modify_order end with.
LEMMA TryAndSaveMakes ==
  ASSUME NEW S, NEW o \in S, last \in Prices \cup {None}
  PROVE  TryAndSave(o) \in Seq(Job(S)) /\ Has(TryAndSave(o), SaveOrder(o))
<1> DEFINE a == IF FillAtPlacement /\ last # None THEN <<Try(o, Tick(last), TRUE)>> ELSE <<>>
<1>1. last # None => Tick(last) \in Context
  BY DEF Tick, Context
<1>2. last # None => Try(o, Tick(last), TRUE) \in Job(S)
  BY <1>1, JobsMade
<1>3. a \in Seq(Job(S))
  <2>1. CASE FillAtPlacement /\ last # None
    BY <1>2, <2>1, Singleton
  <2>2. CASE ~(FillAtPlacement /\ last # None)
    <3>1. a = <<>>
      BY <2>2, Zenon
    <3> HIDE DEF a
    <3> QED BY <3>1
  <2> HIDE DEF a
  <2> QED BY <2>1, <2>2
<1>4. <<SaveOrder(o)>> \in Seq(Job(S)) /\ Has(<<SaveOrder(o)>>, SaveOrder(o))
  BY JobsMade, Singleton
<1>5. TryAndSave(o) = a \o <<SaveOrder(o)>>
  BY DEF TryAndSave
<1> HIDE DEF a
<1>6. a \o <<SaveOrder(o)>> \in Seq(Job(S))
  BY <1>3, <1>4
<1>7. Has(a \o <<SaveOrder(o)>>, SaveOrder(o))
  BY <1>3, <1>4, HasConcat
<1> QED BY <1>5, <1>6, <1>7

\* place_order, accepted or rejected.
LEMMA PlaceKeeps ==
  ASSUME IInv, NEW r \in Requests, PlaceOrder(r)
  PROVE  IInv'
<1>1. issued' \in DOMAIN orders'
  BY DEF PlaceOrder, With
<1>2. last \in Prices \cup {None}
  BY DEF IInv, TypeOK
<1>3. CASE Valid(r)
  <2>1. /\ orders' = With(orders, issued', FromRequest(r)) /\ todo' = TryAndSave(issued')
        /\ AtRest /\ issued' = issued + 1
        /\ UNCHANGED <<fills, cash, positions, last, disk, restarts>>
    BY <1>3 DEF PlaceOrder
  <2>2. todo' \in Seq(Job(DOMAIN orders')) /\ Has(todo', SaveOrder(issued'))
    BY <1>1, <1>2, <2>1, TryAndSaveMakes
  <2>3. WellFormed(FromRequest(r))
    BY RequestMakes
  <2> QED BY <2>1, <2>2, <2>3, BookedKeeps
<1>4. CASE ~Valid(r)
  <2> DEFINE x == [FromRequest(r) EXCEPT !.status = "REJECTED"]
  <2>1. /\ orders' = With(orders, issued', x) /\ todo' = <<SaveOrder(issued')>>
        /\ AtRest /\ issued' = issued + 1
        /\ UNCHANGED <<fills, cash, positions, last, disk, restarts>>
    BY <1>4 DEF PlaceOrder
  <2>2. todo' \in Seq(Job(DOMAIN orders')) /\ Has(todo', SaveOrder(issued'))
    BY <1>1, <2>1, JobsMade, Singleton
  <2>3. WellFormed(x)
    BY RequestMakes
  <2> HIDE DEF x
  <2> QED BY <2>1, <2>2, <2>3, BookedKeeps
<1> QED BY <1>3, <1>4

\* liquidate: a position that is not flat is valued, so its order has a price.
LEMMA LiquidateKeeps ==
  ASSUME IInv, NEW p \in Liquidated, Liquidate(p)
  PROVE  IInv'
<1> DEFINE price == IF last # None THEN last ELSE positions[p].last
           x == Closing(p, positions[p].qty)
           try == Try(issued', Tick(price), TRUE)
<1>1. /\ AtRest /\ positions[p].qty # 0 /\ issued' = issued + 1
      /\ orders' = With(orders, issued', x)
      /\ todo' = <<try, SaveOrder(issued')>>
      /\ UNCHANGED <<fills, cash, positions, last, disk, restarts>>
  BY DEF Liquidate
<1>2. p \in Product
  BY AccountAssumption
<1>3. positions[p].qty \in Int /\ price \in Prices
  BY <1>1, <1>2 DEF IInv, TypeOK, Valued, PositionType
<1>4. WellFormed(x)
  BY <1>1, <1>2, <1>3, ClosingMakes
<1>5. issued' \in DOMAIN orders'
  BY <1>1 DEF With
<1>6. try \in Job(DOMAIN orders') /\ SaveOrder(issued') \in Job(DOMAIN orders')
  <2>1. Tick(price) \in Context
    BY <1>3 DEF Tick, Context
  <2> QED BY <1>5, <2>1, JobsMade
<1> HIDE DEF try, x, price
<1>7. todo' \in Seq(Job(DOMAIN orders'))
  BY <1>1, <1>6
<1>8. Has(todo', SaveOrder(issued'))
  <2>1. 2 \in DOMAIN todo' /\ todo'[2] = SaveOrder(issued')
    BY <1>1
  <2> QED BY <2>1 DEF Has
<1> QED BY <1>1, <1>4, <1>7, <1>8, BookedKeeps

\* modify_order: the price stays one of the prices.
LEMMA ModifyKeeps ==
  ASSUME IInv, NEW o \in DOMAIN orders, NEW p \in Modified, ModifyOrder(o, p)
  PROVE  IInv'
<1> DEFINE x == [orders[o] EXCEPT !.price = p]
<1>1. /\ AtRest /\ orders' = [orders EXCEPT ![o] = x] /\ todo' = TryAndSave(o)
      /\ UNCHANGED <<fills, cash, positions, last, disk, issued, restarts>>
  BY DEF ModifyOrder
<1>2. WellFormed(x)
  <2>1. WellFormed(orders[o])
    BY DEF IInv, TypeOK
  <2>2. p \in Prices
    BY AccountAssumption
  <2> QED BY <2>1, <2>2 DEF WellFormed, OrderType
<1>3. last \in Prices \cup {None}
  BY DEF IInv, TypeOK
<1>4. todo' \in Seq(Job(DOMAIN orders)) /\ Has(todo', SaveOrder(o))
  BY <1>1, <1>3, TryAndSaveMakes
<1> HIDE DEF x
<1> QED BY <1>1, <1>2, <1>4, AmendedKeeps

\* cancel_order.
LEMMA CancelKeeps ==
  ASSUME IInv, NEW o \in DOMAIN orders, CancelOrder(o)
  PROVE  IInv'
<1> DEFINE x == [orders[o] EXCEPT !.status = "CANCELLED"]
<1>1. /\ AtRest /\ orders' = [orders EXCEPT ![o] = x] /\ todo' = <<SaveOrder(o)>>
      /\ UNCHANGED <<fills, cash, positions, last, disk, issued, restarts>>
  BY DEF CancelOrder
<1>2. WellFormed(x)
  <2>1. WellFormed(orders[o])
    BY DEF IInv, TypeOK
  <2> QED BY <2>1 DEF WellFormed, OrderType, Status, Working
<1>3. todo' \in Seq(Job(DOMAIN orders)) /\ Has(todo', SaveOrder(o))
  BY <1>1, JobsMade, Singleton
<1> HIDE DEF x
<1> QED BY <1>1, <1>2, <1>3, AmendedKeeps

\* on_tick, on_bar: only a job is added.
LEMMA OnPriceKeeps ==
  ASSUME IInv, NEW px \in Contexts, OnPrice(px)
  PROVE  IInv'
<1> DEFINE ids == {o \in DOMAIN orders : orders[o].status \in Working}
<1>1. /\ AtRest /\ last' = px.last /\ todo' = <<Match(ids, px)>>
      /\ UNCHANGED <<orders, fills, cash, positions, disk, issued, restarts>>
  BY DEF OnPrice, memory
<1>2. px \in Context /\ px.last \in Prices
  BY AccountAssumption DEF Context
<1>3. Match(ids, px) \in Job(DOMAIN orders)
  BY <1>2, JobsMade
<1>4. todo' \in Seq(Job(DOMAIN orders))
  BY <1>1, <1>3, Singleton
<1>5. TypeOK'
  BY <1>1, <1>2, <1>4 DEF IInv, TypeOK
<1>6. \A j : ~Queued(j)
  BY <1>1 DEF AtRest, Queued
<1>7. StaleIsQueued'
  BY <1>1, <1>6 DEF IInv, StaleIsQueued
<1> QED BY <1>5, <1>7 DEF IInv
-----------------------------------------------------------------------------
(* Steps in the middle of a call.                                          *)

Matching == {"try", "match"}

\* A matching job that gives way to other jobs leaves the writes queued.
LEMMA JobsKept ==
  ASSUME NEW S, todo \in Seq(Job(S)), todo # <<>>, Head(todo).job \in Matching,
         NEW pre \in Seq(Job(S)), todo' = pre \o Tail(todo)
  PROVE  /\ todo' \in Seq(Job(S))
         /\ \A j : Queued(j) /\ j.job \notin Matching => Has(todo', j)
         /\ \A j : Has(pre, j) => Has(todo', j)
<1>1. Tail(todo) \in Seq(Job(S))
  OBVIOUS
<1>2. ASSUME NEW j, Queued(j), j.job \notin Matching
      PROVE  Has(todo', j)
  <2>1. Has(todo, j) /\ Head(todo) # j
    BY <1>2 DEF Queued, Has
  <2>2. Has(Tail(todo), j)
    BY <2>1, HasTail
  <2> QED BY <1>1, <2>2, HasConcat
<1>3. \A j : Has(pre, j) => Has(todo', j)
  BY <1>1, HasConcat
<1> QED BY <1>1, <1>2, <1>3

\* What was stale is written later, what becomes stale is queued.
LEMMA StaleKept ==
  ASSUME StaleIsQueued, disk' = disk, DOMAIN orders' = DOMAIN orders,
         \A j : Queued(j) /\ j.job \notin Matching => Has(todo', j),
         \A o \in DOMAIN orders :
           \/ \A row : Kept(row, orders[o]) => Kept(row, orders'[o])
           \/ Has(todo', SaveOrder(o)),
         fills' = fills \/ Has(todo', [job |-> "fill"]),
         \A p \in Product :
           \/ positions'[p] = positions[p]
           \/ Has(todo', [job |-> "position", product |-> p]),
         cash' = cash \/ Has(todo', SaveAccount)
  PROVE  StaleIsQueued'
<1>1. ASSUME NEW o \in DOMAIN orders
      PROVE  \/ o \in DOMAIN disk.orders /\ Kept(disk.orders[o], orders'[o])
             \/ Has(todo', SaveOrder(o))
  <2>1. SaveOrder(o).job \notin Matching
    BY DEF SaveOrder, Matching
  <2> QED BY <2>1 DEF StaleIsQueued
<1>2. disk.fills = fills' \/ Has(todo', [job |-> "fill"])
  <2>1. [job |-> "fill"].job \notin Matching
    BY DEF Matching
  <2> QED BY <2>1 DEF StaleIsQueued
<1>3. ASSUME NEW p \in Product
      PROVE  \/ disk.positions[p] = positions'[p]
             \/ Has(todo', [job |-> "position", product |-> p])
  <2>1. [job |-> "position", product |-> p].job \notin Matching
    BY DEF Matching
  <2> QED BY <2>1 DEF StaleIsQueued
<1>4. disk.cash = cash' \/ Has(todo', SaveAccount)
  <2>1. SaveAccount.job \notin Matching
    BY DEF SaveAccount, Matching
  <2> QED BY <2>1 DEF StaleIsQueued
<1> QED BY <1>1, <1>2, <1>3, <1>4 DEF StaleIsQueued, Queued, Has

\* A job that ends gives way to no job.
LEMMA EmptyPrefix ==
  ASSUME NEW S, NEW s \in Seq(S)
  PROVE  <<>> \in Seq(S) /\ s = <<>> \o s
  OBVIOUS

\* Jobs alone change.
LEMMA JobsStep ==
  ASSUME IInv, todo # <<>>, Head(todo).job \in Matching,
         NEW pre \in Seq(Job(DOMAIN orders)), todo' = pre \o Tail(todo),
         UNCHANGED <<memory, last, disk, issued, restarts>>
  PROVE  IInv'
<1>1. todo \in Seq(Job(DOMAIN orders))
  BY DEF IInv, TypeOK
<1>2. /\ todo' \in Seq(Job(DOMAIN orders))
      /\ \A j : Queued(j) /\ j.job \notin Matching => Has(todo', j)
  BY <1>1, JobsKept
<1>3. TypeOK'
  BY <1>2 DEF IInv, TypeOK, memory
<1>4. StaleIsQueued'
  BY <1>2, StaleKept DEF IInv, memory
<1> QED BY <1>3, <1>4 DEF IInv

\* A turn of _match_all tries an order in memory.
LEMMA MatchNextKeeps ==
  ASSUME IInv, MatchNext
  PROVE  IInv'
<1> DEFINE m == Head(todo)
<1>1. /\ todo # <<>> /\ m.job = "match" /\ m.job \in Matching
      /\ UNCHANGED <<memory, last, disk, issued, restarts>>
  BY DEF MatchNext, Doing, Matching
<1>2. todo \in Seq(Job(DOMAIN orders)) /\ m \in Job(DOMAIN orders)
      /\ Tail(todo) \in Seq(Job(DOMAIN orders))
  BY <1>1 DEF IInv, TypeOK
<1>3. m.ids \subseteq DOMAIN orders /\ m.px \in Context
  BY <1>1, <1>2, JobFields
<1>4. CASE todo' = Tail(todo)
  <2>1. todo' = <<>> \o Tail(todo) /\ <<>> \in Seq(Job(DOMAIN orders))
    BY <1>2, <1>4, EmptyPrefix
  <2> QED BY <1>1, <2>1, JobsStep
<1>5. ASSUME NEW o \in m.ids,
             todo' = <<Try(o, m.px, FALSE), Match(m.ids \ {o}, m.px)>> \o Tail(todo)
      PROVE  IInv'
  <2> DEFINE a == Try(o, m.px, FALSE)
             b == Match(m.ids \ {o}, m.px)
  <2>1. a \in Job(DOMAIN orders) /\ b \in Job(DOMAIN orders)
    BY <1>3, JobsMade
  <2>2. todo' = <<a, b>> \o Tail(todo)
    BY <1>5
  <2> HIDE DEF a, b
  <2>3. <<a, b>> \in Seq(Job(DOMAIN orders))
    BY <2>1
  <2> QED BY <1>1, <2>2, <2>3, JobsStep
<1> QED BY <1>4, <1>5 DEF MatchNext

\* A stop that was hit without trading, in memory only.
LEMMA RestKeeps ==
  ASSUME IInv, todo # <<>>, Head(todo).job \in Matching, NEW o \in DOMAIN orders, Rest(o),
         UNCHANGED <<last, disk, issued, restarts>>
  PROVE  IInv'
<1> DEFINE x == [orders[o] EXCEPT !.status = IF @ = "TRIGGER_PENDING" THEN "OPEN" ELSE @]
<1>1. /\ orders' = [orders EXCEPT ![o] = x] /\ todo' = Tail(todo)
      /\ UNCHANGED <<fills, cash, positions>>
  BY DEF Rest
<1>2. WellFormed(orders[o])
  BY DEF IInv, TypeOK
<1>3. WellFormed(x)
  BY <1>2 DEF WellFormed, OrderType, Status, Working
<1>4. \A row : Kept(row, orders[o]) => Kept(row, x)
  BY <1>2 DEF Kept, WellFormed, OrderType
<1>5. todo \in Seq(Job(DOMAIN orders)) /\ Tail(todo) \in Seq(Job(DOMAIN orders))
  BY DEF IInv, TypeOK
<1>6. <<>> \in Seq(Job(DOMAIN orders)) /\ todo' = <<>> \o Tail(todo)
  BY <1>1, <1>5, EmptyPrefix
<1>7. /\ todo' \in Seq(Job(DOMAIN orders))
      /\ \A j : Queued(j) /\ j.job \notin Matching => Has(todo', j)
  BY <1>5, <1>6, JobsKept
<1> HIDE DEF x
<1>8. /\ DOMAIN orders' = DOMAIN orders /\ orders'[o] = x
      /\ \A y \in DOMAIN orders : y # o => orders'[y] = orders[y]
  BY <1>1
<1>9. TypeOK'
  <2>1. \A y \in DOMAIN orders' : WellFormed(orders'[y])
    BY <1>3, <1>8 DEF IInv, TypeOK
  <2> QED BY <1>1, <1>7, <1>8, <2>1 DEF IInv, TypeOK
<1>10. StaleIsQueued'
  <2>1. \A y \in DOMAIN orders : \A row : Kept(row, orders[y]) => Kept(row, orders'[y])
    BY <1>4, <1>8
  <2> QED BY <1>1, <1>7, <1>8, <2>1, StaleKept DEF IInv
<1> QED BY <1>9, <1>10 DEF IInv

\* A fill, or the refusal of one.
LEMMA FillKeeps ==
  ASSUME IInv, todo # <<>>, Head(todo).job \in Matching,
         NEW o \in DOMAIN orders, orders[o].status \in Working,
         NEW q \in 1..Left(orders[o]), NEW p \in Prices, Fill(o, q, p),
         UNCHANGED <<last, disk, issued, restarts>>
  PROVE  IInv'
<1>1. WellFormed(orders[o]) /\ q \in Int /\ q > 0 /\ q <= orders[o].qty - orders[o].filled
  BY DEF IInv, TypeOK, WellFormed, OrderType, Left
<1>2. todo \in Seq(Job(DOMAIN orders))
  BY DEF IInv, TypeOK
<1>3. CASE ~Affordable(orders[o], q, p)
  <2> DEFINE x == [orders[o] EXCEPT !.status = "REJECTED"]
  <2>1. /\ orders' = [orders EXCEPT ![o] = x] /\ todo' = <<SaveOrder(o)>> \o Tail(todo)
        /\ UNCHANGED <<fills, cash, positions>>
    BY <1>3 DEF Fill
  <2>2. WellFormed(x)
    BY <1>1 DEF WellFormed, OrderType, Status, Working
  <2>3. <<SaveOrder(o)>> \in Seq(Job(DOMAIN orders)) /\ Has(<<SaveOrder(o)>>, SaveOrder(o))
    BY JobsMade, Singleton
  <2>4. /\ todo' \in Seq(Job(DOMAIN orders)) /\ Has(todo', SaveOrder(o))
        /\ \A j : Queued(j) /\ j.job \notin Matching => Has(todo', j)
    BY <1>2, <2>1, <2>3, JobsKept
  <2> HIDE DEF x
  <2>5. /\ DOMAIN orders' = DOMAIN orders /\ orders'[o] = x
        /\ \A y \in DOMAIN orders : y # o => orders'[y] = orders[y]
    BY <2>1
  <2>6. TypeOK'
    <3>1. \A y \in DOMAIN orders' : WellFormed(orders'[y])
      BY <2>2, <2>5 DEF IInv, TypeOK
    <3> QED BY <2>1, <2>4, <2>5, <3>1 DEF IInv, TypeOK
  <2>7. StaleIsQueued'
    <3>1. \A y \in DOMAIN orders :
            (\A row : Kept(row, orders[y]) => Kept(row, orders'[y])) \/ Has(todo', SaveOrder(y))
      BY <2>4, <2>5
    <3> QED BY <2>1, <2>4, <2>5, <3>1, StaleKept DEF IInv
  <2> QED BY <2>6, <2>7 DEF IInv
<1>4. CASE Affordable(orders[o], q, p)
  <2> DEFINE x == [orders[o] EXCEPT !.filled = @ + q,
                                    !.status = IF q = Left(orders[o]) THEN "FILLED" ELSE "PARTIAL"]
             pr == orders[o].product
             pos == Applied(positions[pr], orders[o].side * q, p)
             f == [id |-> o, side |-> orders[o].side, qty |-> q, price |-> p]
             pre == SaveFill(o, pr)
  <2>1. /\ orders' = [orders EXCEPT ![o] = x] /\ todo' = pre \o Tail(todo)
        /\ positions' = [positions EXCEPT ![pr] = pos]
        /\ cash' = cash - orders[o].side * q * p - Fee
        /\ fills' = Append(fills, f)
    BY <1>4 DEF Fill
  <2>2. WellFormed(x)
    <3> DEFINE n == orders[o].filled + q
               s == IF q = Left(orders[o]) THEN "FILLED" ELSE "PARTIAL"
    <3>1. /\ n \in Nat /\ n <= orders[o].qty
          /\ s = "FILLED" \/ (s = "PARTIAL" /\ n < orders[o].qty)
      BY <1>1 DEF Left, WellFormed, OrderType
    <3>2. x = [orders[o] EXCEPT !.filled = n, !.status = s]
      OBVIOUS
    <3>3. orders[o] \in OrderType
      BY <1>1 DEF WellFormed
    <3> HIDE DEF n, s, x
    <3>4. /\ x \in OrderType /\ x.filled = n /\ x.status = s
          /\ x.qty = orders[o].qty /\ x.type = orders[o].type
          /\ x.price = orders[o].price /\ x.trigger = orders[o].trigger
      BY <3>1, <3>2, <3>3 DEF OrderType, Status, Working
    <3> QED BY <1>1, <3>1, <3>4 DEF WellFormed, Working
  <2>3. pr \in Product /\ orders[o].side \in {BUY, SELL} /\ o \in Nat
    BY <1>1 DEF WellFormed, OrderType, IInv, TypeOK
  <2>4. orders[o].side * q \in Int /\ orders[o].side * q # 0
    BY <1>1, <2>3 DEF BUY, SELL
  <2>5. positions[pr] \in PositionType
    BY <2>3 DEF IInv, TypeOK
  <2>6. pos \in PositionType /\ Valued(pos)
    BY <2>4, <2>5, AppliedTyped
  <2>7. f \in FillType
    BY <1>1, <2>3 DEF FillType
  <2>8. /\ pre \in Seq(Job(DOMAIN orders)) /\ Has(pre, [job |-> "fill"])
        /\ Has(pre, [job |-> "position", product |-> pr])
        /\ Has(pre, SaveAccount) /\ Has(pre, SaveOrder(o))
    BY <2>3, SaveFillMakes
  <2> HIDE DEF pre, x, pos, f, pr
  <2>9. /\ todo' \in Seq(Job(DOMAIN orders))
        /\ \A j : Queued(j) /\ j.job \notin Matching => Has(todo', j)
        /\ Has(todo', [job |-> "fill"]) /\ Has(todo', SaveAccount) /\ Has(todo', SaveOrder(o))
        /\ Has(todo', [job |-> "position", product |-> pr])
    BY <1>2, <2>1, <2>8, JobsKept
  <2>10. /\ DOMAIN orders' = DOMAIN orders /\ orders'[o] = x
         /\ \A y \in DOMAIN orders : y # o => orders'[y] = orders[y]
    BY <2>1
  <2>11. cash' \in Int
    <3>1. cash \in Int /\ Fee \in Int /\ p \in Int
      BY AccountAssumption DEF IInv, TypeOK
    <3>2. orders[o].side * q * p \in Int
      BY <2>4, <3>1
    <3> QED BY <2>1, <3>1, <3>2
  <2>12. /\ positions' \in [Product -> PositionType]
         /\ \A y \in Product : Valued(positions'[y])
         /\ \A y \in Product : y # pr => positions'[y] = positions[y]
    BY <2>1, <2>3, <2>6 DEF IInv, TypeOK
  <2>13. fills' \in Seq(FillType)
    BY <2>1, <2>7 DEF IInv, TypeOK
  <2>14. TypeOK'
    <3>1. \A y \in DOMAIN orders' : WellFormed(orders'[y])
      BY <2>2, <2>10 DEF IInv, TypeOK
    <3> QED BY <2>9, <2>10, <2>11, <2>12, <2>13, <3>1 DEF IInv, TypeOK
  <2>15. StaleIsQueued'
    <3>1. \A y \in DOMAIN orders :
            (\A row : Kept(row, orders[y]) => Kept(row, orders'[y])) \/ Has(todo', SaveOrder(y))
      BY <2>9, <2>10
    <3>2. \A y \in Product : \/ positions'[y] = positions[y]
                             \/ Has(todo', [job |-> "position", product |-> y])
      BY <2>9, <2>12
    <3> QED BY <2>9, <2>10, <3>1, <3>2, StaleKept DEF IInv
  <2> QED BY <2>14, <2>15 DEF IInv
<1> QED BY <1>3, <1>4

\* A quantity that fills something fills no more than is left.
LEMMA FillableWithin ==
  ASSUME NEW order, WellFormed(order), order.status \in Working, NEW now,
         NEW q \in Fillable(order, now), q # 0
  PROVE  q \in 1..Left(order)
<1>1. Left(order) \in Nat \ {0}
  BY DEF WellFormed, OrderType, Left
<1> QED BY <1>1 DEF Fillable

\* _try_fill: no change, a rest, or a fill of what is left.
LEMMA TryFillKeeps ==
  ASSUME IInv, TryFill
  PROVE  IInv'
<1> DEFINE t == Head(todo)
           order == orders[t.id]
           pending == order.status = "TRIGGER_PENDING"
           at == IF pending THEN TriggeredAt(order, t.px, t.now) ELSE TradedAt(order, t.px, t.now)
<1>1. /\ todo # <<>> /\ t.job = "try" /\ t.job \in Matching
      /\ UNCHANGED <<last, disk, issued, restarts>>
  BY DEF TryFill, Doing, Matching
<1>2. /\ todo \in Seq(Job(DOMAIN orders)) /\ t \in Job(DOMAIN orders)
      /\ Tail(todo) \in Seq(Job(DOMAIN orders))
  BY <1>1 DEF IInv, TypeOK
<1>3. t.id \in DOMAIN orders /\ t.px \in Context /\ t.now \in BOOLEAN
  BY <1>1, <1>2, JobFields
<1>4. WellFormed(order)
  BY <1>3 DEF IInv, TypeOK
<1>5. at \subseteq Prices
  BY <1>3, <1>4, TradesAtPrices
<1>6. \/ todo' = Tail(todo) /\ UNCHANGED memory
      \/ Rest(t.id)
      \/ /\ order.status \in Working
         /\ \E q \in Fillable(order, t.now), p \in at : q # 0 /\ Fill(t.id, q, p)
  BY DEF TryFill
<1> HIDE DEF at
<1>7. CASE todo' = Tail(todo) /\ UNCHANGED memory
  <2>1. todo' = <<>> \o Tail(todo) /\ <<>> \in Seq(Job(DOMAIN orders))
    BY <1>2, <1>7, EmptyPrefix
  <2> QED BY <1>1, <1>7, <2>1, JobsStep
<1>8. CASE Rest(t.id)
  BY <1>1, <1>3, <1>8, RestKeeps
<1>9. ASSUME order.status \in Working, NEW q \in Fillable(order, t.now), NEW p \in at,
             q # 0, Fill(t.id, q, p)
      PROVE  IInv'
  <2>1. q \in 1..Left(order)
    BY <1>4, <1>9, FillableWithin
  <2> QED BY <1>1, <1>3, <1>5, <1>9, <2>1, FillKeeps
<1> QED BY <1>6, <1>7, <1>8, <1>9
-----------------------------------------------------------------------------
(* Writes, restarts, resets.                                               *)

\* Row by row, a write leaves the store as it was or makes it as memory is; the row
\* the job names it makes as memory is.
LEMMA WriteFields ==
  ASSUME IInv, Write
  PROVE  /\ disk' = [orders |-> disk'.orders, fills |-> disk'.fills, cash |-> disk'.cash,
                     positions |-> disk'.positions]
         /\ DOMAIN disk'.orders \subseteq DOMAIN orders
         /\ DOMAIN disk.orders \subseteq DOMAIN disk'.orders
         /\ \A o \in DOMAIN disk'.orders :
              \/ o \in DOMAIN disk.orders /\ disk'.orders[o] = disk.orders[o]
              \/ disk'.orders[o] = orders[o]
         /\ \A o \in DOMAIN orders : Head(todo) = SaveOrder(o) =>
              o \in DOMAIN disk'.orders /\ disk'.orders[o] = orders[o]
         /\ disk'.fills \in {disk.fills, fills}
         /\ Head(todo) = [job |-> "fill"] => disk'.fills = fills
         /\ disk'.positions \in [Product -> PositionType]
         /\ \A p \in Product : disk'.positions[p] \in {disk.positions[p], positions[p]}
         /\ \A p \in Product : Head(todo) = [job |-> "position", product |-> p] =>
              disk'.positions[p] = positions[p]
         /\ disk'.cash \in {disk.cash, cash}
         /\ Head(todo) = SaveAccount => disk'.cash = cash
<1> DEFINE w == Head(todo)
<1>1. todo # <<>> /\ todo \in Seq(Job(DOMAIN orders)) /\ w \in Job(DOMAIN orders)
  BY DEF Write, IInv, TypeOK
<1>2. /\ w.job = "order" => w.id \in DOMAIN orders
      /\ w.job = "position" => w.product \in Product
  BY <1>1, JobFields
<1>3. w.job \in {"order", "fill", "position", "account"}
  BY DEF Write
<1>4. /\ \A o : w = SaveOrder(o) => w.job = "order" /\ w.id = o
      /\ \A p : w = [job |-> "position", product |-> p] => w.job = "position" /\ w.product = p
      /\ w = [job |-> "fill"] => w.job = "fill"
      /\ w = SaveAccount => w.job = "account"
  BY DEF SaveOrder, SaveAccount
<1>5. /\ disk = [orders |-> disk.orders, fills |-> disk.fills, cash |-> disk.cash,
                 positions |-> disk.positions]
      /\ DOMAIN disk.orders \subseteq DOMAIN orders
      /\ positions \in [Product -> PositionType] /\ disk.positions \in [Product -> PositionType]
  BY DEF IInv, TypeOK, StaleIsQueued
<1>6. CASE w.job = "order"
  <2> DEFINE d == With(disk.orders, w.id, orders[w.id])
  <2>1. disk' = [disk EXCEPT !.orders = d]
    BY <1>6 DEF Write
  <2>2. /\ DOMAIN d = DOMAIN disk.orders \cup {w.id} /\ d[w.id] = orders[w.id]
        /\ \A o \in DOMAIN d : o = w.id \/ (o \in DOMAIN disk.orders /\ d[o] = disk.orders[o])
    BY DEF With
  <2> HIDE DEF d
  <2>3. disk' = [orders |-> d, fills |-> disk.fills, cash |-> disk.cash,
                 positions |-> disk.positions]
    BY <1>5, <2>1
  <2> QED BY <1>2, <1>4, <1>5, <1>6, <2>2, <2>3
<1>7. CASE w.job = "fill"
  <2>1. disk' = [orders |-> disk.orders, fills |-> fills, cash |-> disk.cash,
                 positions |-> disk.positions]
    BY <1>5, <1>7 DEF Write
  <2> QED BY <1>4, <1>5, <1>7, <2>1
<1>8. CASE w.job = "position"
  <2> DEFINE d == [disk.positions EXCEPT ![w.product] = positions[w.product]]
  <2>1. disk' = [disk EXCEPT !.positions = d]
    BY <1>8 DEF Write
  <2>2. /\ d \in [Product -> PositionType] /\ d[w.product] = positions[w.product]
        /\ \A p \in Product : d[p] \in {disk.positions[p], positions[p]}
    BY <1>2, <1>5, <1>8
  <2> HIDE DEF d
  <2>3. disk' = [orders |-> disk.orders, fills |-> disk.fills, cash |-> disk.cash,
                 positions |-> d]
    BY <1>5, <2>1
  <2> QED BY <1>4, <1>5, <1>8, <2>2, <2>3
<1>9. CASE w.job = "account"
  <2>1. disk' = [orders |-> disk.orders, fills |-> disk.fills, cash |-> cash,
                 positions |-> disk.positions]
    BY <1>5, <1>9 DEF Write
  <2> QED BY <1>4, <1>5, <1>9, <2>1
<1> QED BY <1>3, <1>6, <1>7, <1>8, <1>9

\* A write makes one row as memory is and takes its job away.
LEMMA WriteKeeps ==
  ASSUME IInv, Write
  PROVE  IInv'
<1>1. /\ todo # <<>> /\ todo \in Seq(Job(DOMAIN orders))
      /\ todo' = Tail(todo) /\ todo' \in Seq(Job(DOMAIN orders))
      /\ UNCHANGED <<orders, fills, cash, positions, last, issued, restarts>>
  BY DEF Write, IInv, TypeOK, memory
<1>2. ASSUME NEW j, Queued(j)
      PROVE  Head(todo) = j \/ Has(todo', j)
  <2>1. Has(todo, j)
    BY <1>2 DEF Queued, Has
  <2> QED BY <1>1, <2>1, HasTail
<1>3. TypeOK'
  <2>1. \A o \in DOMAIN disk'.orders : WellFormed(disk'.orders[o])
    BY WriteFields DEF IInv, TypeOK
  <2>2. \A p \in Product : Valued(disk'.positions[p])
    BY WriteFields DEF IInv, TypeOK
  <2>3. disk'.fills \in Seq(FillType) /\ disk'.cash \in Int
    BY WriteFields DEF IInv, TypeOK
  <2>4. DOMAIN disk'.orders \subseteq 1..issued
    BY WriteFields DEF IInv, TypeOK
  <2>5. disk' = [orders |-> disk'.orders, fills |-> disk'.fills, cash |-> disk'.cash,
                 positions |-> disk'.positions]
    BY WriteFields
  <2>6. disk'.positions \in [Product -> PositionType]
    BY WriteFields
  <2> QED BY <1>1, <2>1, <2>2, <2>3, <2>4, <2>5, <2>6 DEF IInv, TypeOK
<1>4. StaleIsQueued'
  <2>1. ASSUME NEW o \in DOMAIN orders
        PROVE  \/ o \in DOMAIN disk'.orders /\ Kept(disk'.orders[o], orders[o])
               \/ Has(todo', SaveOrder(o))
    <3>1. CASE o \in DOMAIN disk.orders /\ Kept(disk.orders[o], orders[o])
      <4>1. o \in DOMAIN disk'.orders
        BY <3>1, WriteFields
      <4>2. disk'.orders[o] = disk.orders[o] \/ disk'.orders[o] = orders[o]
        BY <4>1, WriteFields
      <4> QED BY <3>1, <4>1, <4>2 DEF Kept
    <3>2. CASE Queued(SaveOrder(o))
      <4>1. CASE Head(todo) = SaveOrder(o)
        BY <4>1, WriteFields DEF Kept
      <4>2. CASE Has(todo', SaveOrder(o))
        BY <4>2
      <4> QED BY <1>2, <3>2, <4>1, <4>2
    <3> QED BY <3>1, <3>2 DEF IInv, StaleIsQueued
  <2>2. disk'.fills = fills \/ Has(todo', [job |-> "fill"])
    BY <1>2, WriteFields DEF IInv, StaleIsQueued
  <2>3. \A p \in Product : \/ disk'.positions[p] = positions[p]
                           \/ Has(todo', [job |-> "position", product |-> p])
    BY <1>2, WriteFields DEF IInv, StaleIsQueued
  <2>4. disk'.cash = cash \/ Has(todo', SaveAccount)
    BY <1>2, WriteFields DEF IInv, StaleIsQueued
  <2>5. DOMAIN disk'.orders \subseteq DOMAIN orders
    BY WriteFields
  <2> QED BY <1>1, <2>1, <2>2, <2>3, <2>4, <2>5 DEF StaleIsQueued, Queued, Has
<1> QED BY <1>3, <1>4 DEF IInv

\* A restart makes memory what the store is.
LEMMA RestartKeeps ==
  ASSUME IInv, Restart
  PROVE  IInv'
<1>1. /\ orders' = disk.orders /\ fills' = disk.fills /\ cash' = disk.cash
      /\ positions' = disk.positions /\ last' = None /\ todo' = <<>>
      /\ disk' = disk /\ issued' = issued /\ restarts' = restarts + 1
  BY DEF Restart
<1>2. TypeOK'
  BY <1>1 DEF IInv, TypeOK
<1>3. StaleIsQueued'
  BY <1>1 DEF StaleIsQueued, Kept
<1> QED BY <1>2, <1>3 DEF IInv

\* A new account has its type.
LEMMA NewAccountTyped ==
  /\ NewAccount.orders = [o \in {} |-> 0] /\ DOMAIN NewAccount.orders = {}
  /\ NewAccount.fills = <<>> /\ NewAccount.fills \in Seq(FillType)
  /\ NewAccount.cash = Start /\ NewAccount.cash \in Int
  /\ NewAccount.positions \in [Product -> PositionType]
  /\ \A p \in Product : NewAccount.positions[p] = Flat /\ Valued(NewAccount.positions[p])
  /\ NewAccount = [orders |-> NewAccount.orders, fills |-> NewAccount.fills,
                   cash |-> NewAccount.cash, positions |-> NewAccount.positions]
<1>1. Flat \in PositionType /\ Valued(Flat) /\ Flat.qty = 0
  <2>1. Whole(0) \in Fraction
    BY Fractions
  <2> QED BY <2>1 DEF Flat, PositionType, Valued
<1> HIDE DEF Flat
<1> QED BY <1>1, AccountAssumption DEF NewAccount

\* Memory and store of a new account.
LEMMA NewAccountKeeps ==
  ASSUME /\ orders' = NewAccount.orders /\ fills' = NewAccount.fills
         /\ cash' = NewAccount.cash /\ positions' = NewAccount.positions
         /\ disk' = NewAccount /\ last' = None /\ todo' = <<>>
         /\ issued' \in Nat /\ restarts' \in Nat
  PROVE  IInv'
<1>1. TypeOK'
  BY NewAccountTyped DEF TypeOK
<1>2. StaleIsQueued'
  BY NewAccountTyped DEF StaleIsQueued, Kept
<1> QED BY <1>1, <1>2 DEF IInv

\* A new account satisfies the invariant.
LEMMA InitIInv == Init => IInv
<1>1. ASSUME Init
      PROVE  TypeOK
  BY <1>1, NewAccountTyped DEF Init, TypeOK
<1>2. ASSUME Init
      PROVE  StaleIsQueued
  BY <1>2, NewAccountTyped DEF Init, StaleIsQueued, Kept
<1> QED BY <1>1, <1>2 DEF IInv

\* Every step preserves the inductive invariant.
LEMMA NextIInv == IInv /\ [Next]_vars => IInv'
<1> SUFFICES ASSUME IInv, [Next]_vars
             PROVE  IInv'
  OBVIOUS
<1>1. CASE Call
  BY <1>1, PlaceKeeps, CancelKeeps, ModifyKeeps, OnPriceKeeps, LiquidateKeeps DEF Call
<1>2. CASE MatchNext
  BY <1>2, MatchNextKeeps
<1>3. CASE TryFill
  BY <1>3, TryFillKeeps
<1>4. CASE Write
  BY <1>4, WriteKeeps
<1>5. CASE Restart
  BY <1>5, RestartKeeps
<1>6. CASE Reset
  <2>1. todo' = <<>> /\ issued' \in Nat /\ restarts' \in Nat
    BY <1>6 DEF Reset, AtRest, IInv, TypeOK
  <2> QED BY <1>6, <2>1, NewAccountKeeps DEF Reset
<1>7. CASE UNCHANGED vars
  <2>1. TypeOK'
    BY <1>7 DEF IInv, TypeOK, vars, memory
  <2>2. StaleIsQueued'
    BY <1>7 DEF IInv, StaleIsQueued, Queued, vars, memory
  <2> QED BY <2>1, <2>2 DEF IInv
<1> QED BY <1>1, <1>2, <1>3, <1>4, <1>5, <1>6, <1>7 DEF Next

\* The inductive invariant holds in every state.
LEMMA AlwaysIInv == Spec => []IInv
  BY InitIInv, NextIInv, PTL DEF Spec

\* What the account holds has its type at all times: no order is filled beyond its
\* quantity, a working order has something left, a position is valued at a price, in
\* memory and in the rows the next start reads, even if the process stops between two
\* rows of a fill.
THEOREM AccountTypes == Spec => []TypeOK
<1>1. IInv => TypeOK
  BY DEF IInv
<1> QED BY <1>1, AlwaysIInv, PTL

\* Whenever no call is under way, every change the broker made is in the store, but
\* for the status of a stop that was hit without trading.
THEOREM StoreFollows == Spec => []DiskFollows
<1>1. IInv => DiskFollows
  <2> SUFFICES ASSUME IInv, AtRest
               PROVE  /\ DOMAIN disk.orders = DOMAIN orders
                      /\ \A o \in DOMAIN orders : Kept(disk.orders[o], orders[o])
                      /\ disk.fills = fills /\ disk.cash = cash /\ disk.positions = positions
    BY DEF DiskFollows
  <2>1. \A j : ~Queued(j)
    BY DEF AtRest, Queued
  <2>2. disk.positions = positions
    <3>1. \A p \in Product : disk.positions[p] = positions[p]
      BY <2>1 DEF IInv, StaleIsQueued
    <3> QED BY <3>1 DEF IInv, TypeOK
  <2> QED BY <2>1, <2>2 DEF IInv, StaleIsQueued
<1> QED BY <1>1, AlwaysIInv, PTL
-----------------------------------------------------------------------------
(* Cash.                                                                   *)

\* A try ends the order's wait, leaves the books alone, or fills what is affordable.
LEMMA TryFillDoes ==
  ASSUME IInv, TryFill
  PROVE  \/ UNCHANGED memory
         \/ \E o \in DOMAIN orders : \E s \in Status :
              /\ orders[o].status \in Working
              /\ orders' = [orders EXCEPT ![o].status = s]
              /\ UNCHANGED <<fills, cash, positions>>
         \/ \E o \in DOMAIN orders, p \in Prices : \E q \in 1..Left(orders[o]) :
              orders[o].status \in Working /\ Affordable(orders[o], q, p) /\ Fill(o, q, p)
<1> DEFINE t == Head(todo)
           order == orders[t.id]
           pending == order.status = "TRIGGER_PENDING"
           at == IF pending THEN TriggeredAt(order, t.px, t.now) ELSE TradedAt(order, t.px, t.now)
<1>1. /\ todo # <<>> /\ t.job = "try"
  BY DEF TryFill, Doing
<1>2. todo \in Seq(Job(DOMAIN orders)) /\ t \in Job(DOMAIN orders)
  BY <1>1 DEF IInv, TypeOK
<1>3. t.id \in DOMAIN orders /\ t.px \in Context /\ t.now \in BOOLEAN
  BY <1>1, <1>2, JobFields
<1>4. WellFormed(order)
  BY <1>3 DEF IInv, TypeOK
<1>5. at \subseteq Prices
  BY <1>3, <1>4, TradesAtPrices
<1>6. \/ UNCHANGED memory
      \/ order.status \in Working /\ Rest(t.id)
      \/ /\ order.status \in Working
         /\ \E q \in Fillable(order, t.now), p \in at : q # 0 /\ Fill(t.id, q, p)
  BY DEF TryFill
<1> HIDE DEF at
<1>7. CASE order.status \in Working /\ Rest(t.id)
  <2> DEFINE s == IF order.status = "TRIGGER_PENDING" THEN "OPEN" ELSE order.status
  <2>1. s \in Status
    BY <1>4 DEF WellFormed, OrderType, Status, Working
  <2>2. orders' = [orders EXCEPT ![t.id].status = s] /\ UNCHANGED <<fills, cash, positions>>
    BY <1>7 DEF Rest
  <2> QED BY <1>3, <1>7, <2>1, <2>2
<1>8. ASSUME order.status \in Working, NEW q \in Fillable(order, t.now), NEW p \in at,
             q # 0, Fill(t.id, q, p)
      PROVE  \/ \E s \in Status : /\ orders' = [orders EXCEPT ![t.id].status = s]
                                  /\ UNCHANGED <<fills, cash, positions>>
             \/ \E r \in Prices : \E k \in 1..Left(orders[t.id]) :
                  Affordable(orders[t.id], k, r) /\ Fill(t.id, k, r)
  <2>1. q \in 1..Left(order)
    BY <1>4, <1>8, FillableWithin
  <2>2. CASE Affordable(order, q, p)
    BY <1>5, <1>8, <2>1, <2>2
  <2>3. CASE ~Affordable(order, q, p)
    <3>1. "REJECTED" \in Status
      BY DEF Status
    <3> QED BY <1>8, <2>3, <3>1 DEF Fill
  <2> QED BY <2>2, <2>3
<1> QED BY <1>3, <1>6, <1>7, <1>8

\* The invariant of the cash: it is covered in memory and in the store.
Covered == cash >= -Fee /\ disk.cash >= -Fee

\* Some quantity at a price costs at least the price.
LEMMA AtLeastOnce ==
  ASSUME NEW q \in Nat \ {0}, NEW p \in Nat
  PROVE  q * p \in Nat /\ q * p >= p
<1>1. PICK k \in Nat : q = k + 1
  <2>1. q - 1 \in Nat /\ q = (q - 1) + 1
    OBVIOUS
  <2> QED BY <2>1
<1>2. k * p \in Nat
  OBVIOUS
<1>3. (k + 1) * p = k * p + p
  OBVIOUS
<1> QED BY <1>1, <1>2, <1>3

\* A fill keeps the cash covered when it brings in more than its fee.
LEMMA FillCovered ==
  ASSUME IInv, Covered, \A x \in Prices : Fee <= x,
         NEW o \in DOMAIN orders, NEW p \in Prices, NEW q \in 1..Left(orders[o]),
         Affordable(orders[o], q, p), Fill(o, q, p)
  PROVE  cash' >= -Fee
<1>1. cash' = cash - orders[o].side * q * p - Fee
  BY DEF Fill
<1>2. orders[o].side \in {1, -1} /\ Left(orders[o]) \in Int
  <2>1. WellFormed(orders[o])
    BY DEF IInv, TypeOK
  <2> QED BY <2>1 DEF WellFormed, OrderType, BUY, SELL, Left
<1>3. q \in Nat \ {0} /\ p \in Nat /\ Fee \in Nat /\ cash \in Int /\ Fee <= p
  <2>1. p \in Nat /\ Fee \in Nat
    BY AccountAssumption
  <2>2. cash \in Int
    BY DEF IInv, TypeOK
  <2> QED BY <1>2, <2>1, <2>2
<1>4. q * p \in Nat /\ q * p >= p
  BY <1>3, AtLeastOnce
<1> DEFINE v == q * p
<1>5. CASE orders[o].side = 1
  <2>1. v \in Nat /\ v <= cash
    BY <1>4, <1>5 DEF Affordable, BUY
  <2>2. orders[o].side * q * p = v
    BY <1>3, <1>5
  <2> HIDE DEF v
  <2> QED BY <1>1, <1>3, <2>1, <2>2
<1>6. CASE orders[o].side = -1
  <2>1. orders[o].side * q * p = -v
    BY <1>3, <1>6
  <2>2. v \in Nat /\ v >= p
    BY <1>4
  <2> HIDE DEF v
  <2> QED BY <1>1, <1>3, <2>1, <2>2 DEF Covered
<1> HIDE DEF v
<1> QED BY <1>2, <1>5, <1>6

\* If every price is at least the fee of a fill, purchases are paid from the cash there
\* is, whatever orders did between placing and filling and wherever the process stopped.
THEOREM CashStaysCovered ==
  ASSUME \A p \in Prices : Fee <= p
  PROVE  Spec => []CashFloor
<1>1. Init => Covered
  BY AccountAssumption DEF Init, Covered, NewAccount
<1>2. IInv /\ Covered /\ [Next]_vars => Covered'
  <2> SUFFICES ASSUME IInv, Covered, [Next]_vars
               PROVE  Covered'
    OBVIOUS
  <2>1. CASE Call \/ MatchNext \/ UNCHANGED vars
    BY <2>1 DEF Call, PlaceOrder, CancelOrder, ModifyOrder, OnPrice, Liquidate, MatchNext,
                vars, memory, Covered
  <2>2. CASE TryFill
    <3>1. disk' = disk
      BY <2>2 DEF TryFill
    <3>2. cash' = cash \/ cash' >= -Fee
      BY <2>2, TryFillDoes, FillCovered DEF memory
    <3> QED BY <3>1, <3>2 DEF Covered
  <2>3. CASE Write
    BY <2>3, WriteFields DEF Write, memory, Covered
  <2>4. CASE Restart
    BY <2>4 DEF Restart, Covered
  <2>5. CASE Reset
    BY <2>5, AccountAssumption DEF Reset, NewAccount, Covered
  <2> QED BY <2>1, <2>2, <2>3, <2>4, <2>5 DEF Next
<1>3. Covered => CashFloor
  BY DEF Covered, CashFloor
<1> QED BY <1>1, <1>2, <1>3, AlwaysIInv, PTL DEF Spec
-----------------------------------------------------------------------------
(* The ledger.                                                             *)

\* What the ledger sees of the orders and the positions (the mapping of Account).
Booking(f) ==
  [o \in DOMAIN f |->
     [product |-> f[o].product, side |-> f[o].side, qty |-> f[o].qty, filled |-> f[o].filled]]
Holding(f) == [p \in Product |-> f[p].qty]

\* Orders that differ in what the ledger does not see book the same.
LEMMA SameBooking ==
  ASSUME NEW f, NEW g, DOMAIN f = DOMAIN g,
         \A o \in DOMAIN f : /\ f[o].product = g[o].product /\ f[o].side = g[o].side
                             /\ f[o].qty = g[o].qty /\ f[o].filled = g[o].filled
  PROVE  Booking(f) = Booking(g)
  BY DEF Booking

\* An order changed in a field the ledger does not see books the same.
LEMMA UnseenChange ==
  ASSUME IInv, NEW o \in DOMAIN orders, NEW x \in OrderType,
         x.product = orders[o].product, x.side = orders[o].side,
         x.qty = orders[o].qty, x.filled = orders[o].filled,
         orders' = [orders EXCEPT ![o] = x]
  PROVE  Booking(orders') = Booking(orders)
<1>1. /\ DOMAIN orders' = DOMAIN orders /\ orders'[o] = x
      /\ \A y \in DOMAIN orders : y # o => orders'[y] = orders[y]
  OBVIOUS
<1> QED BY <1>1, SameBooking

\* The steps of the ledger, in terms of the account.
LEMMA LedgerSteps ==
  ASSUME \/ /\ UNCHANGED cash /\ Holding(positions') = Holding(positions)
            /\ Booking(orders') = Booking(orders)
         \/ \E o \in DOMAIN Booking(orders') \ DOMAIN Booking(orders) :
              /\ Booking(orders')[o].filled = 0
              /\ Booking(orders') = [x \in DOMAIN Booking(orders) \cup {o} |->
                                       IF x = o THEN Booking(orders')[o]
                                       ELSE Booking(orders)[x]]
              /\ UNCHANGED cash /\ Holding(positions') = Holding(positions)
         \/ \E o \in DOMAIN Booking(orders), p \in Prices :
            \E q \in 1..(Booking(orders)[o].qty - Booking(orders)[o].filled) :
              /\ Booking(orders)[o].side = 1 => q * p <= cash
              /\ Booking(orders') = [Booking(orders) EXCEPT ![o].filled = @ + q]
              /\ Holding(positions') =
                   [Holding(positions) EXCEPT ![Booking(orders)[o].product] =
                      @ + Booking(orders)[o].side * q]
              /\ cash' = cash - Booking(orders)[o].side * q * p - Fee
         \/ /\ cash' = Start /\ Holding(positions') = [p \in Product |-> 0]
            /\ Booking(orders') = [o \in {} |-> 0]
  PROVE  [Account!LedgerNext]_(Account!ledger)
<1>1. CASE /\ UNCHANGED cash /\ Holding(positions') = Holding(positions)
           /\ Booking(orders') = Booking(orders)
  BY <1>1 DEF Booking, Holding, Account!ledger
<1>2. CASE \E o \in DOMAIN Booking(orders') \ DOMAIN Booking(orders) :
              /\ Booking(orders')[o].filled = 0
              /\ Booking(orders') = [x \in DOMAIN Booking(orders) \cup {o} |->
                                       IF x = o THEN Booking(orders')[o]
                                       ELSE Booking(orders)[x]]
              /\ UNCHANGED cash /\ Holding(positions') = Holding(positions)
  <2>1. Account!BookOrder
    BY <1>2, Zenon DEF Booking, Holding, Account!BookOrder
  <2> QED BY <2>1 DEF Account!LedgerNext
<1>3. ASSUME NEW o \in DOMAIN Booking(orders), NEW p \in Prices,
             NEW q \in 1..(Booking(orders)[o].qty - Booking(orders)[o].filled),
             Booking(orders)[o].side = 1 => q * p <= cash,
             Booking(orders') = [Booking(orders) EXCEPT ![o].filled = @ + q],
             Holding(positions') =
               [Holding(positions) EXCEPT ![Booking(orders)[o].product] =
                  @ + Booking(orders)[o].side * q],
             cash' = cash - Booking(orders)[o].side * q * p - Fee
      PROVE  Account!LedgerNext
  <2>1. Account!Post(o, q, p)
    BY <1>3, Zenon DEF Booking, Holding, Account!Post
  <2> QED BY <2>1, Zenon DEF Booking, Account!LedgerNext
<1>4. CASE /\ cash' = Start /\ Holding(positions') = [p \in Product |-> 0]
           /\ Booking(orders') = [o \in {} |-> 0]
  <2>1. Account!Wipe
    BY <1>4, Zenon DEF Booking, Holding, Account!Wipe
  <2> QED BY <2>1 DEF Account!LedgerNext
<1> QED BY <1>1, <1>2, <1>3, <1>4

\* A call that adds an order books it.
LEMMA BookStep ==
  ASSUME IInv, NEW x, x.filled = 0, issued' = issued + 1,
         orders' = With(orders, issued', x), UNCHANGED <<cash, positions>>
  PROVE  [Account!LedgerNext]_(Account!ledger)
<1> DEFINE o == issued'
           b == Booking(orders)
           c == Booking(orders')
<1>1. /\ o \notin DOMAIN orders /\ DOMAIN orders' = DOMAIN orders \cup {o}
      /\ orders'[o] = x
      /\ \A y \in DOMAIN orders : orders'[y] = orders[y]
  BY DEF IInv, TypeOK, With
<1>2. DOMAIN b = DOMAIN orders /\ DOMAIN c = DOMAIN orders'
  BY DEF Booking
<1>3. o \in DOMAIN c \ DOMAIN b
  BY <1>1, <1>2
<1>4. c[o].filled = 0
  BY <1>1 DEF Booking
<1>5. c = [y \in DOMAIN b \cup {o} |-> IF y = o THEN c[o] ELSE b[y]]
  <2>1. \A y \in DOMAIN orders : c[y] = b[y]
    BY <1>1 DEF Booking
  <2>2. c = [y \in DOMAIN c |-> c[y]]
    BY DEF Booking
  <2> HIDE DEF b, c
  <2> QED BY <1>1, <1>2, <2>1, <2>2
<1>6. UNCHANGED cash /\ Holding(positions') = Holding(positions)
  OBVIOUS
<1> HIDE DEF b, c, o
<1>7. \E z \in DOMAIN c \ DOMAIN b :
        /\ c[z].filled = 0
        /\ c = [y \in DOMAIN b \cup {z} |-> IF y = z THEN c[z] ELSE b[y]]
        /\ UNCHANGED cash /\ Holding(positions') = Holding(positions)
  BY <1>3, <1>4, <1>5, <1>6
<1> QED BY <1>7, LedgerSteps DEF b, c

\* A fill posts an execution.
LEMMA PostStep ==
  ASSUME IInv, NEW o \in DOMAIN orders, NEW p \in Prices, NEW q \in 1..Left(orders[o]),
         Affordable(orders[o], q, p), Fill(o, q, p)
  PROVE  [Account!LedgerNext]_(Account!ledger)
<1> DEFINE b == Booking(orders)
           s == IF q = Left(orders[o]) THEN "FILLED" ELSE "PARTIAL"
           x == [orders[o] EXCEPT !.filled = @ + q, !.status = s]
           pr == orders[o].product
           signed == orders[o].side * q
           pos == Applied(positions[pr], signed, p)
<1>1. WellFormed(orders[o]) /\ orders[o] \in OrderType
  BY DEF IInv, TypeOK, WellFormed
<1>2. /\ orders' = [orders EXCEPT ![o] = x]
      /\ positions' = [positions EXCEPT ![pr] = pos]
      /\ cash' = cash - orders[o].side * q * p - Fee
  BY DEF Fill
<1>3. /\ DOMAIN b = DOMAIN orders
      /\ b[o].side = orders[o].side /\ b[o].product = pr
      /\ b[o].qty = orders[o].qty /\ b[o].filled = orders[o].filled
  BY DEF Booking
<1>4. q \in 1..(b[o].qty - b[o].filled)
  BY <1>3 DEF Left
<1>5. b[o].side = 1 => q * p <= cash
  BY <1>3 DEF Affordable, BUY
<1>6. Booking(orders') = [b EXCEPT ![o].filled = @ + q]
  <2> DEFINE new == [b[o] EXCEPT !.filled = @ + q]
  <2>1. /\ x.product = orders[o].product /\ x.side = orders[o].side /\ x.qty = orders[o].qty
        /\ x.filled = orders[o].filled + q
    BY <1>1 DEF OrderType
  <2>2. new = [product |-> x.product, side |-> x.side, qty |-> x.qty, filled |-> x.filled]
    BY <2>1 DEF Booking
  <2> HIDE DEF x, s
  <2>3. /\ DOMAIN orders' = DOMAIN orders /\ orders'[o] = x
        /\ \A y \in DOMAIN orders : y # o => orders'[y] = orders[y]
    BY <1>2
  <2> HIDE DEF new
  <2>4. Booking(orders') = [b EXCEPT ![o] = new]
    BY <2>2, <2>3 DEF Booking
  <2> QED BY <2>4 DEF new
<1>7. pr \in Product /\ signed \in Int /\ signed # 0 /\ positions[pr] \in PositionType
  <2>1. pr \in Product /\ orders[o].side \in {1, -1} /\ Left(orders[o]) \in Int
    BY <1>1 DEF WellFormed, OrderType, Left, BUY, SELL
  <2> QED BY <2>1 DEF IInv, TypeOK
<1>8. pos.qty = positions[pr].qty + signed
  BY <1>7, AppliedTyped
<1>9. Holding(positions') = [Holding(positions) EXCEPT ![b[o].product] = @ + b[o].side * q]
  <2>1. /\ positions \in [Product -> PositionType] /\ positions'[pr].qty = positions[pr].qty + signed
        /\ \A y \in Product : y # pr => positions'[y] = positions[y]
    BY <1>2, <1>7, <1>8 DEF IInv, TypeOK
  <2> HIDE DEF pos, b
  <2>2. Holding(positions') = [Holding(positions) EXCEPT ![pr] = @ + signed]
    BY <1>7, <2>1 DEF Holding
  <2> QED BY <1>3, <2>2
<1>10. cash' = cash - b[o].side * q * p - Fee
  BY <1>2, <1>3
<1> HIDE DEF b, x, pos, pr, signed
<1>11. \E z \in DOMAIN b, r \in Prices : \E k \in 1..(b[z].qty - b[z].filled) :
         /\ b[z].side = 1 => k * r <= cash
         /\ Booking(orders') = [b EXCEPT ![z].filled = @ + k]
         /\ Holding(positions') = [Holding(positions) EXCEPT ![b[z].product] = @ + b[z].side * k]
         /\ cash' = cash - b[z].side * k * r - Fee
  BY <1>3, <1>4, <1>5, <1>6, <1>9, <1>10, Zenon
<1> QED BY <1>11, LedgerSteps DEF b

\* A restart between calls is no event of the ledger.
LEMMA RestartStep ==
  ASSUME IInv, AtRest, Restart
  PROVE  [Account!LedgerNext]_(Account!ledger)
<1>1. \A j : ~Queued(j)
  BY DEF AtRest, Queued
<1>2. orders' = disk.orders /\ cash' = disk.cash /\ positions' = disk.positions
  BY DEF Restart
<1>3. disk.cash = cash /\ \A p \in Product : disk.positions[p] = positions[p]
  BY <1>1 DEF IInv, StaleIsQueued
<1>4. DOMAIN disk.orders = DOMAIN orders
  BY <1>1 DEF IInv, StaleIsQueued
<1>5. ASSUME NEW o \in DOMAIN orders
      PROVE  LET row == disk.orders[o] IN
             /\ row.product = orders[o].product /\ row.side = orders[o].side
             /\ row.qty = orders[o].qty /\ row.filled = orders[o].filled
  <2>1. Kept(disk.orders[o], orders[o])
    BY <1>1 DEF IInv, StaleIsQueued
  <2>2. disk.orders[o] \in OrderType
    BY <1>4 DEF IInv, TypeOK, WellFormed
  <2> QED BY <2>1, <2>2 DEF Kept, OrderType
<1>6. Booking(disk.orders) = Booking(orders)
  BY <1>4, <1>5, SameBooking
<1>7. Holding(disk.positions) = Holding(positions)
  BY <1>3 DEF Holding
<1> QED BY <1>2, <1>3, <1>6, <1>7, LedgerSteps

\* Every step of the account is a step of the ledger, or none.
LEMMA LedgerStep ==
  ASSUME IInv, [Next]_vars, ~Torn
  PROVE  [Account!LedgerNext]_(Account!ledger)
<1>1. CASE UNCHANGED memory
  BY <1>1, LedgerSteps DEF memory
<1>2. ASSUME NEW r \in Requests, PlaceOrder(r)
      PROVE  [Account!LedgerNext]_(Account!ledger)
  <2>1. CASE Valid(r)
    BY <1>2, <2>1, RequestMakes, BookStep DEF PlaceOrder
  <2>2. CASE ~Valid(r)
    <3> DEFINE x == [FromRequest(r) EXCEPT !.status = "REJECTED"]
    <3>1. x.filled = 0
      BY RequestMakes
    <3>2. /\ orders' = With(orders, issued', x) /\ issued' = issued + 1
          /\ UNCHANGED <<cash, positions>>
      BY <1>2, <2>2 DEF PlaceOrder
    <3> HIDE DEF x
    <3> QED BY <3>1, <3>2, BookStep
  <2> QED BY <2>1, <2>2
<1>3. ASSUME NEW p \in Liquidated, Liquidate(p)
      PROVE  [Account!LedgerNext]_(Account!ledger)
  <2>1. p \in Product /\ positions[p].qty \in Int /\ positions[p].qty # 0
    BY <1>3, AccountAssumption DEF Liquidate, IInv, TypeOK, PositionType
  <2>2. Closing(p, positions[p].qty).filled = 0
    BY <2>1, ClosingMakes
  <2> QED BY <1>3, <2>2, BookStep DEF Liquidate
<1>4. ASSUME NEW o \in DOMAIN orders, NEW x \in OrderType,
             x.product = orders[o].product, x.side = orders[o].side,
             x.qty = orders[o].qty, x.filled = orders[o].filled,
             orders' = [orders EXCEPT ![o] = x], UNCHANGED <<cash, positions>>
      PROVE  [Account!LedgerNext]_(Account!ledger)
  BY <1>4, UnseenChange, LedgerSteps
<1>5. \A o \in DOMAIN orders : orders[o] \in OrderType
  BY DEF IInv, TypeOK, WellFormed
<1>6. ASSUME NEW o \in DOMAIN orders, NEW s \in Status,
             orders' = [orders EXCEPT ![o].status = s], UNCHANGED <<cash, positions>>
      PROVE  [Account!LedgerNext]_(Account!ledger)
  <2> DEFINE x == [orders[o] EXCEPT !.status = s]
  <2>1. /\ x \in OrderType /\ x.product = orders[o].product /\ x.side = orders[o].side
        /\ x.qty = orders[o].qty /\ x.filled = orders[o].filled
    BY <1>5 DEF OrderType
  <2>2. orders' = [orders EXCEPT ![o] = x]
    BY <1>6
  <2> HIDE DEF x
  <2> QED BY <1>4, <1>6, <2>1, <2>2
<1>7. ASSUME NEW o \in DOMAIN orders, CancelOrder(o)
      PROVE  [Account!LedgerNext]_(Account!ledger)
  BY <1>6, <1>7 DEF CancelOrder, Status
<1>8. ASSUME NEW o \in DOMAIN orders, NEW p \in Modified, ModifyOrder(o, p)
      PROVE  [Account!LedgerNext]_(Account!ledger)
  <2> DEFINE x == [orders[o] EXCEPT !.price = p]
  <2>1. /\ x \in OrderType /\ x.product = orders[o].product /\ x.side = orders[o].side
        /\ x.qty = orders[o].qty /\ x.filled = orders[o].filled
    BY <1>5, AccountAssumption DEF OrderType
  <2>2. orders' = [orders EXCEPT ![o] = x] /\ UNCHANGED <<cash, positions>>
    BY <1>8 DEF ModifyOrder
  <2> HIDE DEF x
  <2> QED BY <1>4, <2>1, <2>2
<1>9. CASE TryFill
  BY <1>1, <1>6, <1>9, TryFillDoes, PostStep
<1>10. CASE Restart
  BY <1>10, RestartStep DEF Restart
<1>11. CASE Reset
  <2>1. cash' = Start
    BY <1>11, NewAccountTyped DEF Reset
  <2>2. Holding(positions') = [p \in Product |-> 0]
    <3>1. \A p \in Product : positions'[p].qty = 0
      BY <1>11, NewAccountTyped DEF Reset, Flat
    <3> QED BY <3>1 DEF Holding
  <2>3. Booking(orders') = [o \in {} |-> 0]
    <3>1. DOMAIN orders' = {}
      BY <1>11, NewAccountTyped DEF Reset
    <3> QED BY <3>1 DEF Booking
  <2> QED BY <2>1, <2>2, <2>3, LedgerSteps
<1>12. CASE (\E px \in Contexts : OnPrice(px)) \/ MatchNext \/ Write \/ UNCHANGED vars
  BY <1>1, <1>12 DEF OnPrice, MatchNext, Write, vars
<1> QED BY <1>2, <1>3, <1>7, <1>8, <1>9, <1>10, <1>11, <1>12 DEF Next, Call

\* Where the process stops between calls only, the account is the ledger: cash and
\* holdings move by posting affordable executions of booked orders, no order is
\* executed beyond its quantity, and a restart changes nothing.
THEOREM AccountImplementsLedger ==
  ASSUME ~Torn
  PROVE  Spec => ImplementsLedger
<1>1. Init => Account!LedgerInit
  <2> SUFFICES ASSUME Init
               PROVE  Account!LedgerInit
    OBVIOUS
  <2>1. cash = Start /\ DOMAIN orders = {}
    BY NewAccountTyped DEF Init
  <2>2. \A p \in Product : positions[p].qty = 0
    BY NewAccountTyped DEF Init, Flat
  <2> QED BY <2>1, <2>2 DEF Account!LedgerInit
<1>2. IInv /\ [Next]_vars => [Account!LedgerNext]_(Account!ledger)
  BY LedgerStep
<1> QED BY <1>1, <1>2, AlwaysIInv, PTL DEF Spec, ImplementsLedger, Account!LedgerSpec
-----------------------------------------------------------------------------
(* The books.                                                              *)

\* What a book x keeps of the order it is a version of, y: all but what callers change.
SameDeal(x, y) ==
  /\ x.product = y.product /\ x.side = y.side /\ x.qty = y.qty /\ x.filled = y.filled
  /\ x.status \in Working => y.status \in Working

\* What a working order may still sell from the delivery holdings.
Selling(x) ==
  IF x.product = "CNC" /\ x.side = SELL /\ x.status \in Working THEN Left(x) ELSE 0

\* What an order made of the position of a product.
Makes(x, p) == IF x.product = p THEN x.side * x.filled ELSE 0

\* The orders f, fills s and positions q agree.
Unsold(f) == SumFunctionOnSet([o \in DOMAIN f |-> Selling(f[o])], DOMAIN f)
Net(f, p) == SumFunctionOnSet([o \in DOMAIN f |-> Makes(f[o], p)], DOMAIN f)
Part(r, o) == IF r.id = o THEN r.qty ELSE 0
Executed(s, o) == SumFunctionOnSet([k \in DOMAIN s |-> Part(s[k], o)], DOMAIN s)
Books(f, s, q) ==
  /\ \A o \in DOMAIN f : Executed(s, o) = f[o].filled
  /\ \A k \in DOMAIN s : s[k].id \in DOMAIN f
  /\ \A p \in Product : Net(f, p) = q[p].qty
Endowed(f, q) == Unsold(f) <= q["CNC"].qty

\* The restrictions of the runs under which delivery shares are covered: orders come
\* after a price, and only intraday positions are liquidated.
Delivered == ~Torn /\ ~Blind /\ "CNC" \notin Liquidated

\* A new order asks for shares that are there, or for none.
CoveredSell(x) == Selling(x) = 0 \/ Selling(x) + OpenSells <= positions["CNC"].qty

\* A table of orders is finite and its terms are integers.
LEMMA OrdersCount ==
  ASSUME NEW n \in Nat, NEW f, DOMAIN f \subseteq 1..n, \A o \in DOMAIN f : WellFormed(f[o])
  PROVE  /\ IsFiniteSet(DOMAIN f)
         /\ \A o \in DOMAIN f : Selling(f[o]) \in Nat /\ \A p : Makes(f[o], p) \in Int
         /\ \A o \in DOMAIN f : Left(f[o]) \in Nat
<1>1. IsFiniteSet(DOMAIN f)
  <2>1. IsFiniteSet(1..n)
    BY FS_Interval
  <2> QED BY <2>1, FS_Subset
<1>2. ASSUME NEW o \in DOMAIN f
      PROVE  Left(f[o]) \in Nat /\ f[o].side \in {1, -1} /\ f[o].filled \in Nat
  BY DEF WellFormed, OrderType, Left, BUY, SELL
<1> QED BY <1>1, <1>2 DEF Selling, Makes

\* What is left to sell adds up to a number.
LEMMA UnsoldIsInt ==
  ASSUME NEW n \in Nat, NEW f, DOMAIN f \subseteq 1..n, \A o \in DOMAIN f : WellFormed(f[o])
  PROVE  Unsold(f) \in Int
<1> DEFINE g == [y \in DOMAIN f |-> Selling(f[y])]
<1>1. IsFiniteSet(DOMAIN f) /\ IntOn(g, DOMAIN f)
  BY OrdersCount DEF IntOn
<1> HIDE DEF g
<1>2. SumFunctionOnSet(g, DOMAIN f) \in Int
  BY <1>1, SumIsInt
<1> QED BY <1>2 DEF g, Unsold

\* One order is changed.
LEMMA OneOrderChanges ==
  ASSUME NEW n \in Nat, NEW f, NEW g, DOMAIN f \subseteq 1..n, DOMAIN g = DOMAIN f,
         \A o \in DOMAIN f : WellFormed(f[o]) /\ WellFormed(g[o]),
         NEW o \in DOMAIN f, \A x \in DOMAIN f : x # o => g[x] = f[x]
  PROVE  /\ Unsold(g) = Unsold(f) + (Selling(g[o]) - Selling(f[o]))
         /\ \A p : Net(g, p) = Net(f, p) + (Makes(g[o], p) - Makes(f[o], p))
<1>1. /\ IsFiniteSet(DOMAIN f)
      /\ \A x \in DOMAIN f : /\ Selling(f[x]) \in Int /\ Selling(g[x]) \in Int
                             /\ \A p : Makes(f[x], p) \in Int /\ Makes(g[x], p) \in Int
  BY OrdersCount
<1>2. Unsold(g) = Unsold(f) + (Selling(g[o]) - Selling(f[o]))
  <2> DEFINE s == [x \in DOMAIN f |-> Selling(f[x])]
             t == [x \in DOMAIN g |-> Selling(g[x])]
  <2>1. IntOn(s, DOMAIN f) /\ IntOn(t, DOMAIN f) /\ \A x \in DOMAIN f : x # o => s[x] = t[x]
    BY <1>1 DEF IntOn
  <2>2. s[o] = Selling(f[o]) /\ t[o] = Selling(g[o])
    OBVIOUS
  <2> HIDE DEF s, t
  <2>3. SumFunctionOnSet(t, DOMAIN f) = SumFunctionOnSet(s, DOMAIN f) + (t[o] - s[o])
    BY <1>1, <2>1, SumChanges
  <2> QED BY <2>2, <2>3 DEF s, t, Unsold
<1>3. ASSUME NEW p PROVE Net(g, p) = Net(f, p) + (Makes(g[o], p) - Makes(f[o], p))
  <2> DEFINE s == [x \in DOMAIN f |-> Makes(f[x], p)]
             t == [x \in DOMAIN g |-> Makes(g[x], p)]
  <2>1. IntOn(s, DOMAIN f) /\ IntOn(t, DOMAIN f) /\ \A x \in DOMAIN f : x # o => s[x] = t[x]
    BY <1>1 DEF IntOn
  <2>2. s[o] = Makes(f[o], p) /\ t[o] = Makes(g[o], p)
    OBVIOUS
  <2> HIDE DEF s, t
  <2>3. SumFunctionOnSet(t, DOMAIN f) = SumFunctionOnSet(s, DOMAIN f) + (t[o] - s[o])
    BY <1>1, <2>1, SumChanges
  <2> QED BY <2>2, <2>3 DEF s, t, Net
<1> QED BY <1>2, <1>3

\* One order is added.
LEMMA OneOrderMore ==
  ASSUME NEW n \in Nat, NEW f, DOMAIN f \subseteq 1..n, \A o \in DOMAIN f : WellFormed(f[o]),
         NEW o, o \notin DOMAIN f, NEW x, WellFormed(x)
  PROVE  /\ Unsold(With(f, o, x)) = Unsold(f) + Selling(x)
         /\ \A p : Net(With(f, o, x), p) = Net(f, p) + Makes(x, p)
<1> DEFINE g == With(f, o, x)
           S == DOMAIN f
<1>1. DOMAIN g = S \cup {o} /\ g[o] = x /\ \A y \in S : g[y] = f[y]
  BY DEF With
<1>2. /\ IsFiniteSet(S)
      /\ \A y \in S : Selling(f[y]) \in Int /\ \A p : Makes(f[y], p) \in Int
  BY OrdersCount
<1>3. Selling(x) \in Int /\ \A p : Makes(x, p) \in Int
  BY DEF WellFormed, OrderType, Selling, Makes, Left, BUY, SELL
<1> HIDE DEF g
<1>4. Unsold(g) = Unsold(f) + Selling(x)
  <2> DEFINE s == [y \in DOMAIN f |-> Selling(f[y])]
             t == [y \in DOMAIN g |-> Selling(g[y])]
  <2>1. IntOn(s, S) /\ IntOn(t, S) /\ (\A y \in S : s[y] = t[y]) /\ t[o] = Selling(x)
    BY <1>1, <1>2 DEF IntOn
  <2> HIDE DEF s, t
  <2>2. SumFunctionOnSet(t, S \cup {o}) = t[o] + SumFunctionOnSet(t, S)
    BY <1>2, <1>3, <2>1, SumAdds
  <2>3. SumFunctionOnSet(s, S) = SumFunctionOnSet(t, S) /\ SumFunctionOnSet(s, S) \in Int
    BY <1>2, <2>1, SumSame, SumIsInt
  <2> QED BY <1>1, <1>3, <2>1, <2>2, <2>3 DEF s, t, Unsold
<1>5. ASSUME NEW p PROVE Net(g, p) = Net(f, p) + Makes(x, p)
  <2> DEFINE s == [y \in DOMAIN f |-> Makes(f[y], p)]
             t == [y \in DOMAIN g |-> Makes(g[y], p)]
  <2>1. IntOn(s, S) /\ IntOn(t, S) /\ (\A y \in S : s[y] = t[y]) /\ t[o] = Makes(x, p)
    BY <1>1, <1>2 DEF IntOn
  <2> HIDE DEF s, t
  <2>2. SumFunctionOnSet(t, S \cup {o}) = t[o] + SumFunctionOnSet(t, S)
    BY <1>2, <1>3, <2>1, SumAdds
  <2>3. SumFunctionOnSet(s, S) = SumFunctionOnSet(t, S) /\ SumFunctionOnSet(s, S) \in Int
    BY <1>2, <2>1, SumSame, SumIsInt
  <2> QED BY <1>1, <1>3, <2>1, <2>2, <2>3 DEF s, t, Net
<1> QED BY <1>4, <1>5 DEF g

\* Orders of the same deals.
LEMMA SameDealsSum ==
  ASSUME NEW n \in Nat, NEW f, NEW g, DOMAIN f \subseteq 1..n, DOMAIN g = DOMAIN f,
         \A o \in DOMAIN f : WellFormed(f[o]) /\ WellFormed(g[o]) /\ SameDeal(g[o], f[o])
  PROVE  Unsold(g) <= Unsold(f) /\ \A p : Net(g, p) = Net(f, p)
<1>1. /\ IsFiniteSet(DOMAIN f)
      /\ \A x \in DOMAIN f : /\ Selling(f[x]) \in Int /\ Selling(g[x]) \in Int
                             /\ Selling(g[x]) <= Selling(f[x])
                             /\ \A p : Makes(f[x], p) \in Int /\ Makes(g[x], p) = Makes(f[x], p)
  <2>1. /\ IsFiniteSet(DOMAIN f)
        /\ \A x \in DOMAIN f : /\ Selling(f[x]) \in Nat /\ Selling(g[x]) \in Nat
                               /\ \A p : Makes(f[x], p) \in Int
                               /\ Left(f[x]) \in Nat
    BY OrdersCount
  <2>2. \A x \in DOMAIN f : Left(g[x]) = Left(f[x])
    BY DEF SameDeal, Left
  <2> QED BY <2>1, <2>2 DEF SameDeal, Selling, Makes
<1>2. Unsold(g) <= Unsold(f)
  <2> DEFINE s == [x \in DOMAIN f |-> Selling(f[x])]
             t == [x \in DOMAIN g |-> Selling(g[x])]
  <2>1. IntOn(s, DOMAIN f) /\ IntOn(t, DOMAIN f) /\ \A x \in DOMAIN f : t[x] <= s[x]
    BY <1>1 DEF IntOn
  <2> HIDE DEF s, t
  <2>2. SumFunctionOnSet(t, DOMAIN f) <= SumFunctionOnSet(s, DOMAIN f)
    BY <1>1, <2>1, SumOrdered
  <2> QED BY <2>2 DEF s, t, Unsold
<1>3. ASSUME NEW p PROVE Net(g, p) = Net(f, p)
  <2> DEFINE s == [x \in DOMAIN f |-> Makes(f[x], p)]
             t == [x \in DOMAIN g |-> Makes(g[x], p)]
  <2>1. s = t
    BY <1>1
  <2> QED BY <2>1 DEF Net
<1> QED BY <1>2, <1>3

\* A fill is added to the fills.
LEMMA OneFillMore ==
  ASSUME NEW s \in Seq(FillType), NEW r \in FillType
  PROVE  /\ \A o : Executed(Append(s, r), o) = Executed(s, o) + Part(r, o)
         /\ \A k \in DOMAIN Append(s, r) : Append(s, r)[k] = r \/ (k \in DOMAIN s /\ Append(s, r)[k] = s[k])
<1>0. PICK t : t = Append(s, r)
  OBVIOUS
<1>1. /\ DOMAIN t = DOMAIN s \cup {Len(s) + 1} /\ Len(s) + 1 \notin DOMAIN s
      /\ t[Len(s) + 1] = r /\ \A k \in DOMAIN s : t[k] = s[k]
      /\ IsFiniteSet(DOMAIN s)
  <2>1. DOMAIN s = 1..Len(s) /\ Len(s) \in Nat
    OBVIOUS
  <2>2. IsFiniteSet(1..Len(s))
    BY <2>1, FS_Interval
  <2> QED BY <1>0, <2>1, <2>2
<1>2. \A o : \A k \in DOMAIN s : Part(s[k], o) \in Int
  <2>1. \A k \in DOMAIN s : s[k] \in FillType
    OBVIOUS
  <2> QED BY <2>1 DEF Part, FillType
<1>3. \A o : Part(r, o) \in Int
  BY DEF Part, FillType
<1>4. ASSUME NEW o PROVE Executed(t, o) = Executed(s, o) + Part(r, o)
  <2> DEFINE a == [k \in DOMAIN s |-> Part(s[k], o)]
             b == [k \in DOMAIN t |-> Part(t[k], o)]
             S == DOMAIN s
             l == Len(s) + 1
  <2>1. IntOn(a, S) /\ IntOn(b, S) /\ (\A k \in S : a[k] = b[k]) /\ b[l] = Part(r, o)
    BY <1>1, <1>2 DEF IntOn
  <2>2. l \notin S /\ DOMAIN t = S \cup {l} /\ IsFiniteSet(S)
    BY <1>1
  <2> HIDE DEF a, b, S, l
  <2>3. SumFunctionOnSet(b, S \cup {l}) = b[l] + SumFunctionOnSet(b, S)
    <3>1. b[l] \in Int
      BY <1>3, <2>1
    <3> QED BY <2>1, <2>2, <3>1, SumAdds
  <2>4. SumFunctionOnSet(a, S) = SumFunctionOnSet(b, S) /\ SumFunctionOnSet(a, S) \in Int
    BY <2>1, <2>2, SumSame, SumIsInt
  <2> QED BY <1>3, <2>1, <2>2, <2>3, <2>4 DEF a, b, S, Executed
<1>5. \A k \in DOMAIN t : t[k] = r \/ (k \in DOMAIN s /\ t[k] = s[k])
  BY <1>1
<1> QED BY <1>0, <1>4, <1>5

\* Fills of other orders are none of an order's.
LEMMA NotExecuted ==
  ASSUME NEW s \in Seq(FillType), NEW o, \A k \in DOMAIN s : s[k].id # o
  PROVE  Executed(s, o) = 0
<1>1. IsFiniteSet(DOMAIN s)
  <2>1. DOMAIN s = 1..Len(s) /\ Len(s) \in Nat
    OBVIOUS
  <2> QED BY <2>1, FS_Interval
<1> DEFINE a == [k \in DOMAIN s |-> Part(s[k], o)]
<1>2. \A k \in DOMAIN s : a[k] = 0
  BY DEF Part
<1> HIDE DEF a
<1>3. SumFunctionOnSet(a, DOMAIN s) = 0
  BY <1>1, <1>2, SumOfZeros
<1> QED BY <1>3 DEF a, Executed

\* The sums of the model, which range over the orders and fills they are about.
LEMMA SumsOf ==
  ASSUME IInv
  PROVE  /\ OpenSells = Unsold(orders)
         /\ \A o : SumFills({k \in DOMAIN fills : fills[k].id = o}) = Executed(fills, o)
         /\ \A p : SumFunctionOnSet([o \in DOMAIN orders |-> orders[o].side * orders[o].filled],
                                    {o \in DOMAIN orders : orders[o].product = p}) = Net(orders, p)
<1>1. /\ IsFiniteSet(DOMAIN orders)
      /\ \A o \in DOMAIN orders : Selling(orders[o]) \in Nat /\ Left(orders[o]) \in Nat
                                  /\ orders[o].side * orders[o].filled \in Int
  <2>1. \A o \in DOMAIN orders : orders[o].side * orders[o].filled \in Int
    <3> SUFFICES ASSUME NEW o \in DOMAIN orders PROVE orders[o].side * orders[o].filled \in Int
      OBVIOUS
    <3>1. orders[o].side \in {1, -1} /\ orders[o].filled \in Nat
      BY DEF IInv, TypeOK, WellFormed, OrderType, BUY, SELL
    <3> QED BY <3>1
  <2> QED BY <2>1, OrdersCount DEF IInv, TypeOK
<1>2. OpenSells = Unsold(orders)
  <2> DEFINE f == [o \in DOMAIN orders |-> Left(orders[o])]
             g == [o \in DOMAIN orders |-> Selling(orders[o])]
             R == {o \in DOMAIN orders : /\ orders[o].product = "CNC" /\ orders[o].side = SELL
                                         /\ orders[o].status \in Working}
  <2>1. /\ R \in SUBSET DOMAIN orders /\ IntOn(f, R)
        /\ \A o \in R : g[o] = f[o]
        /\ \A o \in DOMAIN orders \ R : g[o] = 0
    BY <1>1 DEF IntOn, Selling
  <2> HIDE DEF f, g, R
  <2>2. SumFunctionOnSet(f, R) = SumFunctionOnSet(g, DOMAIN orders)
    BY <1>1, <2>1, SumFiltered
  <2> QED BY <2>2 DEF f, g, R, OpenSells, Unsold
<1>3. ASSUME NEW o PROVE SumFills({k \in DOMAIN fills : fills[k].id = o}) = Executed(fills, o)
  <2> DEFINE f == [k \in DOMAIN fills |-> fills[k].qty]
             g == [k \in DOMAIN fills |-> Part(fills[k], o)]
             R == {k \in DOMAIN fills : fills[k].id = o}
  <2>1. fills \in Seq(FillType) /\ DOMAIN fills = 1..Len(fills) /\ Len(fills) \in Nat
    BY DEF IInv, TypeOK
  <2>2. IsFiniteSet(DOMAIN fills)
    BY <2>1, FS_Interval
  <2>3. \A k \in DOMAIN fills : fills[k].qty \in Int
    <3>1. \A k \in DOMAIN fills : fills[k] \in FillType
      BY <2>1
    <3> QED BY <3>1 DEF FillType
  <2>4. /\ R \in SUBSET DOMAIN fills /\ IntOn(f, R)
        /\ \A k \in R : g[k] = f[k]
        /\ \A k \in DOMAIN fills \ R : g[k] = 0
    BY <2>3 DEF IntOn, Part
  <2> HIDE DEF f, g, R
  <2>5. SumFunctionOnSet(f, R) = SumFunctionOnSet(g, DOMAIN fills)
    BY <2>2, <2>4, SumFiltered
  <2> QED BY <2>5 DEF f, g, R, SumFills, Executed
<1>4. ASSUME NEW p
      PROVE  SumFunctionOnSet([o \in DOMAIN orders |-> orders[o].side * orders[o].filled],
                              {o \in DOMAIN orders : orders[o].product = p}) = Net(orders, p)
  <2> DEFINE f == [o \in DOMAIN orders |-> orders[o].side * orders[o].filled]
             g == [o \in DOMAIN orders |-> Makes(orders[o], p)]
             R == {o \in DOMAIN orders : orders[o].product = p}
  <2>1. /\ R \in SUBSET DOMAIN orders /\ IntOn(f, R)
        /\ \A o \in R : g[o] = f[o]
        /\ \A o \in DOMAIN orders \ R : g[o] = 0
    BY <1>1 DEF IntOn, Makes
  <2> HIDE DEF f, g, R
  <2>2. SumFunctionOnSet(f, R) = SumFunctionOnSet(g, DOMAIN orders)
    BY <1>1, <2>1, SumFiltered
  <2> QED BY <2>2 DEF f, g, R, Net
<1> QED BY <1>2, <1>3, <1>4

\* What a step of an account that stops between calls only does to its books.
LEMMA AccountMoves ==
  ASSUME IInv, [Next]_vars, ~Torn
  PROVE  \/ /\ DOMAIN orders' = DOMAIN orders
            /\ \A o \in DOMAIN orders : SameDeal(orders'[o], orders[o])
            /\ UNCHANGED <<fills, cash, positions>>
         \/ /\ \E x : /\ WellFormed(x) /\ x.filled = 0
                      /\ Delivered => CoveredSell(x)
                      /\ orders' = With(orders, issued + 1, x)
            /\ UNCHANGED <<fills, cash, positions>>
         \/ \E o \in DOMAIN orders, p \in Prices : \E q \in 1..Left(orders[o]) :
              orders[o].status \in Working /\ Affordable(orders[o], q, p) /\ Fill(o, q, p)
         \/ /\ orders' = NewAccount.orders /\ fills' = NewAccount.fills
            /\ cash' = NewAccount.cash /\ positions' = NewAccount.positions
<1> DEFINE Alike == /\ DOMAIN orders' = DOMAIN orders
                    /\ \A o \in DOMAIN orders : SameDeal(orders'[o], orders[o])
                    /\ UNCHANGED <<fills, cash, positions>>
           More(x) == /\ WellFormed(x) /\ x.filled = 0
                      /\ Delivered => CoveredSell(x)
                      /\ orders' = With(orders, issued + 1, x)
                      /\ UNCHANGED <<fills, cash, positions>>
<1>1. CASE UNCHANGED memory
  BY <1>1 DEF memory, SameDeal
<1>2. ASSUME NEW o \in DOMAIN orders, NEW x, SameDeal(x, orders[o]),
             orders' = [orders EXCEPT ![o] = x], UNCHANGED <<fills, cash, positions>>
      PROVE  Alike
  <2>1. DOMAIN orders' = DOMAIN orders /\ orders'[o] = x
        /\ \A y \in DOMAIN orders : y # o => orders'[y] = orders[y]
    BY <1>2
  <2>2. \A y : SameDeal(y, y)
    BY DEF SameDeal
  <2> QED BY <1>2, <2>1, <2>2
<1>3. ASSUME NEW o \in DOMAIN orders, NEW s, orders[o].status \in Working,
             orders' = [orders EXCEPT ![o].status = s], UNCHANGED <<fills, cash, positions>>
      PROVE  Alike
  <2> DEFINE x == [orders[o] EXCEPT !.status = s]
  <2>1. orders[o] \in OrderType
    BY DEF IInv, TypeOK, WellFormed
  <2>2. SameDeal(x, orders[o])
    BY <1>3, <2>1 DEF OrderType, SameDeal
  <2>3. orders' = [orders EXCEPT ![o] = x]
    BY <1>3
  <2> HIDE DEF x, Alike
  <2> QED BY <1>2, <1>3, <2>2, <2>3
<1>4. ASSUME NEW r \in Requests, PlaceOrder(r)
      PROVE  \E x : More(x)
  <2>1. issued' = issued + 1 /\ UNCHANGED <<fills, cash, positions>>
    BY <1>4 DEF PlaceOrder
  <2>2. CASE Valid(r) /\ orders' = With(orders, issued', FromRequest(r))
    <3> DEFINE x == FromRequest(r)
    <3>1. Delivered => last # None
      BY <1>4 DEF PlaceOrder, Delivered
    <3>2. /\ Delivered /\ r.product = "CNC" /\ r.side = SELL =>
                r.qty + OpenSells <= positions["CNC"].qty
      BY <2>2, <3>1 DEF Valid
    <3>3. /\ x.product = r.product /\ x.side = r.side /\ x.qty = r.qty /\ x.filled = 0
      BY DEF FromRequest
    <3>4. r.qty \in Int
      BY AccountAssumption
    <3>5. Delivered => CoveredSell(x)
      BY <3>2, <3>3, <3>4 DEF CoveredSell, Selling, Left
    <3> QED BY <2>1, <2>2, <3>5, RequestMakes
  <2>3. CASE orders' = With(orders, issued', [FromRequest(r) EXCEPT !.status = "REJECTED"])
    <3> DEFINE x == [FromRequest(r) EXCEPT !.status = "REJECTED"]
    <3>1. WellFormed(x) /\ x.filled = 0
      BY RequestMakes
    <3>2. x.status = "REJECTED"
      BY DEF FromRequest
    <3> HIDE DEF x
    <3>3. CoveredSell(x)
      BY <3>2 DEF CoveredSell, Selling, Working
    <3> QED BY <2>1, <2>3, <3>1, <3>3 DEF x
  <2> QED BY <1>4, <2>2, <2>3 DEF PlaceOrder
<1>5. ASSUME NEW p \in Liquidated, Liquidate(p)
      PROVE  \E x : More(x)
  <2> DEFINE x == Closing(p, positions[p].qty)
  <2>1. p \in Product /\ positions[p].qty \in Int /\ positions[p].qty # 0
    BY <1>5, AccountAssumption DEF Liquidate, IInv, TypeOK, PositionType
  <2>2. WellFormed(x) /\ x.filled = 0
    BY <2>1, ClosingMakes
  <2>3. x.product = p
    BY DEF Closing, FromRequest
  <2>4. orders' = With(orders, issued + 1, x) /\ UNCHANGED <<fills, cash, positions>>
    BY <1>5 DEF Liquidate
  <2> HIDE DEF x
  <2>5. Delivered => CoveredSell(x)
    BY <1>5, <2>3 DEF Delivered, CoveredSell, Selling
  <2> QED BY <2>2, <2>4, <2>5
<1>6. ASSUME NEW o \in DOMAIN orders, CancelOrder(o) \/ \E p \in Modified : ModifyOrder(o, p)
      PROVE  Alike
  <2>1. CASE CancelOrder(o)
    <3>1. /\ orders' = [orders EXCEPT ![o].status = "CANCELLED"] /\ orders[o].status \in Working
          /\ UNCHANGED <<fills, cash, positions>>
      BY <2>1 DEF CancelOrder
    <3> HIDE DEF Alike
    <3> QED BY <3>1, <1>3
  <2>2. ASSUME NEW p \in Modified, ModifyOrder(o, p) PROVE Alike
    <3> DEFINE x == [orders[o] EXCEPT !.price = p]
    <3>1. orders[o] \in OrderType
      BY DEF IInv, TypeOK, WellFormed
    <3>2. SameDeal(x, orders[o])
      BY <3>1 DEF OrderType, SameDeal
    <3>3. orders' = [orders EXCEPT ![o] = x] /\ UNCHANGED <<fills, cash, positions>>
      BY <2>2 DEF ModifyOrder
    <3> HIDE DEF x, Alike
    <3> QED BY <1>2, <3>2, <3>3
  <2> QED BY <1>6, <2>1, <2>2
<1>7. CASE Restart
  <2>1. AtRest
    BY <1>7 DEF Restart
  <2>2. \A j : ~Queued(j)
    BY <2>1 DEF AtRest, Queued
  <2>3. orders' = disk.orders /\ cash' = disk.cash /\ positions' = disk.positions /\ fills' = disk.fills
    BY <1>7 DEF Restart
  <2>4. /\ disk.cash = cash /\ disk.fills = fills /\ \A p \in Product : disk.positions[p] = positions[p]
        /\ DOMAIN disk.orders = DOMAIN orders
        /\ \A o \in DOMAIN orders : Kept(disk.orders[o], orders[o])
    BY <2>2 DEF IInv, StaleIsQueued
  <2>5. disk.positions = positions
    BY <2>4 DEF IInv, TypeOK
  <2>6. ASSUME NEW o \in DOMAIN orders
        PROVE  SameDeal(disk.orders[o], orders[o])
    <3>1. disk.orders[o] \in OrderType /\ Kept(disk.orders[o], orders[o])
      BY <2>4 DEF IInv, TypeOK, WellFormed
    <3> QED BY <3>1 DEF Kept, OrderType, SameDeal, Working
  <2> QED BY <2>3, <2>4, <2>5, <2>6
<1>8. CASE Reset
  BY <1>8 DEF Reset
<1>9. CASE TryFill
  <2> HIDE DEF Alike
  <2>1. CASE \E o \in DOMAIN orders : \E s \in Status :
              /\ orders[o].status \in Working
              /\ orders' = [orders EXCEPT ![o].status = s]
              /\ UNCHANGED <<fills, cash, positions>>
    <3>1. Alike
      BY <2>1, <1>3
    <3> QED BY <3>1 DEF Alike
  <2> QED BY <1>1, <1>9, <2>1, TryFillDoes
<1>10. CASE (\E px \in Contexts : OnPrice(px)) \/ MatchNext \/ Write \/ UNCHANGED vars
  BY <1>1, <1>10 DEF OnPrice, MatchNext, Write, vars
<1> HIDE DEF Alike, More
<1>11. CASE Call
  <2>1. (\E r \in Requests : PlaceOrder(r)) \/ (\E p \in Liquidated : Liquidate(p)) => \E x : More(x)
    BY <1>4, <1>5
  <2>2. (\E o \in DOMAIN orders : CancelOrder(o) \/ \E p \in Modified : ModifyOrder(o, p)) => Alike
    BY <1>6
  <2> QED BY <1>10, <1>11, <2>1, <2>2 DEF Call, Alike, More
<1> QED BY <1>7, <1>8, <1>9, <1>10, <1>11 DEF Next

\* The books and the delivery holdings after a fill.
LEMMA FillBooks ==
  ASSUME IInv, IInv', NEW o \in DOMAIN orders, NEW p \in Prices, NEW q \in 1..Left(orders[o]),
         orders[o].status \in Working, Affordable(orders[o], q, p), Fill(o, q, p),
         Books(orders, fills, positions)
  PROVE  /\ Books(orders', fills', positions')
         /\ Endowed(orders, positions) => Endowed(orders', positions')
<1> DEFINE s == IF q = Left(orders[o]) THEN "FILLED" ELSE "PARTIAL"
           x == [orders[o] EXCEPT !.filled = @ + q, !.status = s]
           pr == orders[o].product
           signed == orders[o].side * q
           r == [id |-> o, side |-> orders[o].side, qty |-> q, price |-> p]
<1>1. WellFormed(orders[o]) /\ orders[o] \in OrderType
  BY DEF IInv, TypeOK, WellFormed
<1>2. /\ orders' = [orders EXCEPT ![o] = x] /\ fills' = Append(fills, r)
      /\ positions' = [positions EXCEPT ![pr] = Applied(positions[pr], signed, p)]
  BY DEF Fill
<1>3. /\ x.product = pr /\ x.side = orders[o].side /\ x.qty = orders[o].qty
      /\ x.filled = orders[o].filled + q /\ x.status = s
  BY <1>1 DEF OrderType
<1>4. /\ pr \in Product /\ orders[o].side \in {1, -1} /\ orders[o].filled \in Nat
      /\ orders[o].qty \in Nat /\ Left(orders[o]) \in Nat /\ q \in Nat \ {0} /\ q <= Left(orders[o])
  BY <1>1 DEF WellFormed, OrderType, Left, BUY, SELL
<1>5. signed \in Int /\ signed # 0
  BY <1>4
<1>6. /\ positions'[pr].qty = positions[pr].qty + signed
      /\ \A y \in Product : y # pr => positions'[y] = positions[y]
      /\ \A y \in Product : positions[y].qty \in Int
  <2>1. positions \in [Product -> PositionType]
    BY DEF IInv, TypeOK
  <2>2. Applied(positions[pr], signed, p).qty = positions[pr].qty + signed
    BY <2>1, <1>4, <1>5, AppliedTyped
  <2> HIDE DEF signed, pr
  <2> QED BY <1>2, <1>4, <2>1, <2>2 DEF PositionType
<1>7. o \in Nat /\ r \in FillType
  <2>1. o \in Nat
    BY DEF IInv, TypeOK
  <2> QED BY <2>1, <1>1, <1>4 DEF FillType, OrderType
<1> HIDE DEF x, r
<1>8. /\ DOMAIN orders' = DOMAIN orders /\ orders'[o] = x
      /\ \A y \in DOMAIN orders : y # o => orders'[y] = orders[y]
  BY <1>2
<1>9. /\ Unsold(orders') = Unsold(orders) + (Selling(x) - Selling(orders[o]))
      /\ \A y : Net(orders', y) = Net(orders, y) + (Makes(x, y) - Makes(orders[o], y))
  <2>1. /\ issued \in Nat /\ DOMAIN orders \subseteq 1..issued
        /\ \A y \in DOMAIN orders : WellFormed(orders[y]) /\ WellFormed(orders'[y])
    BY <1>8 DEF IInv, TypeOK
  <2>2. \E f : f = orders'
    OBVIOUS
  <2> QED BY <1>8, <2>1, OneOrderChanges
<1>10. /\ Makes(x, pr) - Makes(orders[o], pr) = signed
       /\ \A y \in Product : y # pr => Makes(x, y) = 0 /\ Makes(orders[o], y) = 0
  <2>1. /\ Makes(x, pr) = orders[o].side * (orders[o].filled + q)
        /\ Makes(orders[o], pr) = orders[o].side * orders[o].filled
    BY <1>3 DEF Makes
  <2>2. orders[o].side * (orders[o].filled + q) - orders[o].side * orders[o].filled = signed
    BY <1>4
  <2>3. \A y \in Product : y # pr => Makes(x, y) = 0 /\ Makes(orders[o], y) = 0
    BY <1>3 DEF Makes
  <2> QED BY <2>1, <2>2, <2>3
<1>11. Left(x) = Left(orders[o]) - q
  BY <1>3, <1>4 DEF Left
<1>12. Books(orders', fills', positions')
  <2>1. ASSUME NEW y \in DOMAIN orders
        PROVE  Executed(fills', y) = orders'[y].filled
    <3>1. Executed(fills', y) = Executed(fills, y) + Part(r, y)
      BY <1>2, <1>7, OneFillMore, SMTT(30) DEF IInv, TypeOK
    <3>2. Executed(fills, y) = orders[y].filled /\ orders[y].filled \in Nat
      BY DEF Books, IInv, TypeOK, WellFormed, OrderType
    <3>3. Part(r, y) = IF o = y THEN q ELSE 0
      BY DEF Part, r
    <3> QED BY <3>1, <3>2, <3>3, <1>3, <1>4, <1>8
  <2>2. \A k \in DOMAIN fills' : fills'[k].id \in DOMAIN orders
    <3>1. r.id = o
      BY DEF r
    <3> QED BY <3>1, <1>2, <1>7, OneFillMore, SMTT(30) DEF Books, IInv, TypeOK
  <2>3. ASSUME NEW y \in Product
        PROVE  Net(orders', y) = positions'[y].qty
    <3>1. Net(orders, y) = positions[y].qty
      BY DEF Books
    <3> HIDE DEF signed, pr
    <3> QED BY <3>1, <1>4, <1>5, <1>6, <1>9, <1>10
  <2> QED BY <2>1, <2>2, <2>3, <1>8 DEF Books
<1>13. Endowed(orders, positions) => Endowed(orders', positions')
  <2>1. Unsold(orders) \in Int /\ positions["CNC"].qty \in Int
    <3>1. positions["CNC"].qty \in Int
      BY <1>6 DEF Product
    <3>2. Unsold(orders) \in Int
      BY UnsoldIsInt DEF IInv, TypeOK
    <3> QED BY <3>1, <3>2
  <2>2. CASE pr = "CNC" /\ orders[o].side = -1
    <3>1. Selling(orders[o]) = Left(orders[o])
      BY <2>2 DEF Selling, SELL
    <3>2. Selling(x) = Left(orders[o]) - q
      BY <2>2, <1>3, <1>4, <1>11 DEF Selling, SELL, Working
    <3>3. positions'["CNC"].qty = positions["CNC"].qty - q
      BY <2>2, <1>4, <1>6
    <3> QED BY <2>1, <3>1, <3>2, <3>3, <1>4, <1>9 DEF Endowed
  <2>3. CASE pr = "CNC" /\ orders[o].side = 1
    <3>1. Selling(orders[o]) = 0 /\ Selling(x) = 0
      BY <2>3, <1>3 DEF Selling, SELL
    <3>2. positions'["CNC"].qty = positions["CNC"].qty + q
      BY <2>3, <1>4, <1>6
    <3> QED BY <2>1, <3>1, <3>2, <1>4, <1>9 DEF Endowed
  <2>4. CASE pr # "CNC"
    <3>1. Selling(orders[o]) = 0 /\ Selling(x) = 0
      BY <2>4, <1>3 DEF Selling
    <3>2. positions'["CNC"] = positions["CNC"]
      BY <2>4, <1>6 DEF Product
    <3> QED BY <2>1, <3>1, <3>2, <1>9 DEF Endowed
  <2> QED BY <1>4, <2>2, <2>3, <2>4
<1> QED BY <1>12, <1>13

\* Every step keeps the books in agreement, and the delivery sells covered.
LEMMA BooksStep ==
  ASSUME IInv, IInv', [Next]_vars, ~Torn, Books(orders, fills, positions)
  PROVE  /\ Books(orders', fills', positions')
         /\ Delivered /\ Endowed(orders, positions) => Endowed(orders', positions')
<1>1. /\ issued \in Nat /\ DOMAIN orders \subseteq 1..issued
      /\ \A o \in DOMAIN orders : WellFormed(orders[o])
      /\ \A o \in DOMAIN orders' : WellFormed(orders'[o])
      /\ fills \in Seq(FillType) /\ \A p \in Product : positions[p].qty \in Int
  BY DEF IInv, TypeOK, PositionType
<1>2. CASE /\ DOMAIN orders' = DOMAIN orders
           /\ \A o \in DOMAIN orders : SameDeal(orders'[o], orders[o])
           /\ UNCHANGED <<fills, cash, positions>>
  <2>1. Unsold(orders') <= Unsold(orders) /\ \A p : Net(orders', p) = Net(orders, p)
    BY <1>1, <1>2, SameDealsSum
  <2>2. Unsold(orders) \in Int /\ Unsold(orders') \in Int
    BY <1>1, <1>2, UnsoldIsInt
  <2>3. Books(orders', fills', positions')
    BY <1>2, <2>1 DEF Books, SameDeal
  <2>4. Endowed(orders, positions) => Endowed(orders', positions')
    <3>1. "CNC" \in Product
      BY DEF Product
    <3> QED BY <1>1, <1>2, <2>1, <2>2, <3>1 DEF Endowed
  <2> QED BY <2>3, <2>4
<1>3. ASSUME NEW x, WellFormed(x), x.filled = 0, Delivered => CoveredSell(x),
             orders' = With(orders, issued + 1, x), UNCHANGED <<fills, cash, positions>>
      PROVE  /\ Books(orders', fills', positions')
             /\ Delivered /\ Endowed(orders, positions) => Endowed(orders', positions')
  <2> DEFINE o == issued + 1
  <2>1. o \notin DOMAIN orders
    BY <1>1
  <2>2. /\ Unsold(orders') = Unsold(orders) + Selling(x)
        /\ \A p : Net(orders', p) = Net(orders, p) + Makes(x, p)
    <3> HIDE DEF o
    <3> QED BY <1>1, <1>3, <2>1, OneOrderMore DEF o
  <2>3. /\ DOMAIN orders' = DOMAIN orders \cup {o} /\ orders'[o] = x
        /\ \A y \in DOMAIN orders : orders'[y] = orders[y]
    BY <1>3, <2>1 DEF With
  <2> HIDE DEF o
  <2>4. \A p : Makes(x, p) = 0
    BY <1>3 DEF Makes, WellFormed, OrderType, BUY, SELL
  <2>5. Executed(fills, o) = 0
    BY <1>1, <2>1, NotExecuted DEF Books
  <2>6. Books(orders', fills', positions')
    <3>1. \A p \in Product : Net(orders', p) = positions'[p].qty
      BY <1>1, <1>3, <2>2, <2>4 DEF Books
    <3> QED BY <1>3, <2>3, <2>5, <3>1 DEF Books
  <2>7. Delivered /\ Endowed(orders, positions) => Endowed(orders', positions')
    <3>1. OpenSells = Unsold(orders) /\ "CNC" \in Product /\ Unsold(orders) \in Int
      <4>1. Unsold(orders) \in Int
        BY <1>1, UnsoldIsInt
      <4> QED BY <4>1, SumsOf DEF Product
    <3>2. Selling(x) \in Int
      BY <1>3 DEF Selling, Left, WellFormed, OrderType
    <3> QED BY <1>1, <1>3, <2>2, <3>1, <3>2 DEF Endowed, CoveredSell
  <2> QED BY <2>6, <2>7
<1>4. CASE \E o \in DOMAIN orders, p \in Prices : \E q \in 1..Left(orders[o]) :
              orders[o].status \in Working /\ Affordable(orders[o], q, p) /\ Fill(o, q, p)
  BY <1>4, FillBooks
<1>5. CASE /\ orders' = NewAccount.orders /\ fills' = NewAccount.fills
           /\ cash' = NewAccount.cash /\ positions' = NewAccount.positions
  <2>1. DOMAIN orders' = {} /\ fills' = <<>> /\ \A p \in Product : positions'[p].qty = 0
    BY <1>5, NewAccountTyped DEF Flat
  <2>2. \A p : Net(orders', p) = 0
    BY <2>1, SumOfNone DEF Net
  <2>3. Unsold(orders') = 0
    BY <2>1, SumOfNone DEF Unsold
  <2> QED BY <2>1, <2>2, <2>3 DEF Books, Endowed, Product
<1> QED BY <1>2, <1>3, <1>4, <1>5, AccountMoves

\* At first there are no books to disagree.
LEMMA BooksInit == ASSUME Init PROVE Books(orders, fills, positions) /\ Endowed(orders, positions)
<1>1. DOMAIN orders = {} /\ fills = <<>> /\ \A p \in Product : positions[p].qty = 0
  BY NewAccountTyped DEF Init, Flat
<1>2. \A p : Net(orders, p) = 0
  BY <1>1, SumOfNone DEF Net
<1>3. Unsold(orders) = 0
  BY <1>1, SumOfNone DEF Unsold
<1> QED BY <1>1, <1>2, <1>3 DEF Books, Endowed, Product

\* Where the process stops between calls only, the three books of the account agree: the
\* fills of an order add up to what it says is filled, no fill is of an unknown order,
\* and the orders of a product add up to its position (paper.py: _fill; paper_store.py).
THEOREM BooksStayAgreed ==
  ASSUME ~Torn
  PROVE  Spec => []BooksAgree
<1>1. Init => Books(orders, fills, positions)
  BY BooksInit
<1>2. IInv /\ IInv' /\ Books(orders, fills, positions) /\ [Next]_vars
        => Books(orders, fills, positions)'
  <2> SUFFICES ASSUME IInv, IInv', Books(orders, fills, positions), [Next]_vars
               PROVE  Books(orders', fills', positions')
    BY DEF Books, Executed, Net
  <2> QED BY BooksStep
<1>3. IInv /\ Books(orders, fills, positions) => BooksAgree
  BY SumsOf DEF Books, BooksAgree
<1> QED BY <1>1, <1>2, <1>3, AlwaysIInv, PTL DEF Spec

\* Where, besides, orders come after a price and only intraday positions are liquidated,
\* delivery shares are never sold short: what the working sells have left, the cover
\* _validate counts, never exceeds the holdings (paper.py: _validate, _fill).
THEOREM DeliveryIsCovered ==
  ASSUME Delivered
  PROVE  Spec => []NoShortHoldings
<1>1. Init => Books(orders, fills, positions) /\ Endowed(orders, positions)
  BY BooksInit
<1>2. IInv /\ IInv' /\ Books(orders, fills, positions) /\ Endowed(orders, positions) /\ [Next]_vars
        => Books(orders, fills, positions)' /\ Endowed(orders, positions)'
  <2> SUFFICES ASSUME IInv, IInv', Books(orders, fills, positions), Endowed(orders, positions),
                      [Next]_vars
               PROVE  Books(orders', fills', positions') /\ Endowed(orders', positions')
    BY DEF Books, Executed, Net, Endowed, Unsold
  <2> QED BY BooksStep DEF Delivered
<1>3. IInv /\ Endowed(orders, positions) => NoShortHoldings
  <2> SUFFICES ASSUME IInv, Endowed(orders, positions) PROVE NoShortHoldings
    OBVIOUS
  <2>1. /\ issued \in Nat /\ DOMAIN orders \subseteq 1..issued
        /\ \A o \in DOMAIN orders : WellFormed(orders[o])
    BY DEF IInv, TypeOK
  <2>2. positions["CNC"].qty \in Int
    BY DEF IInv, TypeOK, Product, PositionType
  <2> DEFINE g == [o \in DOMAIN orders |-> Selling(orders[o])]
             S == DOMAIN orders
  <2>3. IsFiniteSet(S) /\ IntOn(g, S) /\ \A o \in S : g[o] >= 0
    BY <2>1, OrdersCount DEF IntOn
  <2> HIDE DEF g, S
  <2>4. 0 <= SumFunctionOnSet(g, S) /\ SumFunctionOnSet(g, S) \in Int
    BY <2>3, SumOfPart, SumIsInt
  <2>5. 0 <= Unsold(orders) /\ Unsold(orders) \in Int
    BY <2>4 DEF g, S, Unsold
  <2> QED BY <2>2, <2>5 DEF Endowed, NoShortHoldings
<1> QED BY <1>1, <1>2, <1>3, AlwaysIInv, PTL DEF Spec, Delivered
-----------------------------------------------------------------------------
(* The profit.                                                             *)

\* What a position gained: its realised profit less the cost of what it holds.
Gain(pos) == Plus(pos.realised, Times(-pos.qty, pos.avg))
Gains(q) == Plus(Gain(q["CNC"]), Gain(q["MIS"]))
Profit(q, c) == Same(Gains(q), Whole(c - Start + q["CNC"].fees + q["MIS"].fees))

\* The components of a gain.
LEMMA GainParts ==
  ASSUME NEW pos, NEW n \in Int, NEW a \in Int, NEW b \in Int, NEW r \in Int, NEW s \in Int,
         pos.qty = n, pos.avg = <<a, b>>, pos.realised = <<r, s>>
  PROVE  Gain(pos) = <<r * b + (-n * a) * s, s * b>>
  BY DEF Gain, Plus, Times

\* The gain of a position that is opened or grows: r/s realised, n at a/b, t more at p.
LEMMA GainOfOpening ==
  ASSUME NEW r \in Int, NEW s \in Int, NEW a \in Int, NEW b \in Int, NEW n \in Int,
         NEW t \in Int, NEW p \in Int, NEW m \in Int
  PROVE  (r * (b * m) + (-m * (n * a + p * t * b)) * s) * (s * b)
           = ((r * b + (-n * a) * s) + (-t * p) * (s * b)) * (s * (b * m))
  OBVIOUS

\* The gain of a position of which c are closed at p, by a fill of t that leaves n + t at
\* d/e: one of them is flat, or all were closed and the rest is at p, or t closes -t.
LEMMA GainOfClosing ==
  ASSUME NEW r \in Int, NEW s \in Int, NEW a \in Int, NEW b \in Int, NEW n \in Int,
         NEW t \in Int, NEW p \in Int, NEW c \in Int, NEW d \in Int, NEW e \in Int,
         \/ c = n /\ n + t = 0 /\ d = 0 /\ e = 1
         \/ c = n /\ d = p /\ e = 1
         \/ c = -t /\ d = a /\ e = b
  PROVE  ((r * b + (c * (p * b + -a)) * s) * e + (-(n + t) * d) * (s * b)) * (s * b)
           = ((r * b + (-n * a) * s) + (-t * p) * (s * b)) * ((s * b) * e)
<1>1. CASE c = n /\ n + t = 0 /\ d = 0 /\ e = 1
  <2>1. c = n /\ t = -n /\ d = 0 /\ e = 1
    BY <1>1
  <2>2. ((r * b + (n * (p * b + -a)) * s) * 1 + (-(n + -n) * 0) * (s * b)) * (s * b)
           = ((r * b + (-n * a) * s) + (-(-n) * p) * (s * b)) * ((s * b) * 1)
    OBVIOUS
  <2> QED BY <2>1, <2>2
<1>2. CASE c = n /\ d = p /\ e = 1
  <2>1. ((r * b + (n * (p * b + -a)) * s) * 1 + (-(n + t) * p) * (s * b)) * (s * b)
           = ((r * b + (-n * a) * s) + (-t * p) * (s * b)) * ((s * b) * 1)
    OBVIOUS
  <2> QED BY <1>2, <2>1
<1>3. CASE c = -t /\ d = a /\ e = b
  <2>1. ((r * b + (-t * (p * b + -a)) * s) * b + (-(n + t) * a) * (s * b)) * (s * b)
           = ((r * b + (-n * a) * s) + (-t * p) * (s * b)) * ((s * b) * b)
    OBVIOUS
  <2> QED BY <1>3, <2>1
<1> QED BY <1>1, <1>2, <1>3

\* A fill of t at price p moves the gain of its position by what it moves in cash.
LEMMA GainMoves ==
  ASSUME NEW pos \in PositionType, NEW t \in Int, t # 0, NEW p \in Prices
  PROVE  Same(Gain(Applied(pos, t, p)), Plus(Gain(pos), Whole(-t * p)))
<1>1. PICK n \in Int, a \in Int, b \in Nat \ {0}, r \in Int, s \in Nat \ {0} :
        pos.qty = n /\ pos.avg = <<a, b>> /\ pos.realised = <<r, s>>
  BY DEF PositionType, Fraction
<1>2. p \in Int
  BY AccountAssumption
<1>3. Gain(pos) = <<r * b + (-n * a) * s, s * b>>
  BY <1>1, GainParts
<1>4. Plus(Gain(pos), Whole(-t * p))
        = <<(r * b + (-n * a) * s) + (-t * p) * (s * b), s * b>>
  <2>1. PICK k \in Int : k = r * b + (-n * a) * s
    BY <1>1
  <2>2. PICK l \in Int : l = s * b
    BY <1>1
  <2>3. PICK w \in Int : w = -t * p
    BY <1>2
  <2>4. k * 1 + w * l = k + w * l /\ l * 1 = l
    OBVIOUS
  <2> QED BY <1>3, <2>1, <2>2, <2>3, <2>4 DEF Plus, Whole
<1> DEFINE new == n + t
           opening == n = 0 \/ (n > 0) = (t > 0)
           flipped == new # 0 /\ (new > 0) # (n > 0)
           closed == Min({Magnitude(n), Magnitude(t)}) * (IF n > 0 THEN 1 ELSE -1)
           next == Applied(pos, t, p)
<1>5. CASE opening
  <2>1. PICK m \in Int : m = Magnitude(n + t)
    BY DEF Magnitude
  <2>2. /\ next.qty = n + t /\ next.realised = <<r, s>>
        /\ next.avg = Over(Plus(Times(Magnitude(n), <<a, b>>), Whole(p * Magnitude(t))), m)
    BY <1>1, <1>5, <2>1 DEF Applied
  <2>3. Plus(Times(Magnitude(n), <<a, b>>), Whole(p * Magnitude(t)))
          = <<Magnitude(n) * a + (p * Magnitude(t)) * b, b>>
    <3>1. PICK h \in Int : h = Magnitude(n) * a
      BY DEF Magnitude
    <3>2. PICK k \in Int : k = p * Magnitude(t)
      BY <1>2 DEF Magnitude
    <3>3. h * 1 + k * b = h + k * b /\ b * 1 = b
      OBVIOUS
    <3> QED BY <3>1, <3>2, <3>3 DEF Plus, Times, Whole
  <2>4. PICK k \in Int : k = Magnitude(n) * a + (p * Magnitude(t)) * b
    BY <1>2 DEF Magnitude
  <2>5. next.avg = <<k, b * m>>
    BY <2>2, <2>3, <2>4 DEF Over
  <2>6. PICK bm \in Int : bm = b * m
    OBVIOUS
  <2>7. Gain(next) = <<r * bm + (-(n + t) * k) * s, s * bm>>
    <3>1. PICK l \in Int : l = n + t
      OBVIOUS
    <3>2. next.qty = l /\ next.realised = <<r, s>> /\ next.avg = <<k, bm>>
      BY <2>2, <2>5, <2>6, <3>1
    <3> HIDE DEF next
    <3>3. Gain(next) = <<r * bm + (-l * k) * s, s * bm>>
      BY <3>2 DEF Gain, Plus, Times
    <3> QED BY <3>1, <3>3
  <2>8. -(n + t) * k = -m * (n * a + p * t * b)
    <3>1. CASE n >= 0 /\ t > 0
      <4>1. Magnitude(n) = n /\ Magnitude(t) = t /\ m = n + t
        BY <2>1, <3>1 DEF Magnitude
      <4>2. k = n * a + (p * t) * b
        BY <2>4, <4>1
      <4> QED BY <4>1, <4>2
    <3>2. CASE n <= 0 /\ t < 0
      <4>1. Magnitude(n) = -n /\ Magnitude(t) = -t /\ m = -(n + t)
        BY <2>1, <3>2 DEF Magnitude
      <4>2. k = (-n) * a + (p * (-t)) * b
        BY <2>4, <4>1
      <4>3. -(n + t) * ((-n) * a + (p * (-t)) * b) = -(-(n + t)) * (n * a + p * t * b)
        BY <1>2
      <4> QED BY <4>1, <4>2, <4>3
    <3> QED BY <1>5, <3>1, <3>2
  <2>9. Gain(next) = <<r * (b * m) + (-m * (n * a + p * t * b)) * s, s * (b * m)>>
    BY <2>6, <2>7, <2>8
  <2>10. (r * (b * m) + (-m * (n * a + p * t * b)) * s) * (s * b)
           = ((r * b + (-n * a) * s) + (-t * p) * (s * b)) * (s * (b * m))
    BY <1>2, GainOfOpening
  <2> HIDE DEF next
  <2> QED BY <1>4, <2>9, <2>10 DEF Same, next
<1>6. CASE ~opening
  <2>1. PICK c \in Int : c = closed
    BY MinOf DEF Magnitude
  <2>2. PICK d \in Int, e \in Int :
          /\ <<d, e>> = IF new = 0 THEN <<0, 1>> ELSE IF flipped THEN <<p, 1>> ELSE <<a, b>>
    BY <1>2
  <2>3. /\ next.qty = n + t /\ next.avg = <<d, e>>
        /\ next.realised = Plus(<<r, s>>, Times(c, Plus(Whole(p), Times(-1, <<a, b>>))))
    BY <1>1, <1>6, <2>1, <2>2 DEF Applied, Whole
  <2>4. \/ c = n /\ n + t = 0 /\ d = 0 /\ e = 1
        \/ c = n /\ d = p /\ e = 1
        \/ c = -t /\ d = a /\ e = b
    <3>1. Min({Magnitude(n), Magnitude(t)})
            = IF Magnitude(n) <= Magnitude(t) THEN Magnitude(n) ELSE Magnitude(t)
      BY MinOf DEF Magnitude
    <3>2. CASE n > 0 /\ t < 0
      <4>1. c = IF n <= -t THEN n ELSE -t
        BY <2>1, <3>1, <3>2 DEF Magnitude
      <4> QED BY <2>2, <3>2, <4>1
    <3>3. CASE n < 0 /\ t > 0
      <4>1. c = IF -n <= t THEN n ELSE -t
        BY <2>1, <3>1, <3>3 DEF Magnitude
      <4> QED BY <2>2, <3>3, <4>1
    <3> QED BY <1>6, <3>2, <3>3
  <2>5. Times(c, Plus(Whole(p), Times(-1, <<a, b>>))) = <<c * (p * b + -a), b>>
    <3>1. (-1 * a) * 1 = -a /\ 1 * b = b
      OBVIOUS
    <3> QED BY <3>1 DEF Times, Plus, Whole
  <2>6. PICK f \in Int : f = c * (p * b + -a)
    BY <1>2
  <2>7. PICK g \in Int : g = r * b + f * s
    OBVIOUS
  <2>8. PICK h \in Int : h = s * b
    OBVIOUS
  <2>9. next.realised = <<g, h>>
    BY <2>3, <2>5, <2>6, <2>7, <2>8 DEF Plus
  <2>10. Gain(next) = <<g * e + (-(n + t) * d) * h, h * e>>
    <3>1. PICK l \in Int : l = n + t
      OBVIOUS
    <3>2. next.qty = l /\ next.avg = <<d, e>>
      BY <2>3, <3>1
    <3> HIDE DEF next
    <3>3. Gain(next) = <<g * e + (-l * d) * h, h * e>>
      BY <2>9, <3>2 DEF Gain, Plus, Times
    <3> QED BY <3>1, <3>3
  <2>11. (g * e + (-(n + t) * d) * h) * (s * b)
           = ((r * b + (-n * a) * s) + (-t * p) * (s * b)) * (h * e)
    BY <1>2, <2>4, <2>6, <2>7, <2>8, GainOfClosing
  <2> HIDE DEF next
  <2> QED BY <1>4, <2>10, <2>11 DEF Same, next
<1> QED BY <1>5, <1>6

\* Where two fractions add up to a whole number, and one moves by a whole number, so does
\* the sum.
LEMMA SumMoves ==
  ASSUME NEW a \in Fraction, NEW c \in Fraction, NEW b \in Fraction, NEW w \in Int, NEW k \in Int,
         Same(c, Plus(a, Whole(w))), Same(Plus(a, b), Whole(k))
  PROVE  Same(Plus(c, b), Whole(k + w)) /\ Same(Plus(b, c), Whole(k + w))
<1>1. PICK x \in Int, y \in Nat \ {0} : a = <<x, y>>
  BY DEF Fraction
<1>2. PICK x1 \in Int, y1 \in Nat \ {0} : c = <<x1, y1>>
  BY DEF Fraction
<1>3. PICK u \in Int, v \in Nat \ {0} : b = <<u, v>>
  BY DEF Fraction
<1>4. x1 * y = (x + w * y) * y1
  BY <1>1, <1>2 DEF Same, Plus, Whole
<1>5. x * v + u * y = k * (y * v)
  BY <1>1, <1>3 DEF Same, Plus, Whole
<1>6. x1 * v + u * y1 = (k + w) * (y1 * v)
  <2>1. y * (x1 * v + u * y1) = (x1 * y) * v + (u * y) * y1
    OBVIOUS
  <2>2. (x1 * y) * v + (u * y) * y1 = ((x + w * y) * y1) * v + (u * y) * y1
    BY <1>4
  <2>3. ((x + w * y) * y1) * v + (u * y) * y1 = (x * v + u * y) * y1 + w * (y * y1 * v)
    OBVIOUS
  <2>4. (x * v + u * y) * y1 + w * (y * y1 * v) = (k * (y * v)) * y1 + w * (y * y1 * v)
    BY <1>5
  <2>5. (k * (y * v)) * y1 + w * (y * y1 * v) = y * ((k + w) * (y1 * v))
    OBVIOUS
  <2>6. y * (x1 * v + u * y1) = y * ((k + w) * (y1 * v))
    BY <2>1, <2>2, <2>3, <2>4, <2>5
  <2>7. PICK l \in Int, r \in Int : l = x1 * v + u * y1 /\ r = (k + w) * (y1 * v)
    OBVIOUS
  <2>8. y * l = y * r
    BY <2>6, <2>7
  <2>9. l = r
    BY <2>8
  <2> QED BY <2>7, <2>9
<1>7. Plus(c, b) = <<x1 * v + u * y1, y1 * v>> /\ Plus(b, c) = <<x1 * v + u * y1, y1 * v>>
  <2>1. u * y1 + x1 * v = x1 * v + u * y1 /\ v * y1 = y1 * v
    OBVIOUS
  <2> QED BY <1>2, <1>3, <2>1 DEF Plus
<1>8. Whole(k + w) = <<k + w, 1>>
  BY DEF Whole
<1>9. (x1 * v + u * y1) * 1 = (k + w) * (y1 * v)
  BY <1>6
<1> QED BY <1>7, <1>8, <1>9 DEF Same

\* The gain of a position is a fraction.
LEMMA GainTyped ==
  ASSUME NEW pos \in PositionType
  PROVE  Gain(pos) \in Fraction
<1>1. pos.avg \in Fraction /\ pos.realised \in Fraction /\ -pos.qty \in Int
  BY DEF PositionType
<1> QED BY <1>1, Fractions DEF Gain

\* Fractions are added in any order.
LEMMA PlusCommutes ==
  ASSUME NEW a \in Fraction, NEW b \in Fraction
  PROVE  Plus(a, b) = Plus(b, a)
<1>1. a[1] \in Int /\ a[2] \in Int /\ b[1] \in Int /\ b[2] \in Int
  BY DEF Fraction
<1> QED BY <1>1 DEF Plus

\* A fill keeps the profit of the positions the profit of the cash.
LEMMA FillProfit ==
  ASSUME IInv, IInv', NEW o \in DOMAIN orders, NEW p \in Prices, NEW q \in 1..Left(orders[o]),
         Affordable(orders[o], q, p), orders[o].status \in Working, Fill(o, q, p),
         Profit(positions, cash)
  PROVE  Profit(positions', cash')
<1>1. WellFormed(orders[o]) /\ orders[o] \in OrderType
  BY DEF IInv, TypeOK, WellFormed
<1>2. PICK pr \in Product, t \in Int : pr = orders[o].product /\ t = orders[o].side * q /\ t # 0
  <2>1. /\ orders[o].product \in Product /\ orders[o].side \in {1, -1} /\ Left(orders[o]) \in Nat
    BY <1>1 DEF WellFormed, OrderType, Left, BUY, SELL
  <2>2. orders[o].side * q \in Int /\ orders[o].side * q # 0
    BY <2>1
  <2> QED BY <2>1, <2>2
<1>3. q \in Int /\ p \in Int /\ cash \in Int /\ Start \in Int /\ Fee \in Int
  BY <1>1, AccountAssumption DEF IInv, TypeOK, Left, WellFormed, OrderType
<1>4. positions' = [positions EXCEPT ![pr] = Applied(positions[pr], t, p)]
  BY <1>2 DEF Fill
<1>5. cash' = cash - t * p - Fee
  BY <1>2 DEF Fill
<1>6. PICK w \in Int : w = -t * p
  BY <1>3
<1>7. cash' = cash + w - Fee
  BY <1>3, <1>5, <1>6
<1>8. positions \in [Product -> PositionType] /\ "CNC" \in Product /\ "MIS" \in Product
      /\ Product = {"CNC", "MIS"}
  BY DEF IInv, TypeOK, Product
<1>9. /\ positions'[pr] = Applied(positions[pr], t, p)
      /\ \A y \in Product : y # pr => positions'[y] = positions[y]
  BY <1>4, <1>8
<1>10. positions'[pr] \in PositionType
  BY <1>2, <1>8, <1>9, AppliedTyped
<1>11. positions'[pr].fees = positions[pr].fees + Fee
  BY <1>9 DEF Applied
<1>12. \A y \in Product : positions[y].fees \in Int
  BY <1>8 DEF PositionType
<1>13. Same(Gain(positions'[pr]), Plus(Gain(positions[pr]), Whole(w)))
  BY <1>2, <1>6, <1>8, <1>9, GainMoves
<1>14. PICK k \in Int : k = cash - Start + positions["CNC"].fees + positions["MIS"].fees
  BY <1>3, <1>8, <1>12
<1>15. cash' - Start + positions'["CNC"].fees + positions'["MIS"].fees = k + w
  <2>1. CASE pr = "CNC"
    BY <2>1, <1>3, <1>7, <1>8, <1>9, <1>11, <1>12, <1>14
  <2>2. CASE pr = "MIS"
    BY <2>2, <1>3, <1>7, <1>8, <1>9, <1>11, <1>12, <1>14
  <2> QED BY <1>8, <2>1, <2>2
<1>16. Same(Gains(positions), Whole(k))
  BY <1>14 DEF Profit
<1>17. Same(Gains(positions'), Whole(k + w))
  <2>1. \A y \in Product : Gain(positions[y]) \in Fraction
    BY <1>8, GainTyped
  <2>2. Gain(positions'[pr]) \in Fraction
    BY <1>10, GainTyped
  <2>3. CASE pr = "CNC"
    <3>1. Gain(positions'["MIS"]) = Gain(positions["MIS"])
      BY <2>3, <1>8, <1>9
    <3>2. Same(Plus(Gain(positions["CNC"]), Gain(positions["MIS"])), Whole(k))
      BY <1>16 DEF Gains
    <3>3. Same(Plus(Gain(positions'["CNC"]), Gain(positions["MIS"])), Whole(k + w))
      BY <1>8, <1>13, <2>1, <2>2, <2>3, <3>2, SumMoves
    <3> QED BY <3>1, <3>3 DEF Gains
  <2>4. CASE pr = "MIS"
    <3>1. Gain(positions'["CNC"]) = Gain(positions["CNC"])
      BY <2>4, <1>8, <1>9
    <3>2. Same(Plus(Gain(positions["MIS"]), Gain(positions["CNC"])), Whole(k))
      BY <1>8, <1>16, <2>1, PlusCommutes DEF Gains
    <3>3. Same(Plus(Gain(positions["CNC"]), Gain(positions'["MIS"])), Whole(k + w))
      BY <1>8, <1>13, <2>1, <2>2, <2>4, <3>2, SumMoves
    <3> QED BY <3>1, <3>3 DEF Gains
  <2> QED BY <1>8, <2>3, <2>4
<1> QED BY <1>15, <1>17 DEF Profit

\* Where the process stops between calls only, what the positions gained is what the cash
\* gained, fees aside, however they were averaged, reduced or flipped
\* (paper.py: apply_fill_to_position, _fill).
THEOREM ProfitAgrees ==
  ASSUME ~Torn
  PROVE  Spec => []PnLAgrees
<1>1. \A q : /\ q["CNC"] = Flat /\ q["MIS"] = Flat => Profit(q, Start)
  <2>1. Start \in Int
    BY AccountAssumption
  <2>2. Gain(Flat) = <<0, 1>>
    BY GainParts DEF Flat, Whole
  <2>3. Plus(<<0, 1>>, <<0, 1>>) = <<0, 1>> /\ Start - Start + 0 + 0 = 0
    BY <2>1 DEF Plus
  <2>4. Same(<<0, 1>>, Whole(0)) /\ Flat.fees = 0
    BY DEF Same, Whole, Flat
  <2> QED BY <2>2, <2>3, <2>4 DEF Profit, Gains
<1>2. Init => Profit(positions, cash)
  BY <1>1 DEF Init, NewAccount, Product
<1>3. IInv /\ IInv' /\ Profit(positions, cash) /\ [Next]_vars => Profit(positions, cash)'
  <2> SUFFICES ASSUME IInv, IInv', Profit(positions, cash), [Next]_vars
               PROVE  Profit(positions', cash')
    BY DEF Profit, Gains, Gain
  <2>1. CASE UNCHANGED <<cash, positions>>
    BY <2>1
  <2>2. CASE \E o \in DOMAIN orders, p \in Prices : \E q \in 1..Left(orders[o]) :
               orders[o].status \in Working /\ Affordable(orders[o], q, p) /\ Fill(o, q, p)
    BY <2>2, FillProfit
  <2>3. CASE cash' = NewAccount.cash /\ positions' = NewAccount.positions
    BY <2>3, <1>1 DEF NewAccount, Product
  <2> QED BY <2>1, <2>2, <2>3, AccountMoves
<1>4. Profit(positions, cash) => PnLAgrees
  BY DEF Profit, Gains, Gain, PnLAgrees
<1> QED BY <1>1, <1>2, <1>3, <1>4, AlwaysIInv, PTL DEF Spec
=============================================================================
