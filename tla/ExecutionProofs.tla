--------------------------- MODULE ExecutionProofs ---------------------------
(***************************************************************************)
(* Proofs about Execution: its type invariant, the uniqueness of slices,   *)
(* the implementation of the approval gate, that a halt stops child orders *)
(* when handlers are atomic; then that closed orders are forgotten and     *)
(* open ones never, that every fill arrives, that children stay within     *)
(* what was approved, go out one at a time, and when a plan may stall.     *)
(***************************************************************************)
EXTENDS Execution, TLAPS, SequenceTheorems, SumTheorems

-----------------------------------------------------------------------------
(* Frames and updates.                                                     *)

\* What the fields of a frame are, by the handler it continues.
LEMMA FrameFields ==
  ASSUME NEW S, NEW f \in Frame(S)
  PROVE  /\ f.op \in {"cancel", "manage", "oco"} => f.ids \subseteq S /\ f.exclude \in Nat
         /\ f.op = "progress" => f.id \in S /\ f.status \in Status /\ f.tagged \in BOOLEAN
         /\ f.op = "bracket" => f.id \in S /\ f.qty \in Nat
  BY DEF Frame

\* The frames the actions push.
LEMMA FramesMade ==
  ASSUME NEW S
  PROVE  /\ \A o \in S, s \in Status, b \in BOOLEAN : Progress(o, s, b) \in Frame(S)
         /\ \A op \in {"cancel", "manage", "oco"}, ids \in SUBSET S, e \in Nat :
              Loop(op, ids, e) \in Frame(S)
         /\ \A o \in S, q \in Nat : [op |-> "bracket", id |-> o, qty |-> q] \in Frame(S)
         /\ [op |-> "liquidate"] \in Frame(S)
  BY DEF Frame, Progress, Loop

\* The updates the broker emits are messages.
LEMMA MessagesMade ==
  ASSUME NEW S
  PROVE  /\ \A o \in S, q \in Nat, s \in {BUY, SELL} : FillOf(o, q, s) \in Message(S)
         /\ \A o \in S, s \in Status, b \in BOOLEAN : OrderOf(o, s, b) \in Message(S)
  BY DEF Message, FillOf, OrderOf

\* The fields of an update, by its kind.
LEMMA MessageFields ==
  ASSUME NEW S, NEW m \in Message(S)
  PROVE  /\ m.id \in S
         /\ m.type = "fill" => m.qty \in Nat /\ m.side \in {BUY, SELL}
         /\ m.type = "order" => m.status \in Status /\ m.tagged \in BOOLEAN
  BY DEF Message

\* One update is a queue.
LEMMA SingletonSeq ==
  ASSUME NEW S, NEW e \in S
  PROVE  <<e>> \in Seq(S)
  OBVIOUS

\* What was well formed stays so when the broker has more orders.
LEMMA Monotone ==
  ASSUME NEW S, NEW T, S \subseteq T
  PROVE  /\ Frame(S) \subseteq Frame(T)
         /\ Message(S) \subseteq Message(T)
         /\ Seq(Frame(S)) \subseteq Seq(Frame(T))
         /\ Seq(Message(S)) \subseteq Seq(Message(T))
<1>1. Frame(S) \subseteq Frame(T) /\ Message(S) \subseteq Message(T)
  BY DEF Frame, Message
<1> QED BY <1>1, SeqMonotonic
-----------------------------------------------------------------------------
(* Slicing: every slice of a plan has a positive quantity.                 *)

\* A quotient is a number, and its multiple is within the dividend.
LEMMA DivBound ==
  ASSUME NEW a \in Nat, NEW c \in Nat \ {0}
  PROVE  /\ a \div c \in Nat
         /\ c * (a \div c) <= a
  BY Z3

\* A quantity of at least a lot holds at least one lot.
LEMMA DivPositive ==
  ASSUME NEW a \in Nat, NEW c \in Nat \ {0}, a >= c
  PROVE  a \div c # 0
  BY Z3

\* Slices are counted by naturals and carry naturals.
LEMMA SliceFacts ==
  ASSUME NEW i \in Intent
  PROVE  /\ SliceCount(i) \in Nat \ {0}
         /\ \A k \in 1..SliceCount(i) : SliceQty(i, k) \in Nat
<1> DEFINE A == Approved[i]
           n == SliceCount(i)
<1>1. A \in Nat \ {0} /\ Cap \in Nat \ {0}
  BY ExecutionAssumption
<1>2. A + Cap - 1 \in Nat
  BY <1>1
<1>3. n \in Nat /\ Cap * n <= A + Cap - 1
  BY <1>1, <1>2, DivBound DEF SliceCount
<1>4. ASSUME NEW k \in 1..n
      PROVE  SliceQty(i, k) \in Nat
  <2>1. (n - k) * Cap \in Nat
    BY <1>1, <1>3, <1>4
  <2>2. n * Cap - k * Cap = (n - k) * Cap
    BY <1>1, <1>3, <1>4
  <2>3. (k - 1) * Cap = k * Cap - Cap /\ k * Cap \in Nat /\ n * Cap = Cap * n
    BY <1>1, <1>3, <1>4
  <2>4. (k - 1) * Cap < A
    BY <1>1, <1>3, <2>1, <2>2, <2>3
  <2> QED BY <1>1, <2>3, <2>4 DEF SliceQty
<1>5. n # 0
  <2>1. A + Cap - 1 >= Cap
    BY <1>1
  <2> QED BY <1>1, <1>2, <2>1, DivPositive DEF SliceCount
<1> QED BY <1>3, <1>4, <1>5
-----------------------------------------------------------------------------
(* Orders.                                                                 *)

\* after is the order before, possibly further filled or closed.
Kept(before, after) ==
  /\ after \in Order
  /\ after.kind = before.kind /\ after.intent = before.intent
  /\ after.slice = before.slice /\ after.side = before.side /\ after.qty = before.qty
  /\ before.filled <= after.filled /\ after.filled <= after.qty

\* A fill within what is left keeps what an order is.
LEMMA FilledKept ==
  ASSUME NEW before \in Order, before.filled <= before.qty,
         NEW q \in 0..(before.qty - before.filled)
  PROVE  Kept(before, Filled(before, q))
<1> DEFINE n == before.filled + q
           s == IF n = before.qty THEN "FILLED" ELSE "OPEN"
           after == [before EXCEPT !.filled = n, !.status = s]
<1>1. n \in Nat /\ before.filled <= n /\ n <= before.qty /\ s \in Status
  BY DEF Order, Status
<1>2. after = Filled(before, q)
  BY DEF Filled
<1> HIDE DEF n, s
<1>3. Kept(before, after)
  BY <1>1 DEF Kept, Order
<1> QED BY <1>2, <1>3

\* A change of status keeps what an order is.
LEMMA StatusKept ==
  ASSUME NEW before \in Order, before.filled <= before.qty, NEW s \in Status
  PROVE  Kept(before, [before EXCEPT !.status = s])
  BY DEF Kept, Order

\* _validate: a refused order keeps what it is.
LEMMA RefusedKept ==
  ASSUME NEW before \in Order, before.filled <= before.qty, NEW after \in Refused(before)
  PROVE  Kept(before, after)
  BY DEF Kept, Refused, Order, Status

\* Any set of quantities the order has left.
LEMMA FillsKept ==
  ASSUME NEW before \in Order, before.filled <= before.qty,
         NEW qs \in SUBSET (0..(before.qty - before.filled)), NEW after \in Fills(before, qs)
  PROVE  Kept(before, after)
<1>1. CASE after \in Refused(before)
  BY <1>1, RefusedKept
<1>2. CASE \E q \in qs : after = Filled(before, q)
  BY <1>2, FilledKept
<1> QED BY <1>1, <1>2 DEF Fills

\* modify_order and a match at placement keep what an order is.
LEMMA MatchedKept ==
  ASSUME NEW before \in Order, before.filled <= before.qty, NEW after \in Matched(before)
  PROVE  Kept(before, after)
<1>1. before.qty \in Nat /\ before.filled \in Nat
  BY DEF Order
<1>2. {before.qty - before.filled} \subseteq 0..(before.qty - before.filled)
  BY <1>1
<1>3. Kept(before, before)
  BY <1>1 DEF Kept
<1> QED BY <1>2, <1>3, FillsKept DEF Matched

\* place_order keeps what an order is.
LEMMA PlacedKept ==
  ASSUME NEW before \in Order, before.filled <= before.qty, NEW after \in Placed(before)
  PROVE  Kept(before, after)
  BY MatchedKept, RefusedKept DEF Placed

\* The updates an event emits are about its order.
LEMMA EmittedTyped ==
  ASSUME NEW S, NEW o \in S, NEW before \in Order, NEW after, Kept(before, after),
         NEW b \in BOOLEAN
  PROVE  Emitted(o, before, after, b) \in Seq(Message(S))
<1>1. after.filled - before.filled \in Nat /\ after.side \in {BUY, SELL} /\ after.status \in Status
  BY DEF Kept, Order
<1>2. /\ FillOf(o, after.filled - before.filled, after.side) \in Message(S)
      /\ OrderOf(o, after.status, b) \in Message(S)
  BY <1>1, MessagesMade
<1> QED BY <1>2 DEF Emitted

\* Position and fill count keep their types.
LEMMA BookTyped ==
  ASSUME pos \in Int, nfills \in Nat, NEW before \in Order, NEW after, Kept(before, after),
         Book(before, after)
  PROVE  pos' \in Int /\ nfills' \in Nat
<1>1. after.side \in Int /\ after.filled - before.filled \in Int
  BY DEF Kept, Order, BUY, SELL
<1> QED BY <1>1 DEF Book

\* The book only grows, and its orders are kept.
Grows ==
  /\ book' \in Seq(Order)
  /\ DOMAIN book \subseteq DOMAIN book'
  /\ \A o \in DOMAIN book : Kept(book[o], book'[o])

\* A step that leaves the book alone.
LEMMA SameGrows ==
  ASSUME book \in Seq(Order), FilledWithin, book' = book
  PROVE  Grows
<1>1. \A p \in DOMAIN book : book[p] \in Order /\ book[p].filled <= book[p].qty
  BY LenProperties, ElementOfSeq DEF FilledWithin
<1>2. ASSUME NEW p \in DOMAIN book PROVE Kept(book[p], book[p])
  BY <1>1, <1>2 DEF Kept, Order
<1> QED BY <1>2 DEF Grows

\* A step that replaces one order by a kept one.
LEMMA ReplaceGrows ==
  ASSUME book \in Seq(Order), FilledWithin, NEW o \in DOMAIN book, NEW after,
         Kept(book[o], after), book' = [book EXCEPT ![o] = after]
  PROVE  Grows /\ DOMAIN book' = DOMAIN book
<1>1. DOMAIN book = 1..Len(book) /\ \A p \in DOMAIN book : book[p] \in Order
  BY LenProperties, ElementOfSeq
<1>2. after \in Order
  BY DEF Kept
<1>3. /\ book' \in Seq(Order) /\ Len(book') = Len(book)
      /\ \A p \in DOMAIN book : book'[p] = IF p = o THEN after ELSE book[p]
  BY <1>1, <1>2, ExceptSeq
<1>4. DOMAIN book' = DOMAIN book
  BY <1>1, <1>3, LenProperties
<1>5. ASSUME NEW p \in DOMAIN book PROVE Kept(book[p], book[p])
  BY <1>1, <1>5 DEF Kept, Order, FilledWithin
<1> QED BY <1>3, <1>4, <1>5 DEF Grows

\* A step that appends an order.
LEMMA AppendGrows ==
  ASSUME book \in Seq(Order), FilledWithin, NEW after \in Order,
         book' = Append(book, after)
  PROVE  /\ Grows
         /\ DOMAIN book' = DOMAIN book \cup {Len(book) + 1}
         /\ Len(book) + 1 \notin DOMAIN book
         /\ book'[Len(book) + 1] = after
         /\ \A o \in DOMAIN book : book'[o] = book[o]
<1>1. DOMAIN book = 1..Len(book) /\ Len(book) \in Nat /\ \A p \in DOMAIN book : book[p] \in Order
  BY LenProperties, ElementOfSeq
<1>2. /\ book' \in Seq(Order) /\ Len(book') = Len(book) + 1
      /\ \A p \in DOMAIN book : book'[p] = book[p]
      /\ book'[Len(book) + 1] = after
  BY <1>1, AppendProperties
<1>3. DOMAIN book' = 1..(Len(book) + 1)
  BY <1>2, LenProperties
<1>4. ASSUME NEW p \in DOMAIN book PROVE Kept(book[p], book[p])
  BY <1>1, <1>4 DEF Kept, Order, FilledWithin
<1> QED BY <1>1, <1>2, <1>3, <1>4 DEF Grows
-----------------------------------------------------------------------------
(* Handlers.                                                               *)

StackIn(S) == [Task -> Seq(Frame(S))]

\* Taking up a task's frames keeps their type.
LEMMA ContinueTyped ==
  ASSUME NEW S, stack \in StackIn(S), NEW t \in Task, NEW frames \in Seq(Frame(S)),
         Continue(t, frames)
  PROVE  /\ stack' \in StackIn(S)
         /\ run' \in Task \cup {Idle}
         /\ pend' = pend
  BY DEF Continue, StackIn

\* An order that waits for the limiter is an order.
LEMMA AwaitTyped ==
  ASSUME NEW S, stack \in StackIn(S), pend \in [Task -> Order], NEW t \in Task,
         NEW frames \in Seq(Frame(S)), NEW order \in Order, Await(t, frames, order)
  PROVE  /\ stack' \in StackIn(S)
         /\ run' \in Task \cup {Idle}
         /\ pend' \in [Task -> Order]
  BY DEF Await, StackIn

\* A frame in front of what was left of a handler.
LEMMA PushTyped ==
  ASSUME NEW S, NEW f \in Frame(S), NEW rest \in Seq(Frame(S))
  PROVE  <<f>> \o rest \in Seq(Frame(S))
<1>1. <<f>> \in Seq(Frame(S))
  OBVIOUS
<1> QED BY <1>1, ConcatProperties

\* The handler a task is in.
LEMMA AtTyped ==
  ASSUME TypeOK, NEW t \in Task, NEW op, At(t, op)
  PROVE  /\ Head(stack[t]) \in Frame(DOMAIN book)
         /\ Tail(stack[t]) \in Seq(Frame(DOMAIN book))
         /\ Head(stack[t]).op = op
<1>1. stack[t] \in Seq(Frame(DOMAIN book)) /\ stack[t] # <<>>
  BY DEF TypeOK, At
<1> QED BY <1>1, HeadTailProperties DEF At

\* The orders the agent makes are orders.
LEMMA OrdersMade ==
  /\ NoOrder \in Order /\ NoOrder.filled = 0 /\ NoOrder.kind = "none"
  /\ \A i \in Intent : \A k \in 1..SliceCount(i) :
       Child(i, k) \in Order /\ Child(i, k).filled = 0
  /\ \A i \in Intent, q \in Nat : Stop(i, q) \in Order /\ Stop(i, q).filled = 0
  /\ \A p \in Int : Closing(p) \in Order /\ Closing(p).filled = 0
<1>1. NoOrder \in Order /\ NoOrder.filled = 0 /\ NoOrder.kind = "none"
  BY DEF NoOrder, Order, Status
<1>2. ASSUME NEW i \in Intent
      PROVE  Side[i] \in {BUY, SELL} /\ -Side[i] \in {BUY, SELL} /\ SliceCount(i) \in Nat
  BY ExecutionAssumption, SliceFacts DEF BUY, SELL
<1>3. ASSUME NEW i \in Intent, NEW k \in 1..SliceCount(i)
      PROVE  Child(i, k) \in Order /\ Child(i, k).filled = 0
  <2>1. k \in Nat /\ SliceQty(i, k) \in Nat
    BY <1>2, SliceFacts
  <2> QED BY <1>2, <2>1 DEF Child, Order, Status
<1>4. ASSUME NEW i \in Intent, NEW q \in Nat
      PROVE  Stop(i, q) \in Order /\ Stop(i, q).filled = 0
  BY <1>2 DEF Stop, Order, Status
<1>5. ASSUME NEW p \in Int
      PROVE  Closing(p) \in Order /\ Closing(p).filled = 0
  BY DEF Closing, Order, Status
<1> QED BY <1>1, <1>3, <1>4, <1>5

\* Cancelling an order, and what it leaves of every type.
LEMMA CancelThenTyped ==
  ASSUME TypeOK, FilledWithin, NEW t \in Task, NEW o \in DOMAIN book,
         NEW rest \in Seq(Frame(DOMAIN book)), CancelThen(t, o, rest)
  PROVE  /\ Grows /\ DOMAIN book' = DOMAIN book
         /\ queue' \in Seq(Message(DOMAIN book))
         /\ DOMAIN working' \subseteq DOMAIN book
         /\ \A x \in DOMAIN working' : working'[x] \in Nat
         /\ attributed' \subseteq DOMAIN book
         /\ stack' \in StackIn(DOMAIN book) /\ run' \in Task \cup {Idle} /\ pend' = pend
<1> DEFINE D == DOMAIN book
<1>1. book \in Seq(Order) /\ book[o] \in Order /\ book[o].filled <= book[o].qty
  BY ElementOfSeq, LenProperties DEF TypeOK, FilledWithin
<1>4. Grows /\ DOMAIN book' = D
  <2>1. CASE book[o].status = "OPEN"
    <3> DEFINE after == [book[o] EXCEPT !.status = "CANCELLED"]
    <3>1. Kept(book[o], after)
      BY <1>1, StatusKept DEF Status
    <3>2. book' = [book EXCEPT ![o] = after]
      BY <2>1 DEF CancelThen, CancelledAt
    <3> QED BY <1>1, <3>1, <3>2, ReplaceGrows
  <2>2. CASE book[o].status # "OPEN"
    BY <1>1, <2>2, SameGrows DEF CancelThen, CancelledAt
  <2> QED BY <2>1, <2>2
<1>5. CancelMsg(o) \in Seq(Message(D))
  <2> DEFINE m == OrderOf(o, "CANCELLED", TRUE)
  <2>1. m \in Message(D)
    BY MessagesMade DEF Status
  <2>2. CancelMsg(o) = <<m>> \/ CancelMsg(o) = <<>>
    BY DEF CancelMsg
  <2>3. <<m>> \in Seq(Message(D)) /\ <<>> \in Seq(Message(D))
    <3> HIDE DEF m, D
    <3> QED BY <2>1
  <2> QED BY <2>2, <2>3
<1>6. queue' \in Seq(Message(D))
  BY <1>5, ConcatProperties DEF CancelThen, TypeOK
<1>7. /\ DOMAIN working' \subseteq D
      /\ \A x \in DOMAIN working' : working'[x] \in Nat
  BY DEF CancelThen, Pop, TypeOK
<1>8. attributed' \subseteq D
  BY DEF CancelThen, TypeOK
<1>9. <<Progress(o, book'[o].status, TRUE)>> \o rest \in Seq(Frame(D))
  <2>1. book'[o] \in Order
    BY <1>4 DEF Grows, Kept
  <2>2. book'[o].status \in Status
    BY <2>1 DEF Order
  <2>3. Progress(o, book'[o].status, TRUE) \in Frame(D)
    BY <2>2, FramesMade
  <2> QED BY <2>3, PushTyped
<1>10. stack' \in StackIn(D) /\ run' \in Task \cup {Idle} /\ pend' = pend
  <2>1. stack \in StackIn(D)
    BY DEF TypeOK, StackIn
  <2> QED BY <1>9, <2>1, ContinueTyped DEF CancelThen
<1> QED BY <1>4, <1>6, <1>7, <1>8, <1>10
-----------------------------------------------------------------------------
(* Every action keeps the types.                                           *)

\* Types and filled quantities survive a step that keeps the book's orders.
LEMMA FilledStep ==
  ASSUME Grows, DOMAIN book' = DOMAIN book, \A t \in Task : pend'[t].filled = 0
  PROVE  FilledWithin'
  BY DEF Grows, Kept, FilledWithin

Typed == TypeOK /\ FilledWithin

\* _match_all of one order.
LEMMA MarketTyped ==
  ASSUME Typed, commands' \in Nat, NEW o \in DOMAIN book, Market(o)
  PROVE  Typed' /\ Grows
<1> DEFINE D == DOMAIN book
           left == book[o].qty - book[o].filled
           qs == IF Partial THEN 1..left ELSE {left}
<1>1. book \in Seq(Order) /\ book[o] \in Order /\ book[o].filled <= book[o].qty
  BY ElementOfSeq, LenProperties DEF Typed, TypeOK, FilledWithin
<1>2. qs \in SUBSET (0..left)
  BY <1>1 DEF Order
<1>3. PICK after \in Fills(book[o], qs) :
        /\ book' = [book EXCEPT ![o] = after]
        /\ Book(book[o], after)
        /\ queue' = queue \o Emitted(o, book[o], after, TRUE)
  BY DEF Market
<1>4. Kept(book[o], after)
  BY <1>1, <1>2, FillsKept
<1>5. Grows /\ DOMAIN book' = D
  BY <1>1, <1>3, <1>4, ReplaceGrows DEF Typed
<1>6. pos' \in Int /\ nfills' \in Nat
  BY <1>1, <1>3, <1>4, BookTyped DEF Typed, TypeOK
<1>7. queue' \in Seq(Message(D))
  <2>1. Emitted(o, book[o], after, TRUE) \in Seq(Message(D))
    BY <1>1, <1>4, EmittedTyped
  <2> QED BY <1>3, <2>1, ConcatProperties DEF Typed, TypeOK
<1>8. UNCHANGED <<agent, tasks>>
  BY DEF Market
<1>9. FilledWithin'
  BY <1>5, <1>8, FilledStep DEF tasks, Typed, FilledWithin
<1>10. TypeOK'
  BY <1>5, <1>6, <1>7, <1>8 DEF Typed, TypeOK, Grows, agent, tasks
<1> QED BY <1>5, <1>9, <1>10 DEF Typed

\* _on_approval: a new plan, or a refusal.
LEMMA ApprovalTyped ==
  ASSUME Typed, commands' \in Nat, NEW i \in Intent, Approval(i)
  PROVE  Typed' /\ Grows
<1>1. Child(i, 1) \in Order /\ Child(i, 1).filled = 0
  BY OrdersMade, SliceFacts
<1>2. /\ stack' \in StackIn(DOMAIN book) /\ run' \in Task \cup {Idle}
      /\ pend' \in [Task -> Order]
  BY <1>1, AwaitTyped, EmptySeq DEF Approval, Typed, TypeOK, StackIn, Task
<1>3. Grows
  BY SameGrows DEF Approval, broker, Typed, TypeOK
<1>4. FilledWithin'
  <2>1. \A t \in Task : pend'[t].filled = 0
    BY <1>1 DEF Approval, Await, Typed, TypeOK, FilledWithin, Task
  <2> QED BY <1>3, <2>1, FilledStep DEF Approval, broker
<1>5. TypeOK'
  BY <1>2 DEF Approval, broker, Typed, TypeOK, StackIn
<1> QED BY <1>3, <1>4, <1>5 DEF Typed

\* _place, where the broker raises.
LEMMA PlaceFailsTyped ==
  ASSUME Typed, commands' \in Nat, NEW t \in Task, PlaceFails(t)
  PROVE  Typed' /\ Grows
<1>1. Grows
  BY SameGrows DEF PlaceFails, broker, Typed, TypeOK
<1>2. FilledWithin'
  BY OrdersMade DEF PlaceFails, broker, Typed, TypeOK, FilledWithin
<1>3. TypeOK'
  BY OrdersMade DEF PlaceFails, broker, agent, Typed, TypeOK
<1> QED BY <1>1, <1>2, <1>3 DEF Typed

\* _place: a new order at the broker.
LEMMA PlaceTyped ==
  ASSUME Typed, commands' \in Nat, NEW t \in Task, Place(t)
  PROVE  Typed' /\ Grows
<1> DEFINE D == DOMAIN book
           o == Len(book) + 1
           before == pend[t]
<1>1. before \in Order /\ before.filled <= before.qty
  BY DEF Typed, TypeOK, FilledWithin, Order
<1>2. PICK after \in Placed(before) :
          /\ book' = Append(book, after)
          /\ Book(before, after)
          /\ queue' = queue \o Emitted(o, before, after, FALSE)
                            \o <<OrderOf(o, after.status, FALSE)>>
          /\ working' = IF Tracked(after) THEN Put(working, o, 0) ELSE working
          /\ attributed' = attributed \cup {o}
          /\ protective' = IF before.kind = "stop" THEN protective \cup {o} ELSE protective
          /\ stack' = [stack EXCEPT ![t] =
                         IF after.status = "FILLED"
                         THEN <<Progress(o, "FILLED", TRUE)>> \o @ ELSE @]
          /\ run' = IF stack'[t] = <<>> THEN Idle ELSE t
          /\ pend' = [pend EXCEPT ![t] = NoOrder]
  BY DEF Place
<1>3. Kept(before, after) /\ after \in Order /\ after.status \in Status
  BY <1>1, PlacedKept DEF Kept, Order
<1> DEFINE D2 == DOMAIN book'
<1>4. /\ Grows /\ D2 = D \cup {o} /\ book'[o] = after
      /\ \A x \in DOMAIN book : book'[x] = book[x]
  BY <1>2, <1>3, AppendGrows DEF Typed, TypeOK
<1>5. pos' \in Int /\ nfills' \in Nat
  BY <1>1, <1>2, <1>3, BookTyped DEF Typed, TypeOK
<1>6. queue' \in Seq(Message(D2))
  <2>1. Emitted(o, before, after, FALSE) \in Seq(Message(D2))
    BY <1>1, <1>3, <1>4, EmittedTyped
  <2>2. OrderOf(o, after.status, FALSE) \in Message(D2)
    BY <1>3, <1>4, MessagesMade
  <2>3. <<OrderOf(o, after.status, FALSE)>> \in Seq(Message(D2))
    BY <2>2, SingletonSeq
  <2>4. queue \in Seq(Message(D2))
    BY <1>4, Monotone DEF Typed, TypeOK
  <2> QED BY <1>2, <2>1, <2>3, <2>4, ConcatProperties
<1>7. /\ DOMAIN working' \subseteq D2
      /\ \A x \in DOMAIN working' : working'[x] \in Nat
  BY <1>2, <1>4 DEF Put, Typed, TypeOK
<1>8. attributed' \subseteq D2 /\ protective' \subseteq D2
  BY <1>2, <1>4 DEF Typed, TypeOK
<1>9. stack' \in StackIn(D2)
  <2>1. stack[t] \in Seq(Frame(D2)) /\ stack \in StackIn(D2)
    BY <1>4, Monotone DEF Typed, TypeOK, StackIn
  <2>2. <<Progress(o, "FILLED", TRUE)>> \o stack[t] \in Seq(Frame(D2))
    <3>1. Progress(o, "FILLED", TRUE) \in Frame(D2)
      BY <1>4, FramesMade DEF Status
    <3> QED BY <2>1, <3>1, PushTyped
  <2> QED BY <1>2, <2>1, <2>2 DEF StackIn
<1>10. run' \in Task \cup {Idle} /\ pend' \in [Task -> Order]
  BY <1>2, OrdersMade DEF Typed, TypeOK
<1>11. plans' \in [Intent -> [placed: Nat, advanced: SUBSET D2]]
  BY <1>4 DEF Place, Typed, TypeOK
<1>12. FilledWithin'
  <2>1. \A x \in Task : pend'[x].filled = 0
    BY <1>2, OrdersMade DEF Typed, TypeOK, FilledWithin
  <2>2. \A x \in D2 : book'[x].filled <= book'[x].qty
    BY <1>3, <1>4 DEF Typed, FilledWithin, Kept
  <2> QED BY <2>1, <2>2 DEF FilledWithin
<1>13. TypeOK'
  BY <1>4, <1>5, <1>6, <1>7, <1>8, <1>9, <1>10, <1>11
     DEF Place, Typed, TypeOK, Grows, StackIn
<1> QED BY <1>4, <1>12, <1>13 DEF Typed

\* handle_update of a fill.
LEMMA FillUpdateTyped ==
  ASSUME Typed, commands' \in Nat, FillUpdate
  PROVE  Typed' /\ Grows
<1> DEFINE D == DOMAIN book
           m == Head(queue)
           rest == <<[op |-> "bracket", id |-> m.id, qty |-> m.qty]>>
           oco == <<Loop("oco", protective, m.id)>>
<1>1. m \in Message(D) /\ Tail(queue) \in Seq(Message(D))
  BY HeadTailProperties DEF FillUpdate, Typed, TypeOK
<1>2. m.id \in D /\ m.qty \in Nat /\ m.side \in Int
  BY <1>1, MessageFields DEF FillUpdate, BUY, SELL
<1>3. rest \in Seq(Frame(D))
  BY <1>2, FramesMade, SingletonSeq
<1>4. oco \in Seq(Frame(D))
  <2>1. protective \in SUBSET D /\ m.id \in Nat
    BY <1>2, LenProperties DEF Typed, TypeOK
  <2> QED BY <2>1, FramesMade, SingletonSeq
<1>5. /\ oco \o rest \in Seq(Frame(D))
      /\ <<>> \o rest \in Seq(Frame(D))
  BY <1>3, <1>4, ConcatProperties, EmptySeq
<1>6. \E frames \in Seq(Frame(D)) : Continue("pump", frames)
  BY <1>5 DEF FillUpdate
<1>7. stack' \in StackIn(D) /\ run' \in Task \cup {Idle} /\ pend' = pend
  BY <1>6, ContinueTyped DEF Typed, TypeOK, StackIn, Task
<1>8. net' \in Int /\ queue' \in Seq(Message(D))
  BY <1>1, <1>2 DEF FillUpdate, Typed, TypeOK
<1>9. Grows /\ book' = book
  BY SameGrows DEF FillUpdate, broker, Typed, TypeOK
<1>10. FilledWithin'
  BY <1>7, <1>9, FilledStep DEF Typed, FilledWithin
<1>11. TypeOK'
  BY <1>7, <1>8, <1>9 DEF FillUpdate, broker, Typed, TypeOK, StackIn
<1> QED BY <1>9, <1>10, <1>11 DEF Typed

\* handle_update of an order.
LEMMA OrderUpdateTyped ==
  ASSUME Typed, commands' \in Nat, OrderUpdate
  PROVE  Typed' /\ Grows
<1> DEFINE D == DOMAIN book
           m == Head(queue)
           tagged == m.tagged \/ m.id \in DOMAIN working
<1>1. m \in Message(D) /\ Tail(queue) \in Seq(Message(D))
  BY HeadTailProperties DEF OrderUpdate, Typed, TypeOK
<1>2. m.id \in D /\ m.status \in Status /\ tagged \in BOOLEAN
  BY <1>1, MessageFields DEF OrderUpdate
<1>3. <<Progress(m.id, m.status, tagged)>> \in Seq(Frame(D))
  BY <1>2, FramesMade, SingletonSeq
<1>4. stack' \in StackIn(D) /\ run' \in Task \cup {Idle} /\ pend' = pend
  BY <1>3, ContinueTyped DEF OrderUpdate, Typed, TypeOK, StackIn, Task
<1>5. attributed' \subseteq D /\ queue' \in Seq(Message(D))
  BY <1>1, <1>2 DEF OrderUpdate, Typed, TypeOK
<1>6. Grows /\ book' = book
  BY SameGrows DEF OrderUpdate, broker, Typed, TypeOK
<1>7. FilledWithin'
  BY <1>4, <1>6, FilledStep DEF Typed, FilledWithin
<1>8. TypeOK'
  BY <1>4, <1>5, <1>6 DEF OrderUpdate, broker, Typed, TypeOK, StackIn
<1> QED BY <1>6, <1>7, <1>8 DEF Typed

\* _on_order_progress: the next slice is claimed, or none is left.
LEMMA OnOrderProgressTyped ==
  ASSUME Typed, SlicesOnce, commands' \in Nat, NEW t \in Task, OnOrderProgress(t)
  PROVE  Typed' /\ Grows
<1> DEFINE D == DOMAIN book
           f == Head(stack[t])
           i == book[f.id].intent
<1>1. At(t, "progress")
  BY DEF OnOrderProgress
<1>2. f \in Frame(D) /\ Tail(stack[t]) \in Seq(Frame(D)) /\ f.op = "progress"
  BY <1>1, AtTyped DEF Typed
<1>3. f.id \in D
  BY <1>2, FrameFields
<1>4. Grows /\ book' = book
  BY SameGrows DEF OnOrderProgress, broker, Typed, TypeOK
<1>5. DOMAIN working' \subseteq D /\ \A x \in DOMAIN working' : working'[x] \in Nat
  BY DEF OnOrderProgress, Pop, Typed, TypeOK
<1>6. stack \in StackIn(D) /\ pend \in [Task -> Order] /\ \A u \in Task : pend[u].filled = 0
  BY DEF Typed, TypeOK, StackIn, FilledWithin
<1>7. /\ plans' \in [Intent -> [placed: Nat, advanced: SUBSET D]]
      /\ stack' \in StackIn(D) /\ run' \in Task \cup {Idle}
      /\ pend' \in [Task -> Order] /\ \A u \in Task : pend'[u].filled = 0
  <2>1. CASE ~Releases(f) /\ UNCHANGED plans /\ Continue(t, Tail(stack[t]))
    BY <1>2, <1>6, <2>1, ContinueTyped DEF Typed, TypeOK
  <2>2. CASE /\ Releases(f)
             /\ plans' = [plans EXCEPT ![i].advanced = @ \cup {f.id}]
             /\ Continue(t, Tail(stack[t]))
    <3>1. stack' \in StackIn(D) /\ run' \in Task \cup {Idle} /\ pend' = pend
      BY <1>2, <1>6, <2>2, ContinueTyped
    <3>2. plans' \in [Intent -> [placed: Nat, advanced: SUBSET D]]
      <4>1. plans \in [Intent -> [placed: Nat, advanced: SUBSET D]]
        BY DEF Typed, TypeOK
      <4>2. plans' = [plans EXCEPT ![i].advanced = @ \cup {f.id}]
        BY <2>2
      <4> HIDE DEF i, D
      <4> QED BY <1>3, <4>1, <4>2
    <3> QED BY <1>6, <3>1, <3>2
  <2>3. CASE /\ Releases(f) /\ HasNext(i)
             /\ plans' = [plans EXCEPT ![i] =
                            [placed |-> @.placed + 1, advanced |-> @.advanced \cup {f.id}]]
             /\ Await(t, Tail(stack[t]), Child(i, plans[i].placed + 1))
    <3>1. i \in Intent
      BY <2>3 DEF Releases, Typed, TypeOK
    <3>2. plans[i].placed \in Nat /\ plans[i].advanced \subseteq D
      BY <3>1 DEF Typed, TypeOK
    <3>3. plans[i].placed + 1 \in 1..SliceCount(i)
      <4>1. plans[i].placed < SliceCount(i)
        BY <2>3 DEF HasNext
      <4>2. SliceCount(i) \in Nat
        BY <3>1, SliceFacts
      <4> HIDE DEF i
      <4> QED BY <3>2, <4>1, <4>2
    <3> DEFINE child == Child(i, plans[i].placed + 1)
    <3>4. child \in Order /\ child.filled = 0
      BY <3>1, <3>3, OrdersMade
    <3> HIDE DEF child
    <3>5. /\ stack' \in StackIn(D) /\ run' \in Task \cup {Idle} /\ pend' \in [Task -> Order]
      BY <1>2, <1>6, <2>3, <3>4, AwaitTyped DEF child
    <3>6. \A u \in Task : pend'[u].filled = 0
      BY <1>6, <2>3, <3>4 DEF Await, child
    <3>7. plans' \in [Intent -> [placed: Nat, advanced: SUBSET D]]
      <4> DEFINE next == [placed |-> plans[i].placed + 1, advanced |-> plans[i].advanced \cup {f.id}]
      <4>1. plans[i].placed + 1 \in Nat /\ plans[i].advanced \cup {f.id} \subseteq D
        BY <1>3, <3>2
      <4>2. next \in [placed: Nat, advanced: SUBSET D]
        BY <4>1
      <4>3. plans' = [plans EXCEPT ![i] = next]
        BY <2>3
      <4>4. plans \in [Intent -> [placed: Nat, advanced: SUBSET D]]
        BY DEF Typed, TypeOK
      <4> HIDE DEF i, next, D
      <4> QED BY <4>2, <4>3, <4>4
    <3> QED BY <3>5, <3>6, <3>7
  <2> QED BY <2>1, <2>2, <2>3 DEF OnOrderProgress
<1>8. FilledWithin'
  BY <1>4, <1>7, FilledStep
<1>9. TypeOK'
  BY <1>4, <1>5, <1>7 DEF OnOrderProgress, broker, Typed, TypeOK, StackIn
<1> QED BY <1>4, <1>8, <1>9 DEF Typed

\* _maybe_bracket: a stop waits for placement.
LEMMA MaybeBracketTyped ==
  ASSUME Typed, commands' \in Nat, NEW t \in Task, MaybeBracket(t)
  PROVE  Typed' /\ Grows
<1> DEFINE D == DOMAIN book
           f == Head(stack[t])
           i == book[f.id].intent
<1>1. At(t, "bracket")
  BY DEF MaybeBracket
<1>2. f \in Frame(D) /\ Tail(stack[t]) \in Seq(Frame(D)) /\ f.op = "bracket"
  BY <1>1, AtTyped DEF Typed
<1>3. f.qty \in Nat
  BY <1>2, FrameFields
<1>4. Grows /\ book' = book
  BY SameGrows DEF MaybeBracket, broker, Typed, TypeOK
<1>6. stack \in StackIn(D) /\ pend \in [Task -> Order] /\ \A u \in Task : pend[u].filled = 0
  BY DEF Typed, TypeOK, StackIn, FilledWithin
<1>7. /\ stack' \in StackIn(D) /\ run' \in Task \cup {Idle}
      /\ pend' \in [Task -> Order] /\ \A u \in Task : pend'[u].filled = 0
  <2>1. CASE Continue(t, Tail(stack[t]))
    BY <1>2, <1>6, <2>1, ContinueTyped
  <2>2. CASE i \in WithStop /\ Await(t, Tail(stack[t]), Stop(i, f.qty))
    <3> DEFINE stop == Stop(i, f.qty)
    <3>1. stop \in Order /\ stop.filled = 0
      BY <1>3, <2>2, ExecutionAssumption, OrdersMade
    <3> HIDE DEF stop
    <3>2. stack' \in StackIn(D) /\ run' \in Task \cup {Idle} /\ pend' \in [Task -> Order]
      BY <1>2, <1>6, <2>2, <3>1, AwaitTyped DEF stop
    <3>3. \A u \in Task : pend'[u].filled = 0
      BY <1>6, <2>2, <3>1 DEF Await, stop
    <3> QED BY <3>2, <3>3
  <2> QED BY <2>1, <2>2 DEF MaybeBracket
<1>8. FilledWithin'
  BY <1>4, <1>7, FilledStep
<1>9. TypeOK'
  BY <1>4, <1>7 DEF MaybeBracket, broker, agent, Typed, TypeOK, StackIn
<1> QED BY <1>4, <1>8, <1>9 DEF Typed

\* A turn of a loop that only moves to the rest of it.
LEMMA TurnTyped ==
  ASSUME Typed, commands' \in Nat, NEW t \in Task,
         NEW frames \in Seq(Frame(DOMAIN book)), Continue(t, frames),
         protective' \subseteq DOMAIN book,
         UNCHANGED <<broker, queue, halted, used, plans, working, attributed, net>>
  PROVE  Typed' /\ Grows
<1>1. Grows /\ book' = book
  BY SameGrows DEF broker, Typed, TypeOK
<1>2. /\ stack' \in StackIn(DOMAIN book) /\ run' \in Task \cup {Idle} /\ pend' = pend
  BY ContinueTyped DEF Typed, TypeOK, StackIn
<1>3. FilledWithin'
  BY <1>1, <1>2, FilledStep DEF Typed, FilledWithin
<1>4. TypeOK'
  BY <1>1, <1>2 DEF broker, Typed, TypeOK, StackIn
<1> QED BY <1>1, <1>3, <1>4 DEF Typed

\* A turn of a loop that cancels an order.
LEMMA CancelTurnTyped ==
  ASSUME Typed, commands' \in Nat, NEW t \in Task, NEW o \in DOMAIN book,
         NEW rest \in Seq(Frame(DOMAIN book)), CancelThen(t, o, rest),
         protective' \subseteq DOMAIN book,
         UNCHANGED <<pos, nfills, halted, used, plans, net>>
  PROVE  Typed' /\ Grows /\ DOMAIN book' = DOMAIN book
<1>1. /\ Grows /\ DOMAIN book' = DOMAIN book
      /\ queue' \in Seq(Message(DOMAIN book))
      /\ DOMAIN working' \subseteq DOMAIN book
      /\ \A x \in DOMAIN working' : working'[x] \in Nat
      /\ attributed' \subseteq DOMAIN book
      /\ stack' \in StackIn(DOMAIN book) /\ run' \in Task \cup {Idle} /\ pend' = pend
  BY CancelThenTyped DEF Typed
<1>2. FilledWithin'
  BY <1>1, FilledStep DEF Typed, FilledWithin
<1>3. TypeOK'
  BY <1>1 DEF Typed, TypeOK, StackIn, Grows
<1> QED BY <1>1, <1>2, <1>3 DEF Typed

\* One turn of cancel_where.
LEMMA CancelWhereTyped ==
  ASSUME Typed, commands' \in Nat, NEW t \in Task, CancelWhere(t)
  PROVE  Typed' /\ Grows
<1> DEFINE D == DOMAIN book
           f == Head(stack[t])
           rest(o) == <<Loop("cancel", f.ids \ {o}, 0)>> \o Tail(stack[t])
<1>1. f \in Frame(D) /\ Tail(stack[t]) \in Seq(Frame(D)) /\ f.ids \subseteq D
  BY AtTyped, FrameFields DEF CancelWhere, Typed
<1>2. ASSUME NEW o \in f.ids PROVE rest(o) \in Seq(Frame(D)) /\ o \in D
  <2>1. Loop("cancel", f.ids \ {o}, 0) \in Frame(D)
    BY <1>1, FramesMade
  <2> QED BY <1>1, <2>1, PushTyped
<1> HIDE DEF rest
<1>3. protective' \subseteq D /\ UNCHANGED <<pos, nfills, halted, used, plans, net>>
  BY DEF CancelWhere, Typed, TypeOK
<1>4. CASE /\ \E frames \in Seq(Frame(D)) : Continue(t, frames)
           /\ UNCHANGED <<book, queue, working, attributed>>
  BY <1>3, <1>4, TurnTyped DEF broker
<1>5. CASE \E o \in f.ids : CancelThen(t, o, rest(o))
  BY <1>2, <1>3, <1>5, CancelTurnTyped
<1> QED BY <1>1, <1>2, <1>4, <1>5 DEF CancelWhere, rest

\* One turn of _cancel_protective.
LEMMA CancelProtectiveTyped ==
  ASSUME Typed, commands' \in Nat, NEW t \in Task, CancelProtective(t)
  PROVE  Typed' /\ Grows
<1> DEFINE D == DOMAIN book
           f == Head(stack[t])
           rest(o) == <<Loop("oco", f.ids \ {o}, f.exclude)>> \o Tail(stack[t])
<1>1. /\ f \in Frame(D) /\ Tail(stack[t]) \in Seq(Frame(D))
      /\ f.ids \subseteq D /\ f.exclude \in Nat
  BY AtTyped, FrameFields DEF CancelProtective, Typed
<1>2. ASSUME NEW o \in f.ids PROVE rest(o) \in Seq(Frame(D)) /\ o \in D
  <2>1. Loop("oco", f.ids \ {o}, f.exclude) \in Frame(D)
    BY <1>1, FramesMade
  <2> QED BY <1>1, <2>1, PushTyped
<1> HIDE DEF rest
<1>3. protective' \subseteq D /\ UNCHANGED <<pos, nfills, halted, used, plans, net>>
  BY DEF CancelProtective, Typed, TypeOK
<1>4. CASE /\ \E frames \in Seq(Frame(D)) : Continue(t, frames)
           /\ UNCHANGED <<book, queue, working, attributed>>
  BY <1>3, <1>4, TurnTyped DEF broker
<1>5. CASE \E o \in f.ids : CancelThen(t, o, rest(o))
  BY <1>2, <1>3, <1>5, CancelTurnTyped
<1> QED BY <1>1, <1>2, <1>4, <1>5 DEF CancelProtective, rest

\* One turn of manage, where the order expired.
LEMMA ExpireTyped ==
  ASSUME Typed, commands' \in Nat, Expire
  PROVE  Typed' /\ Grows
<1> DEFINE D == DOMAIN book
           f == Head(stack["manage"])
           rest(o) == <<Loop("manage", f.ids \ {o}, 0)>> \o Tail(stack["manage"])
<1>1. "manage" \in Task
  BY DEF Task
<1>2. f \in Frame(D) /\ Tail(stack["manage"]) \in Seq(Frame(D)) /\ f.ids \subseteq D
  BY <1>1, AtTyped, FrameFields DEF Expire, Typed
<1>3. ASSUME NEW o \in f.ids PROVE rest(o) \in Seq(Frame(D)) /\ o \in D
  <2>1. Loop("manage", f.ids \ {o}, 0) \in Frame(D)
    BY <1>2, FramesMade
  <2> QED BY <1>2, <2>1, PushTyped
<1> HIDE DEF rest
<1>4. protective' \subseteq D /\ UNCHANGED <<pos, nfills, halted, used, plans, net>>
  BY DEF Expire, Typed, TypeOK
<1>5. \E o \in f.ids : CancelThen("manage", o, rest(o))
  BY DEF Expire, rest
<1> QED BY <1>1, <1>3, <1>4, <1>5, CancelTurnTyped

\* One turn of manage, where the order is chased.
LEMMA ChaseTyped ==
  ASSUME Typed, commands' \in Nat, Chase
  PROVE  Typed' /\ Grows
<1> DEFINE D == DOMAIN book
           f == Head(stack["manage"])
           rest(o) == <<Loop("manage", f.ids \ {o}, 0)>> \o Tail(stack["manage"])
           chased(o) ==
             /\ o \in DOMAIN working /\ working[o] < MaxChase
             /\ book[o].status = "OPEN"
             /\ \E after \in Matched(book[o]) :
                  /\ book' = [book EXCEPT ![o] = after]
                  /\ Book(book[o], after)
                  /\ queue' = queue \o Emitted(o, book[o], after, TRUE)
                                    \o <<OrderOf(o, after.status, TRUE)>>
                  /\ Continue("manage", <<Progress(o, after.status, TRUE)>> \o rest(o))
             /\ working' = [working EXCEPT ![o] = @ + 1]
             /\ attributed' = attributed \cup {o}
<1>1. "manage" \in Task
  BY DEF Task
<1>2. f \in Frame(D) /\ Tail(stack["manage"]) \in Seq(Frame(D)) /\ f.ids \subseteq D
  BY <1>1, AtTyped, FrameFields DEF Chase, Typed
<1>3. ASSUME NEW o \in f.ids PROVE rest(o) \in Seq(Frame(D)) /\ o \in D
  <2>1. Loop("manage", f.ids \ {o}, 0) \in Frame(D)
    BY <1>2, FramesMade
  <2> QED BY <1>2, <2>1, PushTyped
<1>4. protective' \subseteq D /\ UNCHANGED <<halted, used, plans, net>>
  BY DEF Chase, Typed, TypeOK
<1>5. CASE \E o \in f.ids : /\ Continue("manage", rest(o))
                            /\ UNCHANGED <<broker, queue, working, attributed>>
  <2> HIDE DEF rest
  <2> QED BY <1>1, <1>3, <1>4, <1>5, TurnTyped
<1>6. ASSUME NEW o \in f.ids, chased(o)
      PROVE  Typed' /\ Grows
  <2>1. rest(o) \in Seq(Frame(D)) /\ o \in D
    BY <1>3
  <2> HIDE DEF rest
  <2>2. PICK after \in Matched(book[o]) :
           /\ book' = [book EXCEPT ![o] = after]
           /\ Book(book[o], after)
           /\ queue' = queue \o Emitted(o, book[o], after, TRUE)
                             \o <<OrderOf(o, after.status, TRUE)>>
           /\ Continue("manage", <<Progress(o, after.status, TRUE)>> \o rest(o))
    BY <1>6
  <2>3. book \in Seq(Order) /\ book[o] \in Order /\ book[o].filled <= book[o].qty
    BY <2>1, ElementOfSeq, LenProperties DEF Typed, TypeOK, FilledWithin
  <2>4. Kept(book[o], after) /\ after.status \in Status
    BY <2>3, MatchedKept DEF Kept, Order
  <2>5. Grows /\ DOMAIN book' = D
    BY <2>1, <2>2, <2>3, <2>4, ReplaceGrows DEF Typed
  <2>6. pos' \in Int /\ nfills' \in Nat
    BY <2>2, <2>3, <2>4, BookTyped DEF Typed, TypeOK
  <2>7. queue' \in Seq(Message(D))
    <3>1. Emitted(o, book[o], after, TRUE) \in Seq(Message(D))
      BY <2>1, <2>3, <2>4, EmittedTyped
    <3>2. <<OrderOf(o, after.status, TRUE)>> \in Seq(Message(D))
      BY <2>1, <2>4, MessagesMade, SingletonSeq
    <3>3. queue \in Seq(Message(D))
      BY DEF Typed, TypeOK
    <3> HIDE DEF D
    <3> QED BY <2>2, <3>1, <3>2, <3>3, ConcatProperties
  <2>8. stack' \in StackIn(D) /\ run' \in Task \cup {Idle} /\ pend' = pend
    <3>1. Progress(o, after.status, TRUE) \in Frame(D)
      BY <2>1, <2>4, FramesMade
    <3>2. <<Progress(o, after.status, TRUE)>> \o rest(o) \in Seq(Frame(D))
      BY <2>1, <3>1, PushTyped
    <3>3. stack \in StackIn(D)
      BY DEF Typed, TypeOK, StackIn
    <3> HIDE DEF D, rest
    <3> QED BY <2>2, <3>2, <3>3, ContinueTyped DEF Task
  <2>9. /\ DOMAIN working' \subseteq D
        /\ \A x \in DOMAIN working' : working'[x] \in Nat
        /\ attributed' \subseteq D
    <3>1. /\ working' = [working EXCEPT ![o] = working[o] + 1] /\ o \in DOMAIN working
          /\ attributed' = attributed \cup {o}
      BY <1>6
    <3>2. /\ DOMAIN working \subseteq D /\ \A x \in DOMAIN working : working[x] \in Nat
          /\ attributed \subseteq D
      BY DEF Typed, TypeOK
    <3> HIDE DEF D
    <3> QED BY <2>1, <3>1, <3>2
  <2>10. FilledWithin'
    BY <2>5, <2>8, FilledStep DEF Typed, FilledWithin
  <2>11. TypeOK'
    BY <1>4, <2>5, <2>6, <2>7, <2>8, <2>9 DEF Typed, TypeOK, StackIn, Grows
  <2> QED BY <2>5, <2>10, <2>11 DEF Typed
<1> HIDE DEF rest
<1>7. \E o \in f.ids : \/ /\ Continue("manage", rest(o))
                          /\ UNCHANGED <<broker, queue, working, attributed>>
                       \/ chased(o)
  BY DEF Chase, rest
<1> HIDE DEF chased
<1> QED BY <1>5, <1>6, <1>7

\* liquidate: a closing order and its fill.
LEMMA LiquidateTyped ==
  ASSUME Typed, commands' \in Nat, Liquidate
  PROVE  Typed' /\ Grows
<1> DEFINE D == DOMAIN book
           o == Len(book) + 1
           before == Closing(pos)
<1>1. "manage" \in Task /\ At("manage", "liquidate")
  BY DEF Task, Liquidate
<1>2. Tail(stack["manage"]) \in Seq(Frame(D))
  BY <1>1, AtTyped DEF Typed
<1>3. Continue("manage", Tail(stack["manage"])) /\ UNCHANGED agent
  BY DEF Liquidate
<1>4. CASE UNCHANGED <<broker, queue>>
  BY <1>1, <1>2, <1>3, <1>4, TurnTyped DEF agent, Typed, TypeOK
<1>5. CASE /\ pos # 0
           /\ \E after \in {Filled(before, before.qty)} \cup Refused(before) :
                /\ book' = Append(book, after)
                /\ Book(before, after)
                /\ queue' = queue \o Emitted(o, before, after, FALSE)
                                  \o <<OrderOf(o, after.status, FALSE)>>
  <2>1. PICK after \in {Filled(before, before.qty)} \cup Refused(before) :
                /\ book' = Append(book, after)
                /\ Book(before, after)
                /\ queue' = queue \o Emitted(o, before, after, FALSE)
                                  \o <<OrderOf(o, after.status, FALSE)>>
    BY <1>5
  <2>2. before \in Order /\ before.filled = 0 /\ before.qty \in Nat
    BY OrdersMade DEF Typed, TypeOK, Order
  <2>3. Kept(before, after) /\ after \in Order /\ after.status \in Status
    <3> HIDE DEF before
    <3>1. before.qty \in 0..(before.qty - before.filled) /\ before.filled <= before.qty
      BY <2>2
    <3>2. Kept(before, after)
      BY <2>1, <2>2, <3>1, FilledKept, RefusedKept
    <3> QED BY <3>2 DEF Kept, Order
  <2> HIDE DEF before
  <2> DEFINE D2 == DOMAIN book'
  <2>4. /\ Grows /\ D2 = D \cup {o} /\ book'[o] = after
        /\ \A x \in D : book'[x] = book[x]
    BY <2>1, <2>3, AppendGrows DEF Typed, TypeOK
  <2>5. pos' \in Int /\ nfills' \in Nat
    BY <2>1, <2>2, <2>3, BookTyped DEF Typed, TypeOK
  <2>6. queue' \in Seq(Message(D2))
    <3>1. Emitted(o, before, after, FALSE) \in Seq(Message(D2))
      BY <2>2, <2>3, <2>4, EmittedTyped
    <3>2. <<OrderOf(o, after.status, FALSE)>> \in Seq(Message(D2))
      BY <2>3, <2>4, MessagesMade, SingletonSeq
    <3>3. queue \in Seq(Message(D2))
      BY <2>4, Monotone DEF Typed, TypeOK
    <3> QED BY <2>1, <3>1, <3>2, <3>3, ConcatProperties
  <2>7. stack' \in StackIn(D2) /\ run' \in Task \cup {Idle} /\ pend' = pend
    <3>1. stack \in StackIn(D2) /\ Tail(stack["manage"]) \in Seq(Frame(D2))
      BY <1>2, <2>4, Monotone DEF Typed, TypeOK, StackIn
    <3> QED BY <1>1, <1>3, <3>1, ContinueTyped
  <2>8. FilledWithin'
    BY <2>3, <2>4, <2>7 DEF Typed, FilledWithin, Kept
  <2>9. plans' \in [Intent -> [placed: Nat, advanced: SUBSET D2]]
    BY <1>3, <2>4 DEF agent, Typed, TypeOK
  <2>10. TypeOK'
    BY <1>3, <2>4, <2>5, <2>6, <2>7, <2>9 DEF agent, Typed, TypeOK, StackIn, Grows
  <2> QED BY <2>4, <2>8, <2>10 DEF Typed
<1> QED BY <1>4, <1>5 DEF Liquidate

\* Actions that only start or end a loop.
LEMMA LoopsTyped ==
  ASSUME Typed, commands' \in Nat,
         Manage \/ ManageDone \/ SquareOff \/ Flatten
  PROVE  Typed' /\ Grows
<1> DEFINE D == DOMAIN book
<1>1. /\ "manage" \in Task /\ "control" \in Task /\ protective \subseteq D
      /\ DOMAIN working \subseteq D /\ Children \subseteq D
  BY DEF Task, Typed, TypeOK, Children
<1>2. /\ <<Loop("manage", Children, 0)>> \in Seq(Frame(D))
      /\ <<Loop("cancel", DOMAIN working, 0)>> \in Seq(Frame(D))
  BY <1>1, FramesMade, SingletonSeq
<1>3. <<Loop("cancel", DOMAIN working, 0), [op |-> "liquidate"]>> \in Seq(Frame(D))
  <2>1. Loop("cancel", DOMAIN working, 0) \in Frame(D) /\ [op |-> "liquidate"] \in Frame(D)
    BY <1>1, FramesMade
  <2> DEFINE a == Loop("cancel", DOMAIN working, 0)
             b == [op |-> "liquidate"]
             F == Frame(D)
  <2> HIDE DEF a, b, F
  <2> QED BY <2>1 DEF a, b, F
<1>4. ManageDone => Tail(stack["manage"]) \in Seq(Frame(D))
  BY <1>1, AtTyped DEF ManageDone, Typed
<1>5. /\ UNCHANGED <<broker, queue, agent>>
      /\ \E t \in Task, frames \in Seq(Frame(D)) : Continue(t, frames)
  BY <1>1, <1>2, <1>3, <1>4 DEF Manage, ManageDone, SquareOff, Flatten
<1> QED BY <1>1, <1>5, TurnTyped DEF agent

\* _on_control of KILL.
LEMMA KillTyped ==
  ASSUME Typed, commands' \in Nat, Kill
  PROVE  Typed' /\ Grows
<1>1. <<Loop("cancel", DOMAIN working, 0)>> \in Seq(Frame(DOMAIN book))
  BY FramesMade, SingletonSeq DEF Typed, TypeOK
<1>2. stack' \in StackIn(DOMAIN book) /\ run' \in Task \cup {Idle} /\ pend' = pend
  BY <1>1, ContinueTyped DEF Kill, Task, Typed, TypeOK, StackIn
<1>3. Grows /\ book' = book
  BY SameGrows DEF Kill, broker, Typed, TypeOK
<1>4. FilledWithin'
  BY <1>2, <1>3, FilledStep DEF Typed, FilledWithin
<1>5. TypeOK'
  BY <1>2, <1>3 DEF Kill, broker, Typed, TypeOK, StackIn
<1> QED BY <1>3, <1>4, <1>5 DEF Typed

\* _on_control of RESUME.
LEMMA ResumeTyped ==
  ASSUME Typed, commands' \in Nat, Resume
  PROVE  Typed' /\ Grows
<1>1. Grows
  BY SameGrows DEF Resume, broker, Typed, TypeOK
<1>2. FilledWithin' /\ TypeOK'
  BY DEF Resume, broker, tasks, Typed, TypeOK, FilledWithin
<1> QED BY <1>1, <1>2 DEF Typed

\* A step that changes nothing.
LEMMA StutterTyped ==
  ASSUME Typed, UNCHANGED vars
  PROVE  Typed' /\ Grows
<1>1. Grows
  BY SameGrows DEF vars, broker, Typed, TypeOK
<1>2. FilledWithin' /\ TypeOK'
  BY DEF vars, broker, agent, tasks, Typed, TypeOK, FilledWithin
<1> QED BY <1>1, <1>2 DEF Typed

\* Every step keeps the types, and the orders of the book.
LEMMA StepTyped ==
  ASSUME Typed, SlicesOnce, [Next]_vars
  PROVE  Typed' /\ Grows
<1>1. commands' \in Nat
  BY DEF Next, Control, Kill, Resume, Flatten, Command, vars, Typed, TypeOK
<1>2. CASE \E o \in DOMAIN book : Market(o)
  BY <1>1, <1>2, MarketTyped
<1>3. CASE \E i \in Intent : Approval(i)
  BY <1>1, <1>3, ApprovalTyped
<1>4. ASSUME NEW t \in Task, Step(t)
      PROVE  Typed' /\ Grows
  BY <1>1, <1>4, PlaceTyped, PlaceFailsTyped, OnOrderProgressTyped, MaybeBracketTyped,
     CancelWhereTyped, CancelProtectiveTyped DEF Step
<1>5. CASE Timer
  BY <1>1, <1>5, LoopsTyped, ExpireTyped, ChaseTyped, LiquidateTyped DEF Timer
<1>6. CASE Update
  BY <1>1, <1>6, FillUpdateTyped, OrderUpdateTyped DEF Update
<1>7. CASE Control
  BY <1>1, <1>7, KillTyped, ResumeTyped, LoopsTyped DEF Control
<1>8. CASE UNCHANGED vars
  BY <1>8, StutterTyped
<1> QED BY <1>2, <1>3, <1>4, <1>5, <1>6, <1>7, <1>8 DEF Next
-----------------------------------------------------------------------------
(* A slice is claimed once.                                                *)

\* A step that claims nothing and places no child.
LEMMA SlicesKept ==
  ASSUME Typed, SlicesOnce, Grows,
         \A o \in DOMAIN book' \ DOMAIN book : book'[o].kind # "child",
         used' = used, \A i \in Intent : plans'[i].placed = plans[i].placed,
         \A t \in Task : pend'[t] = pend[t] \/ pend'[t].kind # "child"
  PROVE  SlicesOnce'
<1>1. \A o \in DOMAIN book' : book'[o].kind = "child" =>
        /\ o \in DOMAIN book
        /\ book[o].kind = "child" /\ book[o].intent = book'[o].intent
        /\ book[o].slice = book'[o].slice
  BY DEF Grows, Kept
<1>2. \A t \in Task : pend'[t].kind = "child" => pend'[t] = pend[t]
  OBVIOUS
<1>3. \A i \in Intent : plans'[i].placed <= SliceCount(i)
  BY DEF SlicesOnce
<1>4. used \subseteq Intent
  BY DEF Typed, TypeOK
<1>5. (\A o \in DOMAIN book : Claimed(book[o]))'
  BY <1>1, <1>4 DEF SlicesOnce, Claimed
<1>6. (\A t \in Task : Claimed(pend[t]))'
  BY <1>2, <1>4 DEF SlicesOnce, Claimed
<1>7. (\A o, p \in DOMAIN book : o # p => ~SameSlice(book[o], book[p]))'
  BY <1>1 DEF SlicesOnce, SameSlice
<1>8. (\A o \in DOMAIN book, t \in Task : ~SameSlice(book[o], pend[t]))'
  BY <1>1, <1>2 DEF SlicesOnce, SameSlice
<1>9. (\A t, u \in Task : t # u => ~SameSlice(pend[t], pend[u]))'
  BY <1>2 DEF SlicesOnce, SameSlice
<1> QED BY <1>3, <1>5, <1>6, <1>7, <1>8, <1>9 DEF SlicesOnce

\* A step in which task t claims slice k of i, the first or the next.
LEMMA SlicesClaimed ==
  ASSUME Typed, SlicesOnce, NEW t \in Task, NEW i \in Intent, NEW k \in 1..SliceCount(i),
         i \notin used \/ k = plans[i].placed + 1,
         book' = book, used' = used \cup {i},
         pend' = [pend EXCEPT ![t] = Child(i, k)],
         \A j \in Intent : plans'[j].placed = IF j = i THEN k ELSE plans[j].placed
  PROVE  SlicesOnce'
<1> DEFINE new == Child(i, k)
<1>1. new.intent = i /\ new.slice = k /\ k \in Nat /\ new.kind = "child"
  BY SliceFacts DEF Child
<1> HIDE DEF new
<1>2. /\ \A j \in Intent : plans[j].placed \in Nat /\ plans[j].placed <= SliceCount(j)
      /\ used \subseteq Intent
  BY DEF Typed, TypeOK, SlicesOnce
<1>3. \A u \in Task : pend'[u] = IF u = t THEN new ELSE pend[u]
  BY DEF Typed, TypeOK, new
<1>4. \A j \in Intent : plans'[j].placed <= SliceCount(j)
  BY <1>2, SliceFacts
\* what was claimed so far stays claimed, and none of it is the new slice
<1>5. ASSUME NEW order, order.kind = "child", Claimed(order)
      PROVE  /\ order.intent \in used'
             /\ order.slice \in 1..plans'[order.intent].placed
             /\ ~SameSlice(order, new) /\ ~SameSlice(new, order)
  <2>1. order.intent \in used /\ order.slice \in 1..plans[order.intent].placed
    BY <1>5 DEF Claimed
  <2>2. CASE order.intent = i
    BY <1>1, <1>2, <2>1, <2>2 DEF SameSlice
  <2>3. CASE order.intent # i
    BY <1>1, <1>2, <2>1, <2>3 DEF SameSlice
  <2> QED BY <2>2, <2>3
<1>6. /\ \A o \in DOMAIN book : Claimed(book[o])
      /\ \A u \in Task : Claimed(pend[u])
  BY DEF SlicesOnce
<1>7. \A order : SameSlice(order, new) \/ SameSlice(new, order) => order.kind = "child"
  BY DEF SameSlice
<1>8. (\A o \in DOMAIN book : Claimed(book[o]))'
  BY <1>5, <1>6 DEF Claimed
<1>9. (\A u \in Task : Claimed(pend[u]))'
  BY <1>1, <1>3, <1>5, <1>6 DEF Claimed
<1>10. (\A o, p \in DOMAIN book : o # p => ~SameSlice(book[o], book[p]))'
  BY DEF SlicesOnce
<1>11. (\A o \in DOMAIN book, u \in Task : ~SameSlice(book[o], pend[u]))'
  BY <1>3, <1>5, <1>6, <1>7 DEF SlicesOnce
<1>12. (\A u, v \in Task : u # v => ~SameSlice(pend[u], pend[v]))'
  BY <1>3, <1>5, <1>6, <1>7 DEF SlicesOnce
<1> QED BY <1>4, <1>8, <1>9, <1>10, <1>11, <1>12 DEF SlicesOnce

\* A step in which task t places what it waited to place.
LEMMA SlicesPlaced ==
  ASSUME Typed, SlicesOnce, NEW t \in Task, Place(t)
  PROVE  /\ SlicesOnce'
         /\ DOMAIN book' = DOMAIN book \cup {Len(book) + 1} /\ Len(book) + 1 \notin DOMAIN book
         /\ Kept(pend[t], book'[Len(book) + 1])
         /\ \A o \in DOMAIN book : book'[o] = book[o]
<1> DEFINE o == Len(book) + 1
           before == pend[t]
<1>1. before \in Order /\ before.filled <= before.qty
  BY DEF Typed, TypeOK, FilledWithin, Order
<1>2. PICK after \in Placed(before) : book' = Append(book, after)
  BY DEF Place
<1>3. Kept(before, after) /\ after \in Order
  BY <1>1, PlacedKept DEF Kept
<1>4. /\ DOMAIN book' = DOMAIN book \cup {o} /\ o \notin DOMAIN book /\ book'[o] = after
      /\ \A x \in DOMAIN book : book'[x] = book[x]
  BY <1>2, <1>3, AppendGrows DEF Typed, TypeOK
<1>5. /\ pend' = [pend EXCEPT ![t] = NoOrder] /\ UNCHANGED <<used, plans>>
      /\ NoOrder.kind = "none"
  BY OrdersMade DEF Place
<1>6. \A u \in Task : pend'[u] = IF u = t THEN NoOrder ELSE pend[u]
  BY <1>5 DEF Typed, TypeOK
<1>7. after.kind = before.kind /\ after.intent = before.intent /\ after.slice = before.slice
  BY <1>3 DEF Kept
<1> HIDE DEF o
<1>8. (\A x \in DOMAIN book : Claimed(book[x]))'
  BY <1>4, <1>5, <1>7 DEF SlicesOnce, Claimed
<1>9. (\A u \in Task : Claimed(pend[u]))'
  BY <1>5, <1>6 DEF SlicesOnce, Claimed
<1>10. (\A x, y \in DOMAIN book : x # y => ~SameSlice(book[x], book[y]))'
  BY <1>4, <1>7 DEF SlicesOnce, SameSlice
<1>11. (\A x \in DOMAIN book, u \in Task : ~SameSlice(book[x], pend[u]))'
  BY <1>4, <1>5, <1>6, <1>7 DEF SlicesOnce, SameSlice
<1>12. (\A u, v \in Task : u # v => ~SameSlice(pend[u], pend[v]))'
  BY <1>5, <1>6 DEF SlicesOnce, SameSlice
<1>13. SlicesOnce'
  BY <1>5, <1>8, <1>9, <1>10, <1>11, <1>12 DEF SlicesOnce
<1> QED BY <1>3, <1>4, <1>13 DEF o

\* A step that neither claims a slice nor places a child.
Quiet ==
  /\ used' = used
  /\ \A i \in Intent : plans'[i].placed = plans[i].placed
  /\ \A o \in DOMAIN book' \ DOMAIN book : book'[o].kind # "child"
  /\ \A t \in Task : pend'[t] = pend[t] \/ pend'[t].kind # "child"

\* A step in which task t claims the next slice of a plan.
ClaimsNext(t, i) ==
  /\ i \in used /\ HasNext(i)
  /\ book' = book /\ used' = used /\ halted' = halted
  /\ pend' = [pend EXCEPT ![t] = Child(i, plans[i].placed + 1)]
  /\ \A j \in Intent :
       plans'[j].placed = IF j = i THEN plans[i].placed + 1 ELSE plans[j].placed

\* _on_order_progress claims at most one slice.
LEMMA ProgressKinds ==
  ASSUME Typed, NEW t \in Task, OnOrderProgress(t)
  PROVE  Quiet \/ \E i \in Intent : ClaimsNext(t, i)
<1> DEFINE f == Head(stack[t])
           i == book[f.id].intent
<1>1. book' = book /\ used' = used /\ halted' = halted
  BY DEF OnOrderProgress, broker
<1>2. plans \in [Intent -> [placed: Nat, advanced: SUBSET DOMAIN book]] /\ pend \in [Task -> Order]
  BY DEF Typed, TypeOK
<1>3. CASE UNCHANGED plans /\ Continue(t, Tail(stack[t]))
  BY <1>1, <1>3 DEF Quiet, Continue
<1>4. CASE /\ Releases(f)
           /\ plans' = [plans EXCEPT ![i].advanced = @ \cup {f.id}]
           /\ Continue(t, Tail(stack[t]))
  <2> HIDE DEF f, i
  <2>1. \A j \in Intent : plans'[j].placed = plans[j].placed
    BY <1>2, <1>4
  <2> QED BY <1>1, <1>4, <2>1 DEF Quiet, Continue
<1>5. CASE /\ Releases(f) /\ HasNext(i)
           /\ plans' = [plans EXCEPT ![i] =
                          [placed |-> @.placed + 1, advanced |-> @.advanced \cup {f.id}]]
           /\ Await(t, Tail(stack[t]), Child(i, plans[i].placed + 1))
  <2>1. i \in used /\ i \in Intent
    BY <1>5 DEF Releases, Typed, TypeOK
  <2> HIDE DEF f, i
  <2>2. \A j \in Intent :
          plans'[j].placed = IF j = i THEN plans[i].placed + 1 ELSE plans[j].placed
    BY <1>2, <1>5
  <2> QED BY <1>1, <1>5, <2>1, <2>2 DEF ClaimsNext, Await
<1> QED BY <1>3, <1>4, <1>5 DEF OnOrderProgress

\* The loops, commands and updates: the book keeps its size, and no task starts
\* to wait with a child.
LEMMA OtherKinds ==
  ASSUME Typed,
         \/ \E o \in DOMAIN book : Market(o)
         \/ \E t \in Task : \/ PlaceFails(t) \/ MaybeBracket(t)
                            \/ CancelWhere(t) \/ CancelProtective(t)
         \/ Timer \/ Update \/ Control \/ UNCHANGED vars
  PROVE  Quiet
<1> USE DEF Quiet
<1>1. /\ pend \in [Task -> Order] /\ book \in Seq(Order)
      /\ NoOrder.kind = "none"
  BY OrdersMade DEF Typed, TypeOK
<1>2. CASE \E o \in DOMAIN book : Market(o)
  BY <1>2 DEF Market, agent, tasks
<1>3. ASSUME NEW t \in Task, PlaceFails(t)
      PROVE  Quiet
  BY <1>1, <1>3 DEF PlaceFails, broker, agent
<1>4. ASSUME NEW t \in Task, MaybeBracket(t)
      PROVE  Quiet
  <2>1. book' = book /\ used' = used /\ plans' = plans
    BY <1>4 DEF MaybeBracket, broker, agent
  <2>2. CASE Continue(t, Tail(stack[t]))
    BY <2>1, <2>2 DEF Continue
  <2>3. CASE \E i, q : Await(t, Tail(stack[t]), Stop(i, q))
    <3>1. PICK i, q : pend' = [pend EXCEPT ![t] = Stop(i, q)]
      BY <2>3 DEF Await
    <3>2. Stop(i, q).kind = "stop"
      BY DEF Stop
    <3> QED BY <1>1, <2>1, <3>1, <3>2
  <2> QED BY <1>4, <2>2, <2>3 DEF MaybeBracket
<1>5. ASSUME NEW t \in Task, NEW o, NEW rest, CancelThen(t, o, rest)
      PROVE  DOMAIN book' = DOMAIN book /\ pend' = pend
  BY <1>5 DEF CancelThen, CancelledAt, Continue
<1>6. ASSUME NEW t \in Task, CancelWhere(t)
      PROVE  Quiet
  BY <1>5, <1>6 DEF CancelWhere, Continue
<1>7. ASSUME NEW t \in Task, CancelProtective(t)
      PROVE  Quiet
  BY <1>5, <1>7 DEF CancelProtective, Continue
<1>8. CASE Expire
  <2>1. "manage" \in Task
    BY DEF Task
  <2> QED BY <1>5, <1>8, <2>1 DEF Expire
<1>9. CASE Chase
  BY <1>9 DEF Chase, Continue, broker
<1>10. CASE Manage \/ ManageDone \/ SquareOff
  BY <1>10 DEF Manage, ManageDone, SquareOff, Continue, broker, agent
<1>11. CASE Liquidate
  <2>1. pend' = pend /\ UNCHANGED agent
    BY <1>11 DEF Liquidate, Continue
  <2>2. CASE UNCHANGED broker
    BY <2>1, <2>2 DEF agent, broker
  <2>3. ASSUME NEW after \in {Filled(Closing(pos), Closing(pos).qty)} \cup Refused(Closing(pos)),
               book' = Append(book, after)
        PROVE  Quiet
    <3>1. Closing(pos) \in Order /\ Closing(pos).filled = 0 /\ Closing(pos).qty \in Nat
      BY OrdersMade DEF Typed, TypeOK, Order
    <3>2. Closing(pos).kind = "liquidation"
      BY DEF Closing
    <3>3. Kept(Closing(pos), after)
      <4> DEFINE c == Closing(pos)
      <4> HIDE DEF c
      <4>1. c.qty \in 0..(c.qty - c.filled) /\ c.filled <= c.qty
        BY <3>1 DEF c
      <4>2. Kept(c, after)
        BY <2>3, <3>1, <4>1, FilledKept, RefusedKept DEF c
      <4> QED BY <4>2 DEF c
    <3>4. after.kind = "liquidation" /\ after \in Order
      BY <3>2, <3>3 DEF Kept
    <3>5. \A o \in DOMAIN book' \ DOMAIN book : book'[o] = after
      BY <2>3, <3>4, AppendGrows DEF Typed, TypeOK
    <3> QED BY <2>1, <3>4, <3>5 DEF agent
  <2> QED BY <1>11, <2>2, <2>3 DEF Liquidate
<1>12. CASE Update
  BY <1>12 DEF Update, FillUpdate, OrderUpdate, Continue, broker
<1>13. CASE Control
  BY <1>13 DEF Control, Kill, Resume, Flatten, Continue, broker, agent, tasks
<1>14. CASE UNCHANGED vars
  BY <1>14 DEF vars, broker, agent, tasks
<1> QED BY <1>2, <1>3, <1>4, <1>6, <1>7, <1>8, <1>9, <1>10, <1>11, <1>12, <1>13, <1>14
        DEF Timer

\* A step starts a plan, places a child, claims a slice, or leaves the children alone.
LEMMA StepKinds ==
  ASSUME Typed, [Next]_vars
  PROVE  \/ \E i \in Intent : Approval(i)
         \/ \E t \in Task : Place(t)
         \/ \E t \in Task, i \in Intent : ClaimsNext(t, i)
         \/ Quiet
  BY ProgressKinds, OtherKinds DEF Next, Step

\* Every step keeps slices claimed once.
LEMMA SlicesStep ==
  ASSUME Typed, SlicesOnce, [Next]_vars
  PROVE  SlicesOnce'
<1>1. ASSUME NEW i \in Intent, Approval(i)
      PROVE  SlicesOnce'
  <2>1. /\ i \notin used /\ used' = used \cup {i} /\ book' = book
        /\ pend' = [pend EXCEPT !["feed"] = Child(i, 1)] /\ "feed" \in Task
    BY <1>1 DEF Approval, Acceptable, Await, broker, Task
  <2>2. \A j \in Intent : plans'[j].placed = IF j = i THEN 1 ELSE plans[j].placed
    BY <1>1 DEF Approval, Typed, TypeOK
  <2>3. 1 \in 1..SliceCount(i)
    BY SliceFacts
  <2> QED BY <2>1, <2>2, <2>3, SlicesClaimed
<1>2. ASSUME NEW t \in Task, Place(t)
      PROVE  SlicesOnce'
  BY <1>2, SlicesPlaced
<1>3. ASSUME NEW t \in Task, NEW i \in Intent, ClaimsNext(t, i)
      PROVE  SlicesOnce'
  <2> DEFINE k == plans[i].placed + 1
  <2>1. k \in 1..SliceCount(i)
    <3>1. plans[i].placed < SliceCount(i) /\ plans[i].placed \in Nat /\ SliceCount(i) \in Nat
      BY <1>3, SliceFacts DEF ClaimsNext, HasNext, Typed, TypeOK
    <3> QED BY <3>1
  <2>2. used' = used \cup {i}
    BY <1>3 DEF ClaimsNext
  <2> QED BY <1>3, <2>1, <2>2, SlicesClaimed DEF ClaimsNext
<1>4. CASE Quiet
  BY <1>4, SlicesKept, StepTyped DEF Quiet
<1> QED BY <1>1, <1>2, <1>3, <1>4, StepKinds
-----------------------------------------------------------------------------
(* Atomic handlers.                                                        *)

\* Where no wait for the limiter splits a handler, no step leaves a child to a halted agent.
LEMMA AtomicStep ==
  ASSUME Typed, SlicesOnce, Atomic, [Next]_vars
  PROVE  Atomic'
<1> SUFFICES ASSUME ~Throttled
             PROVE  Atomic'
  BY DEF Atomic
<1>1. /\ pend \in [Task -> Order] /\ stack \in StackIn(DOMAIN book)
      /\ run \in Task \cup {Idle} /\ Idle \notin Task
  BY DEF Typed, TypeOK, StackIn, Task, Idle
<1>2. \A t \in Task : pend[t] # NoOrder \/ stack[t] # <<>> => run = t
  BY DEF Atomic
\* whoever continues a handler held the loop, or found it free
<1>3. ASSUME NEW t \in Task, NEW frames, run = t \/ run = Idle, pend[t] = NoOrder,
             Continue(t, frames)
      PROVE  \A u \in Task : pend'[u] # NoOrder \/ stack'[u] # <<>> => run' = u
  BY <1>1, <1>2, <1>3 DEF Continue, StackIn
<1>4. ASSUME NEW t \in Task, NEW frames, NEW order, run = t \/ run = Idle,
             Await(t, frames, order)
      PROVE  \A u \in Task : pend'[u] # NoOrder \/ stack'[u] # <<>> => run' = u
  BY <1>1, <1>2, <1>4 DEF Await, StackIn
<1>5. \A u \in Task : pend'[u] # NoOrder \/ stack'[u] # <<>> => run' = u
  <2>1. CASE \E o \in DOMAIN book : Market(o)
    BY <1>2, <2>1 DEF Market, tasks
  <2>2. CASE \E i \in Intent : Approval(i)
    BY <1>4, <2>2 DEF Approval, Free, Task
  <2>3. ASSUME NEW t \in Task, Place(t) \/ PlaceFails(t)
        PROVE  \A u \in Task : pend'[u] # NoOrder \/ stack'[u] # <<>> => run' = u
    <3>1. run = t
      BY <1>2, <2>3 DEF Place, PlaceFails
    <3>2. CASE PlaceFails(t)
      BY <1>1, <1>2, <3>1, <3>2 DEF PlaceFails
    <3>3. CASE Place(t)
      <4>1. /\ pend' = [pend EXCEPT ![t] = NoOrder]
            /\ run' = IF stack'[t] = <<>> THEN Idle ELSE t
            /\ \A u \in Task \ {t} : stack'[u] = stack[u]
        BY <1>1, <3>3 DEF Place, StackIn
      <4> QED BY <1>1, <1>2, <3>1, <4>1
    <3> QED BY <2>3, <3>2, <3>3
  <2>4. ASSUME NEW t \in Task, OnOrderProgress(t)
        PROVE  \A u \in Task : pend'[u] # NoOrder \/ stack'[u] # <<>> => run' = u
    BY <1>3, <1>4, <2>4 DEF OnOrderProgress, At
  <2>5. ASSUME NEW t \in Task, MaybeBracket(t)
        PROVE  \A u \in Task : pend'[u] # NoOrder \/ stack'[u] # <<>> => run' = u
    BY <1>3, <1>4, <2>5 DEF MaybeBracket, At
  <2>6. ASSUME NEW t \in Task, CancelWhere(t) \/ CancelProtective(t)
        PROVE  \A u \in Task : pend'[u] # NoOrder \/ stack'[u] # <<>> => run' = u
    <3>1. run = t /\ pend[t] = NoOrder /\ \E frames : Continue(t, frames)
      BY <2>6 DEF CancelWhere, CancelProtective, At, CancelThen
    <3> QED BY <1>3, <3>1
  <2>7. CASE Timer
    <3>1. /\ run \in {"manage", Idle} /\ pend["manage"] = NoOrder
          /\ \E frames : Continue("manage", frames)
      BY <2>7 DEF Timer, Manage, Expire, Chase, ManageDone, SquareOff, Liquidate,
                  At, Free, CancelThen
    <3> QED BY <1>3, <3>1 DEF Task
  <2>8. CASE Update
    <3>1. run = Idle /\ pend["pump"] = NoOrder /\ \E frames : Continue("pump", frames)
      BY <2>8 DEF Update, FillUpdate, OrderUpdate, Free
    <3> QED BY <1>3, <3>1 DEF Task
  <2>9. CASE Kill \/ Flatten
    <3>1. run = Idle /\ pend["control"] = NoOrder /\ \E frames : Continue("control", frames)
      BY <2>9 DEF Kill, Flatten, Command, Free
    <3> QED BY <1>3, <3>1 DEF Task
  <2>10. CASE Resume \/ UNCHANGED vars
    BY <1>2, <2>10 DEF Resume, vars, tasks
  <2> QED BY <2>1, <2>2, <2>3, <2>4, <2>5, <2>6, <2>7, <2>8, <2>9, <2>10
          DEF Next, Step, Control
<1>6. halted' => \A u \in Task : pend'[u].kind # "child"
  <2>1. halted' = halted \/ Kill \/ Resume
    BY DEF Next, Step, Control, Market, Approval, Place, PlaceFails, OnOrderProgress,
           MaybeBracket, CancelWhere, CancelProtective, Timer, Manage, Expire, Chase,
           ManageDone, SquareOff, Liquidate, Update, FillUpdate, OrderUpdate, Flatten,
           vars, agent
  <2>2. CASE Resume
    BY <2>2 DEF Resume
  <2>3. CASE Kill
    <3>1. run = Idle /\ pend' = pend
      BY <2>3 DEF Kill, Command, Free, Continue
    <3>2. \A u \in Task : pend[u] = NoOrder
      BY <1>1, <1>2, <3>1
    <3> QED BY <3>1, <3>2, OrdersMade
  <2>4. CASE halted' = halted
    <3>1. halted => \A u \in Task : pend[u].kind # "child"
      BY DEF Atomic
    <3>2. ASSUME NEW i \in Intent, Approval(i)
          PROVE  ~halted
      BY <3>2 DEF Approval, Acceptable
    <3>3. ASSUME NEW t \in Task, NEW i \in Intent, ClaimsNext(t, i)
          PROVE  ~halted
      BY <3>3 DEF ClaimsNext, HasNext
    <3>4. ASSUME NEW t \in Task, Place(t)
          PROVE  \A u \in Task : pend'[u] = pend[u] \/ pend'[u].kind # "child"
      BY <1>1, <3>4, OrdersMade DEF Place
    <3> QED BY <2>4, <3>1, <3>2, <3>3, <3>4, StepKinds DEF Quiet
  <2> QED BY <2>1, <2>2, <2>3, <2>4
<1> QED BY <1>5, <1>6 DEF Atomic
-----------------------------------------------------------------------------
(* The theorems.                                                           *)

\* The agent starts with nothing of its own.
LEMMA InitIInv == Init => IInv
<1> SUFFICES ASSUME Init
             PROVE  IInv
  OBVIOUS
<1>1. book = <<>> /\ DOMAIN book = {} /\ book \in Seq(Order)
  BY DEF Init
<1>2. TypeOK
  <2>1. queue \in Seq(Message(DOMAIN book)) /\ <<>> \in Seq(Frame(DOMAIN book))
    BY EmptySeq DEF Init
  <2>2. stack \in [Task -> Seq(Frame(DOMAIN book))] /\ pend \in [Task -> Order]
    BY <2>1, OrdersMade DEF Init
  <2>3. plans \in [Intent -> [placed: Nat, advanced: SUBSET DOMAIN book]]
    BY DEF Init
  <2>4. DOMAIN working = {}
    BY DEF Init
  <2>5. /\ pos \in Int /\ nfills \in Nat /\ commands \in Nat /\ net \in Int
        /\ run \in Task \cup {Idle}
        /\ used = {} /\ attributed = {} /\ protective = {}
    BY DEF Init
  <2>6. halted \in BOOLEAN
    BY Zenon DEF Init
  <2> QED BY <1>1, <2>1, <2>2, <2>3, <2>4, <2>5, <2>6 DEF TypeOK
<1>3. \A t \in Task : pend[t] = NoOrder /\ stack[t] = <<>>
  BY DEF Init
<1>4. FilledWithin
  BY <1>1, <1>3, OrdersMade DEF FilledWithin
<1>5. SlicesOnce
  <2>1. \A i \in Intent : plans[i].placed <= SliceCount(i)
    BY SliceFacts DEF Init
  <2> QED BY <1>1, <1>3, <2>1, OrdersMade DEF SlicesOnce, Claimed, SameSlice
<1>6. Atomic
  BY <1>3, OrdersMade DEF Atomic
<1> QED BY <1>2, <1>4, <1>5, <1>6 DEF IInv

\* Every step preserves the inductive invariant.
LEMMA StepIInv == IInv /\ [Next]_vars => IInv'
  BY StepTyped, SlicesStep, AtomicStep DEF IInv, Typed

\* The inductive invariant holds in every state.
LEMMA Inductive == Spec => []IInv
  BY InitIInv, StepIInv, PTL DEF Spec

\* Every variable keeps its type, and what the agent remembers of orders is about
\* orders at the broker (execution.py, paper.py).
THEOREM TypeCorrect == Spec => []TypeOK
<1>1. IInv => TypeOK
  BY DEF IInv
<1> QED BY <1>1, Inductive, PTL

\* Two children of one approval never carry the same slice, at the broker or on
\* their way to it (execution.py _place_next_slice).
THEOREM SlicesAreOnce == Spec => []SlicesOnce
<1>1. IInv => SlicesOnce
  BY DEF IInv
<1> QED BY <1>1, Inductive, PTL

\* With atomic handlers (a replay, or no order limit) no child order reaches the
\* broker while execution is halted.
THEOREM HaltStopsAtomic == ~Throttled => (Spec => HaltStopsChildren)
<1> SUFFICES ASSUME ~Throttled
             PROVE  Spec => HaltStopsChildren
  OBVIOUS
<1>1. ASSUME IInv, [Next]_vars, halted
      PROVE  \A o \in DOMAIN book' \ DOMAIN book : book'[o].kind # "child"
  <2>1. Typed /\ SlicesOnce /\ \A u \in Task : pend[u].kind # "child"
    BY <1>1 DEF IInv, Typed, Atomic
  <2>2. CASE \E t \in Task : Place(t)
    BY <2>1, <2>2, SlicesPlaced DEF Kept
  <2>3. CASE \E i \in Intent : Approval(i)
    BY <2>3 DEF Approval, broker
  <2>4. CASE \E t \in Task, i \in Intent : ClaimsNext(t, i)
    BY <2>4 DEF ClaimsNext
  <2>5. CASE Quiet
    BY <2>5 DEF Quiet
  <2> QED BY <1>1, <2>1, <2>2, <2>3, <2>4, <2>5, StepKinds
<1>2. IInv /\ [Next]_vars =>
        [halted => \A o \in DOMAIN book' \ DOMAIN book : book'[o].kind # "child"]_vars
  BY <1>1
<1> QED BY <1>2, Inductive, PTL DEF Spec, HaltStopsChildren
-----------------------------------------------------------------------------
(* The approval gate.                                                      *)

\* A step that places no child sends nothing past the gate.
LEMMA QuietSent ==
  ASSUME Typed, Grows, \A o \in DOMAIN book' \ DOMAIN book : book'[o].kind # "child"
  PROVE  Sent' = Sent
<1>1. ChildIds' = ChildIds
  BY DEF ChildIds, Grows, Kept
<1>2. \A o \in ChildIds : book'[o].intent = book[o].intent /\ book'[o].slice = book[o].slice
  BY DEF ChildIds, Grows, Kept
<1> QED BY <1>1, <1>2 DEF Sent

\* The agent, with its limiter, its four tasks and its duplicated updates,
\* implements the gate: an approval is acted on once, and each of its slices
\* reaches the broker at most once.
THEOREM AgentImplementsGate == Spec => ImplementsGate
<1>1. Init => Gate!GateInit
  BY DEF Init, Gate!GateInit, Sent, ChildIds
<1>2. ASSUME IInv, [Next]_vars
      PROVE  [Gate!GateNext]_(Gate!gate)
  <2>1. Typed /\ SlicesOnce /\ Typed' /\ Grows
    BY <1>2, StepTyped DEF IInv, Typed
  <2>2. ASSUME NEW i \in Intent, Approval(i)
        PROVE  Gate!Accept(i)
    <3>1. i \notin used /\ used' = used \cup {i} /\ book' = book
      BY <2>2 DEF Approval, Acceptable, broker
    <3> QED BY <3>1 DEF Gate!Accept, Sent, ChildIds
  <2>3. CASE Quiet
    <3>1. Sent' = Sent /\ used' = used
      BY <2>1, <2>3, QuietSent DEF Quiet
    <3> QED BY <3>1 DEF Gate!gate
  <2>4. ASSUME NEW t \in Task, NEW i \in Intent, ClaimsNext(t, i)
        PROVE  UNCHANGED Gate!gate
    BY <2>4 DEF ClaimsNext, Sent, ChildIds, Gate!gate
  <2>5. ASSUME NEW t \in Task, Place(t)
        PROVE  [Gate!GateNext]_(Gate!gate)
    <3> DEFINE o == Len(book) + 1
               c == [id |-> o, intent |-> pend[t].intent, slice |-> pend[t].slice]
    <3>1. /\ DOMAIN book' = DOMAIN book \cup {o} /\ o \notin DOMAIN book
          /\ Kept(pend[t], book'[o])
          /\ \A x \in DOMAIN book : book'[x] = book[x]
      BY <2>1, <2>5, SlicesPlaced
    <3>2. used' = used
      BY <2>5 DEF Place
    <3>3. CASE pend[t].kind # "child"
      <4>1. Sent' = Sent
        BY <2>1, <3>1, <3>3, QuietSent DEF Kept
      <4> QED BY <3>2, <4>1 DEF Gate!gate
    <3>4. CASE pend[t].kind = "child"
      <4>1. Sent' = Sent \cup {c} /\ c \notin Sent
        <5> DEFINE made(x) == [id |-> x, intent |-> book[x].intent, slice |-> book[x].slice]
        <5>1. ChildIds' = ChildIds \cup {o} /\ o \notin ChildIds
          BY <3>1, <3>4 DEF ChildIds, Kept
        <5>2. \A x \in ChildIds : book'[x] = book[x]
          BY <3>1 DEF ChildIds
        <5>3. book'[o].intent = pend[t].intent /\ book'[o].slice = pend[t].slice
          BY <3>1 DEF Kept
        <5>4. Sent = {made(x) : x \in ChildIds}
          BY DEF Sent
        <5>5. c = [id |-> o, intent |-> book'[o].intent, slice |-> book'[o].slice]
          BY <5>3
        <5>6. Sent' = {[id |-> x, intent |-> book'[x].intent, slice |-> book'[x].slice] :
                         x \in ChildIds \cup {o}}
          BY <5>1 DEF Sent
        <5>7. \A s \in Sent : s.id \in ChildIds
          BY DEF Sent
        <5>8. c.id = o
          OBVIOUS
        <5>9. c \notin Sent
          BY <5>1, <5>7, <5>8
        <5> HIDE DEF c, o
        <5> QED BY <5>2, <5>4, <5>5, <5>6, <5>9
      <4>2. /\ c.intent \in used /\ c.intent \in Intent
            /\ c.slice \in 1..SliceCount(c.intent)
        <5>1. /\ pend[t].intent \in used
              /\ pend[t].slice \in 1..plans[pend[t].intent].placed
              /\ used \subseteq Intent
          BY <2>1, <3>4 DEF SlicesOnce, Claimed, Typed, TypeOK
        <5>2. /\ plans[pend[t].intent].placed \in Nat
              /\ plans[pend[t].intent].placed <= SliceCount(pend[t].intent)
              /\ SliceCount(pend[t].intent) \in Nat
          BY <2>1, <5>1, SliceFacts DEF SlicesOnce, Typed, TypeOK
        <5> QED BY <5>1, <5>2
      <4>3. \A d \in Sent : ~(d.intent = c.intent /\ d.slice = c.slice)
        BY <2>1, <3>4 DEF Sent, ChildIds, SlicesOnce, SameSlice
      <4>4. c.slice \in 1..[i \in Intent |-> SliceCount(i)][c.intent]
        BY <4>2
      <4> HIDE DEF c
      <4>5. Gate!Send(c)
        BY <3>2, <4>1, <4>2, <4>3, <4>4 DEF Gate!Send
      <4> QED BY <4>1, <4>5 DEF Gate!GateNext
    <3> QED BY <3>3, <3>4
  <2> QED BY <1>2, <2>1, <2>2, <2>3, <2>4, <2>5, StepKinds DEF Gate!GateNext
<1> QED BY <1>1, <1>2, Inductive, PTL DEF Spec, ImplementsGate, Gate!GateSpec
-----------------------------------------------------------------------------
(* What is on its way to the agent: reports that an order closed.          *)

\* An update, or a frame of a handler, says that order x closed; with b, that it
\* counts for the plan whatever the agent has forgotten of x.
Reports(m, x, b) == m.type = "order" /\ m.id = x /\ m.status \in Terminal /\ (b => m.tagged)
Resumes(f, x, b) == f.op = "progress" /\ f.id = x /\ f.status \in Terminal /\ (b => f.tagged)

Queued(q, x, b) == \E k \in 1..Len(q) : Reports(q[k], x, b)
Waiting(s, x, b) == \E k \in 1..Len(s) : Resumes(s[k], x, b)
Told(x, b) == Queued(queue, x, b) \/ \E t \in Task : Waiting(stack[t], x, b)

Closed(x) == book[x].status # "OPEN"
Ends(x) == book'[x].status # "OPEN"

\* A queue that grows, and one whose first update is taken.
LEMMA QueuedConcat ==
  ASSUME NEW S, NEW q \in Seq(S), NEW r \in Seq(S), NEW x, NEW b
  PROVE  Queued(q \o r, x, b) <=> Queued(q, x, b) \/ Queued(r, x, b)
<1> DEFINE u == q \o r
<1>1. /\ Len(q) \in Nat /\ Len(r) \in Nat /\ Len(u) = Len(q) + Len(r)
      /\ \A k \in 1..Len(q) : u[k] = q[k]
      /\ \A k \in 1..Len(r) : u[Len(q) + k] = r[k]
  BY ConcatProperties, LenProperties
<1> HIDE DEF u
<1>2. ASSUME NEW k \in 1..Len(u), Reports(u[k], x, b)
      PROVE  Queued(q, x, b) \/ Queued(r, x, b)
  <2>1. CASE k \in 1..Len(q)
    BY <1>1, <1>2, <2>1 DEF Queued
  <2>2. CASE k - Len(q) \in 1..Len(r)
    <3>1. u[k] = r[k - Len(q)]
      <4>1. k = Len(q) + (k - Len(q))
        BY <1>1
      <4> QED BY <1>1, <2>2, <4>1
    <3> QED BY <1>2, <2>2, <3>1 DEF Queued
  <2> QED BY <1>1, <2>1, <2>2
<1>3. ASSUME Queued(q, x, b) PROVE Queued(u, x, b)
  BY <1>1, <1>3 DEF Queued
<1>4. ASSUME Queued(r, x, b) PROVE Queued(u, x, b)
  <2>1. PICK k \in 1..Len(r) : Reports(r[k], x, b)
    BY <1>4 DEF Queued
  <2>2. Len(q) + k \in 1..Len(u) /\ u[Len(q) + k] = r[k]
    BY <1>1
  <2> QED BY <2>1, <2>2 DEF Queued
<1> QED BY <1>2, <1>3, <1>4 DEF u, Queued

\* One update, and no update.
LEMMA QueuedOne ==
  ASSUME NEW m, NEW x, NEW b
  PROVE  /\ Queued(<<m>>, x, b) <=> Reports(m, x, b)
         /\ ~Queued(<<>>, x, b)
  BY DEF Queued

\* A queue tells what its first update and the rest tell.
LEMMA QueuedTail ==
  ASSUME NEW S, NEW q \in Seq(S), q # <<>>, NEW x, NEW b
  PROVE  Queued(q, x, b) <=> Reports(Head(q), x, b) \/ Queued(Tail(q), x, b)
<1>1. /\ Head(q) \in S /\ Tail(q) \in Seq(S) /\ <<Head(q)>> \in Seq(S)
      /\ q = <<Head(q)>> \o Tail(q)
  BY HeadTailProperties, ConcatProperties
<1>2. Queued(<<Head(q)>> \o Tail(q), x, b) <=>
        Queued(<<Head(q)>>, x, b) \/ Queued(Tail(q), x, b)
  BY <1>1, QueuedConcat
<1> QED BY <1>1, <1>2, QueuedOne

\* The same of the frames of a handler.
LEMMA WaitingPush ==
  ASSUME NEW S, NEW f \in S, NEW s \in Seq(S), NEW x, NEW b
  PROVE  Waiting(<<f>> \o s, x, b) <=> Resumes(f, x, b) \/ Waiting(s, x, b)
<1> DEFINE u == <<f>> \o s
<1>1. /\ Len(s) \in Nat /\ Len(u) = Len(s) + 1 /\ u[1] = f
      /\ \A k \in 1..Len(s) : u[k + 1] = s[k]
  <2>1. <<f>> \in Seq(S) /\ Len(<<f>>) = 1 /\ <<f>>[1] = f
    OBVIOUS
  <2>2. Len(u) = 1 + Len(s) /\ u[1] = f /\ \A k \in 1..Len(s) : u[1 + k] = s[k]
    BY <2>1, ConcatProperties
  <2> QED BY <2>2, LenProperties
<1> HIDE DEF u
<1>2. ASSUME Waiting(u, x, b) PROVE Resumes(f, x, b) \/ Waiting(s, x, b)
  <2>1. PICK k \in 1..Len(u) : Resumes(u[k], x, b)
    BY <1>2 DEF Waiting
  <2>2. CASE k = 1
    BY <1>1, <2>1, <2>2
  <2>3. CASE k # 1
    <3>1. k - 1 \in 1..Len(s) /\ u[k] = s[k - 1]
      <4>1. k - 1 \in 1..Len(s) /\ k = (k - 1) + 1
        BY <1>1, <2>3
      <4> QED BY <1>1, <4>1
    <3> QED BY <2>1, <3>1 DEF Waiting
  <2> QED BY <2>2, <2>3
<1>3. ASSUME Resumes(f, x, b) PROVE Waiting(u, x, b)
  BY <1>1, <1>3 DEF Waiting
<1>4. ASSUME Waiting(s, x, b) PROVE Waiting(u, x, b)
  <2>1. PICK k \in 1..Len(s) : Resumes(s[k], x, b)
    BY <1>4 DEF Waiting
  <2>2. k + 1 \in 1..Len(u) /\ u[k + 1] = s[k]
    BY <1>1
  <2> QED BY <2>1, <2>2 DEF Waiting
<1> QED BY <1>2, <1>3, <1>4 DEF u

\* One frame, and no frame.
LEMMA WaitingOne ==
  ASSUME NEW f, NEW x, NEW b
  PROVE  /\ Waiting(<<f>>, x, b) <=> Resumes(f, x, b)
         /\ ~Waiting(<<>>, x, b)
  BY DEF Waiting

\* A handler tells what its first frame and the rest tell.
LEMMA WaitingTail ==
  ASSUME NEW S, NEW s \in Seq(S), s # <<>>, NEW x, NEW b
  PROVE  Waiting(s, x, b) <=> Resumes(Head(s), x, b) \/ Waiting(Tail(s), x, b)
<1>1. Head(s) \in S /\ Tail(s) \in Seq(S) /\ s = <<Head(s)>> \o Tail(s)
  BY HeadTailProperties, ConcatProperties
<1>2. Waiting(<<Head(s)>> \o Tail(s), x, b) <=> Resumes(Head(s), x, b) \/ Waiting(Tail(s), x, b)
  BY <1>1, WaitingPush
<1> QED BY <1>1, <1>2

\* Whom a frame or an update is about.
LEMMA AboutOne ==
  ASSUME NEW x, NEW b
  PROVE  /\ \A o, s, g : Resumes(Progress(o, s, g), x, b) <=> x = o /\ s \in Terminal /\ (b => g)
         /\ \A o, s, g : Reports(OrderOf(o, s, g), x, b) <=> x = o /\ s \in Terminal /\ (b => g)
         /\ \A o, q, s : ~Reports(FillOf(o, q, s), x, b)
         /\ \A op, ids, e : op # "progress" => ~Resumes(Loop(op, ids, e), x, b)
         /\ \A o, q : ~Resumes([op |-> "bracket", id |-> o, qty |-> q], x, b)
         /\ ~Resumes([op |-> "liquidate"], x, b)
  BY DEF Resumes, Reports, Progress, OrderOf, FillOf, Loop

\* What an event of order o tells: that it closed, if it did.
LEMMA EmittedTells ==
  ASSUME NEW o, NEW before \in Order, NEW after, Kept(before, after), before.status = "OPEN",
         NEW g \in BOOLEAN, NEW x, NEW b
  PROVE  Queued(Emitted(o, before, after, g), x, b)
           <=> x = o /\ after.status # "OPEN" /\ (b => g)
<1>1. after.status \in Status
  BY DEF Kept, Order
<1> DEFINE f == FillOf(o, after.filled - before.filled, after.side)
           m == OrderOf(o, after.status, g)
<1>2. /\ Queued(<<f, m>>, x, b) <=> Reports(f, x, b) \/ Reports(m, x, b)
      /\ Queued(<<m>>, x, b) <=> Reports(m, x, b)
      /\ ~Queued(<<>>, x, b)
  BY DEF Queued
<1>3. ~Reports(f, x, b) /\ (Reports(m, x, b) <=> x = o /\ after.status \in Terminal /\ (b => g))
  BY DEF Reports, FillOf, OrderOf
<1>4. after.status \in Terminal <=> after.status # "OPEN"
  BY <1>1 DEF Terminal
<1>5. \/ Emitted(o, before, after, g) = <<f, m>>
      \/ Emitted(o, before, after, g) = <<m>>
      \/ Emitted(o, before, after, g) = <<>> /\ after.status = "OPEN"
  BY DEF Emitted
<1> HIDE DEF f, m
<1> QED BY <1>2, <1>3, <1>4, <1>5

\* The same for an event the broker reports as a fill's: it is told to both readers.
LEMMA FilledTells ==
  ASSUME NEW o, NEW before \in Order, NEW after, Kept(before, after), before.status = "OPEN"
  PROVE  \A x, b : Queued(Emitted(o, before, after, TRUE), x, b) <=> x = o /\ after.status # "OPEN"
<1> SUFFICES ASSUME NEW x, NEW b
             PROVE  Queued(Emitted(o, before, after, TRUE), x, b) <=> x = o /\ after.status # "OPEN"
  OBVIOUS
<1> DEFINE g == TRUE
<1>1. g \in BOOLEAN /\ (b => g)
  OBVIOUS
<1> HIDE DEF g
<1>2. Queued(Emitted(o, before, after, g), x, b) <=> x = o /\ after.status # "OPEN" /\ (b => g)
  BY <1>1, EmittedTells
<1> QED BY <1>1, <1>2 DEF g
-----------------------------------------------------------------------------
(* What a step does to the orders, to the working set and to the reports.  *)

Others(t, x, b) == \E u \in Task \ {t} : Waiting(stack[u], x, b)

\* What is told by the queue, by one task, and by the others.
LEMMA ToldSplit ==
  ASSUME NEW t \in Task, NEW x, NEW b
  PROVE  Told(x, b) <=> Queued(queue, x, b) \/ Waiting(stack[t], x, b) \/ Others(t, x, b)
  BY DEF Told, Others

\* The same after a step that replaces the frames of one task.
LEMMA ToldAfter ==
  ASSUME NEW S, stack \in StackIn(S), NEW t \in Task, NEW frames,
         stack' = [stack EXCEPT ![t] = frames], NEW x, NEW b
  PROVE  Told(x, b)' <=> Queued(queue', x, b) \/ Waiting(frames, x, b) \/ Others(t, x, b)
<1>1. stack'[t] = frames /\ \A u \in Task \ {t} : stack'[u] = stack[u]
  BY DEF StackIn
<1> QED BY <1>1 DEF Told, Others

\* The plans, what waits for the limiter and what was approved.
planning == <<plans, pend, used>>

\* A step that touches neither orders nor reports.
SameNews == \A x, b : Told(x, b)' <=> Told(x, b)
Calm == UNCHANGED <<book, working>> /\ SameNews

\* An order that can fill is touched: what closes it is reported.
Touched(o) ==
  /\ o \in DOMAIN book /\ ~Closed(o)
  /\ DOMAIN book' = DOMAIN book /\ DOMAIN working' = DOMAIN working
  /\ \A x \in DOMAIN book : x # o => book'[x] = book[x]
  /\ \A x, b : Told(x, b)' <=> Told(x, b) \/ (x = o /\ Ends(o))
  /\ UNCHANGED planning

\* The agent cancels an order, and looks after it no longer.
Dropped(o) ==
  /\ o \in DOMAIN book /\ Ends(o)
  /\ DOMAIN book' = DOMAIN book /\ DOMAIN working' = DOMAIN working \ {o}
  /\ \A x \in DOMAIN book : x # o => book'[x] = book[x]
  /\ \A x, b : Told(x, b)' <=> Told(x, b) \/ x = o
  /\ UNCHANGED planning

\* A tick that fills or refuses an order reports what it closes.
LEMMA MarketTouches ==
  ASSUME Typed, NEW o \in DOMAIN book, Market(o)
  PROVE  Touched(o)
<1> DEFINE left == book[o].qty - book[o].filled
           qs == IF Partial THEN 1..left ELSE {left}
<1>1. /\ book \in Seq(Order) /\ book[o] \in Order /\ book[o].filled <= book[o].qty
      /\ book[o].status = "OPEN" /\ queue \in Seq(Message(DOMAIN book))
  BY ElementOfSeq, LenProperties DEF Typed, TypeOK, FilledWithin, Market, OpenOrders
<1>2. qs \in SUBSET (0..left)
  BY <1>1 DEF Order
<1>3. PICK after \in Fills(book[o], qs) :
        /\ book' = [book EXCEPT ![o] = after]
        /\ queue' = queue \o Emitted(o, book[o], after, TRUE)
  BY DEF Market
<1>4. Kept(book[o], after)
  BY <1>1, <1>2, FillsKept
<1>5. UNCHANGED <<working, plans, pend, used, stack>>
  BY DEF Market, agent, tasks
<1>6. DOMAIN book' = DOMAIN book /\ book'[o] = after /\ \A x \in DOMAIN book : x # o => book'[x] = book[x]
  BY <1>3
<1>7. ASSUME NEW x, NEW b
      PROVE  Told(x, b)' <=> Told(x, b) \/ (x = o /\ Ends(o))
  <2> DEFINE e == Emitted(o, book[o], after, TRUE)
  <2>1. e \in Seq(Message(DOMAIN book))
    BY <1>1, <1>4, EmittedTyped
  <2>2. Queued(e, x, b) <=> x = o /\ after.status # "OPEN"
    BY <1>1, <1>4, FilledTells
  <2> HIDE DEF e
  <2>3. Queued(queue \o e, x, b) <=> Queued(queue, x, b) \/ Queued(e, x, b)
    BY <1>1, <2>1, QueuedConcat
  <2>4. Queued(queue', x, b) <=> Queued(queue, x, b) \/ (x = o /\ Ends(o))
    BY <1>3, <1>6, <2>2, <2>3 DEF e, Ends
  <2> QED BY <1>5, <2>4 DEF Told
<1> QED BY <1>1, <1>5, <1>6, <1>7 DEF Touched, Closed, Ends, planning

\* cancel(o): the order is closed, unmanaged, and its end is reported.
LEMMA CancelDrops ==
  ASSUME Typed, NEW t \in Task, NEW o \in DOMAIN book,
         NEW rest \in Seq(Frame(DOMAIN book)), CancelThen(t, o, rest),
         \A x, b : Waiting(stack[t], x, b) <=> Waiting(rest, x, b),
         UNCHANGED <<used, plans>>
  PROVE  Dropped(o)
<1> DEFINE D == DOMAIN book
           f == Progress(o, book'[o].status, TRUE)
<1>1. Grows /\ DOMAIN book' = D
  BY CancelThenTyped DEF Typed
<1>2. /\ book \in Seq(Order) /\ book[o] \in Order /\ book[o].status \in Status
      /\ queue \in Seq(Message(D)) /\ stack \in StackIn(D)
  <2>1. book \in Seq(Order) /\ book[o] \in Order
    BY ElementOfSeq, LenProperties DEF Typed, TypeOK
  <2>2. book[o].status \in Status
    BY <2>1 DEF Order
  <2> QED BY <2>1, <2>2 DEF Typed, TypeOK, StackIn
<1>3. /\ book'[o].status \in Terminal
      /\ \A x \in D : x # o => book'[x] = book[x]
  <2>1. CASE book[o].status = "OPEN"
    <3>1. book' = [book EXCEPT ![o].status = "CANCELLED"]
      BY <2>1 DEF CancelThen, CancelledAt
    <3>2. book'[o].status = "CANCELLED" /\ \A x \in D : x # o => book'[x] = book[x]
      BY <1>2, <3>1 DEF Order
    <3> QED BY <3>2 DEF Terminal, Status
  <2>2. CASE book[o].status # "OPEN"
    BY <1>2, <2>2 DEF CancelThen, CancelledAt, Terminal
  <2> QED BY <2>1, <2>2
<1>4. DOMAIN working' = DOMAIN working \ {o}
  BY DEF CancelThen, Pop
<1>5. ASSUME NEW x, NEW b
      PROVE  Queued(queue', x, b) <=> Queued(queue, x, b) \/ (x = o /\ book[o].status = "OPEN")
  <2> DEFINE m == OrderOf(o, "CANCELLED", TRUE)
  <2>1. CASE book[o].status # "OPEN"
    <3>1. queue' = queue
      BY <1>2, <2>1, ConcatEmptySeq DEF CancelThen, CancelMsg
    <3> QED BY <2>1, <3>1
  <2>2. CASE book[o].status = "OPEN"
    <3>1. queue' = queue \o <<m>>
      BY <2>2 DEF CancelThen, CancelMsg
    <3>2. <<m>> \in Seq(Message(D))
      BY MessagesMade, SingletonSeq DEF Status
    <3>3. Reports(m, x, b) <=> x = o
      BY DEF Reports, OrderOf, Terminal, Status
    <3> HIDE DEF m
    <3>4. Queued(queue \o <<m>>, x, b) <=> Queued(queue, x, b) \/ Queued(<<m>>, x, b)
      BY <1>2, <3>2, QueuedConcat
    <3> QED BY <2>2, <3>1, <3>3, <3>4, QueuedOne
  <2> QED BY <2>1, <2>2
<1>6. ASSUME NEW x, NEW b
      PROVE  Told(x, b)' <=> Told(x, b) \/ x = o
  <2>1. f \in Frame(D)
    <3>1. book'[o].status \in Status
      BY <1>3 DEF Terminal
    <3> QED BY <3>1, FramesMade
  <2>2. Resumes(f, x, b) <=> x = o
    BY <1>3 DEF Resumes, Progress
  <2>3. stack' = [stack EXCEPT ![t] = <<f>> \o rest]
    BY DEF CancelThen, Continue
  <2> HIDE DEF f
  <2>4. Waiting(<<f>> \o rest, x, b) <=> Resumes(f, x, b) \/ Waiting(rest, x, b)
    BY <2>1, WaitingPush
  <2>5. Told(x, b)' <=> Queued(queue', x, b) \/ Waiting(<<f>> \o rest, x, b) \/ Others(t, x, b)
    BY <1>2, <2>3, ToldAfter
  <2> QED BY <1>5, <2>2, <2>4, <2>5, ToldSplit
<1>7. UNCHANGED planning /\ Ends(o)
  BY <1>3 DEF CancelThen, Continue, planning, Ends, Terminal
<1> QED BY <1>1, <1>3, <1>4, <1>6, <1>7 DEF Dropped
-----------------------------------------------------------------------------
\* A task whose frames tell what they told, while the queue stays.
LEMMA FramesCalm ==
  ASSUME Typed, NEW t \in Task, NEW frames, stack' = [stack EXCEPT ![t] = frames],
         \A x, b : Waiting(frames, x, b) <=> Waiting(stack[t], x, b),
         queue' = queue
  PROVE  SameNews
<1>1. stack \in StackIn(DOMAIN book)
  BY DEF Typed, TypeOK, StackIn
<1>2. ASSUME NEW x, NEW b
      PROVE  Told(x, b)' <=> Told(x, b)
  BY <1>1, ToldAfter, ToldSplit
<1> QED BY <1>2 DEF SameNews

\* The frame of another loop tells nothing.
LEMMA LoopFrames ==
  ASSUME Typed, NEW t \in Task, NEW op, At(t, op), op # "progress", NEW x, NEW b
  PROVE  /\ Waiting(stack[t], x, b) <=> Waiting(Tail(stack[t]), x, b)
         /\ \A o \in {"cancel", "oco", "manage"}, ids \in SUBSET DOMAIN book, e \in Nat :
              Waiting(<<Loop(o, ids, e)>> \o Tail(stack[t]), x, b) <=> Waiting(stack[t], x, b)
<1>1. stack[t] \in Seq(Frame(DOMAIN book)) /\ stack[t] # <<>> /\ Head(stack[t]).op = op
  BY DEF Typed, TypeOK, At
<1>2. ~Resumes(Head(stack[t]), x, b) /\ Tail(stack[t]) \in Seq(Frame(DOMAIN book))
  BY <1>1, HeadTailProperties DEF Resumes
<1>3. Waiting(stack[t], x, b) <=> Waiting(Tail(stack[t]), x, b)
  BY <1>1, <1>2, WaitingTail
<1>4. ASSUME NEW o \in {"cancel", "oco", "manage"}, NEW ids \in SUBSET DOMAIN book, NEW e \in Nat
      PROVE  Waiting(<<Loop(o, ids, e)>> \o Tail(stack[t]), x, b) <=> Waiting(Tail(stack[t]), x, b)
  <2>1. Loop(o, ids, e) \in Frame(DOMAIN book) /\ ~Resumes(Loop(o, ids, e), x, b)
    BY FramesMade DEF Resumes, Loop
  <2> HIDE DEF Loop
  <2> QED BY <1>2, <2>1, WaitingPush
<1> QED BY <1>3, <1>4

\* An approval, a placement that fails, a bracket and the loops that begin or end
\* tell nothing.
LEMMA QuietSteps ==
  ASSUME Typed,
         \/ \E i \in Intent : Approval(i)
         \/ \E t \in Task : PlaceFails(t) \/ MaybeBracket(t)
         \/ Manage \/ ManageDone \/ SquareOff \/ Kill \/ Resume \/ Flatten
         \/ UNCHANGED vars
  PROVE  Calm
<1> DEFINE liquidate == [op |-> "liquidate"]
<1>1. stack \in StackIn(DOMAIN book) /\ {"feed", "manage", "control"} \subseteq Task
  BY DEF Typed, TypeOK, StackIn, Task
<1>2. \A x, b : ~Waiting(<<>>, x, b)
  BY DEF Waiting
<1>3. UNCHANGED <<book, working, queue>>
  BY DEF Approval, PlaceFails, MaybeBracket, Manage, ManageDone, SquareOff, Kill, Resume,
         Flatten, vars, broker, agent
<1>4. ASSUME NEW t \in Task, stack[t] = <<>>, NEW op \in {"cancel", "manage"}, NEW ids,
             stack' = [stack EXCEPT ![t] = <<Loop(op, ids, 0)>>]
      PROVE  SameNews
  <2> DEFINE frames == <<Loop(op, ids, 0)>>
  <2>1. \A x, b : ~Waiting(frames, x, b) /\ ~Waiting(stack[t], x, b)
    BY <1>4 DEF Waiting, Resumes, Loop
  <2>2. queue' = queue /\ stack' = [stack EXCEPT ![t] = frames]
    BY <1>3, <1>4
  <2> HIDE DEF frames
  <2> QED BY <2>1, <2>2, FramesCalm
<1>5. ASSUME NEW t \in Task, NEW op \in {"bracket", "manage"}, At(t, op),
             stack' = [stack EXCEPT ![t] = Tail(stack[t])]
      PROVE  SameNews
  <2> DEFINE frames == Tail(stack[t])
  <2>1. \A x, b : Waiting(frames, x, b) <=> Waiting(stack[t], x, b)
    BY <1>5, LoopFrames
  <2>2. queue' = queue /\ stack' = [stack EXCEPT ![t] = frames]
    BY <1>3, <1>5
  <2> HIDE DEF frames
  <2> QED BY <2>1, <2>2, FramesCalm
<1>6. ASSUME stack' = stack
      PROVE  SameNews
  BY <1>3, <1>6 DEF SameNews, Told
<1>7. ASSUME NEW i \in Intent, Approval(i)
      PROVE  SameNews
  <2>1. stack["feed"] = <<>> /\ stack' = [stack EXCEPT !["feed"] = <<>>]
    BY <1>7 DEF Approval, Free, Await
  <2>2. stack' = stack
    BY <1>1, <2>1 DEF StackIn
  <2> QED BY <1>6, <2>2
<1>8. ASSUME NEW t \in Task, MaybeBracket(t)
      PROVE  SameNews
  BY <1>5, <1>8 DEF MaybeBracket, Await, Continue
<1>9. ASSUME SquareOff
      PROVE  SameNews
  <2> DEFINE frames == <<Loop("cancel", DOMAIN working, 0), liquidate>>
  <2>1. stack["manage"] = <<>> /\ stack' = [stack EXCEPT !["manage"] = frames]
    BY <1>9 DEF SquareOff, Free, Continue
  <2>2. \A x, b : ~Waiting(frames, x, b)
    BY DEF Waiting, Resumes, Loop
  <2> HIDE DEF frames
  <2> QED BY <1>1, <1>2, <1>3, <2>1, <2>2, FramesCalm
<1>10. CASE Manage
  BY <1>1, <1>3, <1>4, <1>10 DEF Manage, Free, Continue, Calm
<1>11. CASE ManageDone
  BY <1>1, <1>3, <1>5, <1>11 DEF ManageDone, Continue, Calm
<1>12. CASE Kill \/ Flatten
  BY <1>1, <1>3, <1>4, <1>12 DEF Kill, Flatten, Command, Free, Continue, Calm
<1>13. CASE Resume \/ UNCHANGED vars \/ \E t \in Task : PlaceFails(t)
  BY <1>3, <1>6, <1>13 DEF Resume, vars, tasks, PlaceFails, Calm
<1> QED BY <1>3, <1>7, <1>8, <1>9, <1>10, <1>11, <1>12, <1>13 DEF Calm

\* A fill that is read tells nothing of orders that closed.
LEMMA FillUpdateCalm ==
  ASSUME Typed, FillUpdate
  PROVE  Calm
<1> DEFINE m == Head(queue)
           bracket == [op |-> "bracket", id |-> m.id, qty |-> m.qty]
           frames == (IF net' = 0 THEN <<Loop("oco", protective, m.id)>> ELSE <<>>) \o <<bracket>>
<1>1. /\ "pump" \in Task /\ stack["pump"] = <<>> /\ stack \in StackIn(DOMAIN book)
      /\ queue \in Seq(Message(DOMAIN book)) /\ queue # <<>> /\ m.type = "fill"
      /\ stack' = [stack EXCEPT !["pump"] = frames] /\ queue' = Tail(queue)
      /\ UNCHANGED <<book, working>>
  BY DEF FillUpdate, Free, Task, Typed, TypeOK, StackIn, Continue, broker
<1>2. ASSUME NEW x, NEW b
      PROVE  Queued(queue', x, b) <=> Queued(queue, x, b)
  <2>1. ~Reports(Head(queue), x, b)
    BY <1>1 DEF Reports
  <2> QED BY <1>1, <2>1, QueuedTail
<1>3. ASSUME NEW x, NEW b
      PROVE  ~Waiting(frames, x, b) /\ ~Waiting(<<>>, x, b)
  <2> DEFINE oco == Loop("oco", protective, m.id)
             S == {oco, bracket}
  <2>1. ~Resumes(oco, x, b) /\ ~Resumes(bracket, x, b)
    BY DEF Resumes, Loop
  <2> HIDE DEF oco, bracket
  <2>2. <<bracket>> \in Seq(S) /\ oco \in S /\ <<>> \o <<bracket>> = <<bracket>>
    BY SingletonSeq, ConcatEmptySeq
  <2>3. ~Waiting(<<bracket>>, x, b) /\ ~Waiting(<<>>, x, b)
    BY <2>1, WaitingOne
  <2>4. ~Waiting(<<oco>> \o <<bracket>>, x, b)
    BY <2>1, <2>2, <2>3, WaitingPush
  <2> QED BY <2>2, <2>3, <2>4 DEF oco
<1> HIDE DEF frames
<1>4. ASSUME NEW x, NEW b
      PROVE  Told(x, b)' <=> Told(x, b)
  <2>1. Told(x, b)' <=> Queued(queue', x, b) \/ Waiting(frames, x, b) \/ Others("pump", x, b)
    BY <1>1, ToldAfter
  <2> QED BY <1>1, <1>2, <1>3, <2>1, ToldSplit
<1> QED BY <1>1, <1>4 DEF Calm, SameNews
-----------------------------------------------------------------------------
\* A turn of a loop over orders leaves the loop, skips an order or cancels it.
TurnOf(t, op, e) ==
  LET f == Head(stack[t])
      rest(o) == <<Loop(op, f.ids \ {o}, e)>> \o Tail(stack[t])
  IN \/ Continue(t, Tail(stack[t])) /\ UNCHANGED <<book, queue, working>>
     \/ \E o \in f.ids : CancelThen(t, o, rest(o))
     \/ \E o \in f.ids : Continue(t, rest(o)) /\ UNCHANGED <<book, queue, working>>

\* It drops an order, or leaves everything told.
LEMMA TurnDrops ==
  ASSUME Typed, NEW t \in Task, NEW op \in {"cancel", "oco", "manage"}, At(t, op),
         NEW e \in Nat, TurnOf(t, op, e), UNCHANGED <<used, plans>>
  PROVE  (Calm /\ UNCHANGED planning) \/ \E o \in DOMAIN book : Dropped(o)
<1> DEFINE D == DOMAIN book
           f == Head(stack[t])
           loop(o) == Loop(op, f.ids \ {o}, e)
           rest(o) == <<loop(o)>> \o Tail(stack[t])
           left == Tail(stack[t])
<1>1. f.ids \subseteq D /\ left \in Seq(Frame(D))
  BY AtTyped, FrameFields DEF Typed
<1>2. ASSUME NEW o \in f.ids
      PROVE  /\ rest(o) \in Seq(Frame(D)) /\ o \in D
             /\ \A x, b : Waiting(stack[t], x, b) <=> Waiting(rest(o), x, b)
  <2>1. loop(o) \in Frame(D) /\ f.ids \ {o} \in SUBSET D
    BY <1>1, FramesMade
  <2>2. ASSUME NEW x, NEW b
        PROVE  Waiting(stack[t], x, b) <=> Waiting(rest(o), x, b)
    BY <1>1, <2>1, LoopFrames
  <2> QED BY <1>1, <2>1, <2>2, PushTyped
<1>3. ASSUME NEW x, NEW b
      PROVE  Waiting(left, x, b) <=> Waiting(stack[t], x, b)
  BY <1>1, LoopFrames
<1>4. \/ Continue(t, left) /\ UNCHANGED <<book, queue, working>>
      \/ \E o \in f.ids : CancelThen(t, o, rest(o))
      \/ \E o \in f.ids : Continue(t, rest(o)) /\ UNCHANGED <<book, queue, working>>
  BY DEF TurnOf
<1> HIDE DEF left, rest
<1>5. ASSUME Continue(t, left), UNCHANGED <<book, queue, working>>
      PROVE  Calm /\ UNCHANGED planning
  <2>1. stack' = [stack EXCEPT ![t] = left] /\ pend' = pend
    BY <1>5 DEF Continue
  <2> QED BY <1>3, <1>5, <2>1, FramesCalm DEF Calm, planning
<1>6. ASSUME NEW o \in f.ids, Continue(t, rest(o)), UNCHANGED <<book, queue, working>>
      PROVE  Calm /\ UNCHANGED planning
  <2>1. stack' = [stack EXCEPT ![t] = rest(o)] /\ pend' = pend
    BY <1>6 DEF Continue
  <2> QED BY <1>2, <1>6, <2>1, FramesCalm DEF Calm, planning
<1>7. ASSUME NEW o \in f.ids, CancelThen(t, o, rest(o))
      PROVE  Dropped(o)
  BY <1>2, <1>7, CancelDrops
<1> QED BY <1>2, <1>4, <1>5, <1>6, <1>7

\* cancel_where, _cancel_protective and the deadline of a child.
LEMMA CancelSteps ==
  ASSUME Typed,
         Expire \/ \E t \in Task : CancelWhere(t) \/ CancelProtective(t)
  PROVE  (Calm /\ UNCHANGED planning) \/ \E o \in DOMAIN book : Dropped(o)
<1>1. ASSUME NEW t \in Task, CancelWhere(t)
      PROVE  At(t, "cancel") /\ TurnOf(t, "cancel", 0) /\ UNCHANGED <<used, plans>>
  BY <1>1 DEF CancelWhere, TurnOf
<1>2. ASSUME NEW t \in Task, CancelProtective(t)
      PROVE  /\ At(t, "oco") /\ TurnOf(t, "oco", Head(stack[t]).exclude)
             /\ UNCHANGED <<used, plans>> /\ Head(stack[t]).exclude \in Nat
  <2>1. Head(stack[t]).exclude \in Nat
    BY <1>2, AtTyped, FrameFields DEF CancelProtective, Typed
  <2> QED BY <1>2, <2>1 DEF CancelProtective, TurnOf
<1>3. ASSUME Expire
      PROVE  At("manage", "manage") /\ TurnOf("manage", "manage", 0) /\ UNCHANGED <<used, plans>>
  BY <1>3 DEF Expire, TurnOf
<1>4. "manage" \in Task
  BY DEF Task
<1> QED BY <1>1, <1>2, <1>3, <1>4, TurnDrops

\* A child is left alone, or chased one tick.
LEMMA ChaseSteps ==
  ASSUME Typed, Chase
  PROVE  (Calm /\ UNCHANGED planning) \/ \E o \in DOMAIN book : Touched(o) \/ Dropped(o)
<1> DEFINE D == DOMAIN book
           t == "manage"
           f == Head(stack[t])
           loop(o) == Loop("manage", f.ids \ {o}, 0)
           rest(o) == <<loop(o)>> \o Tail(stack[t])
<1>1. /\ t \in Task /\ At(t, "manage") /\ f.ids \subseteq D
      /\ Tail(stack[t]) \in Seq(Frame(D)) /\ UNCHANGED <<used, plans>>
  <2>1. t \in Task /\ At(t, "manage") /\ UNCHANGED <<used, plans>>
    BY DEF Chase, Task
  <2> QED BY <2>1, AtTyped, FrameFields DEF Typed
<1>2. PICK o \in f.ids :
        \/ Continue(t, rest(o)) /\ UNCHANGED <<broker, queue, working, attributed>>
        \/ /\ o \in DOMAIN working /\ book[o].status = "OPEN"
           /\ \E after \in Matched(book[o]) :
                /\ book' = [book EXCEPT ![o] = after]
                /\ queue' = queue \o Emitted(o, book[o], after, TRUE)
                                  \o <<OrderOf(o, after.status, TRUE)>>
                /\ Continue(t, <<Progress(o, after.status, TRUE)>> \o rest(o))
           /\ working' = [working EXCEPT ![o] = @ + 1]
  BY DEF Chase
<1>3. CASE Continue(t, rest(o)) /\ UNCHANGED <<broker, queue, working, attributed>>
  <2>1. TurnOf(t, "manage", 0)
    BY <1>3 DEF TurnOf, broker
  <2> QED BY <1>1, <2>1, TurnDrops
<1>4. CASE /\ o \in DOMAIN working /\ book[o].status = "OPEN"
           /\ \E after \in Matched(book[o]) :
                /\ book' = [book EXCEPT ![o] = after]
                /\ queue' = queue \o Emitted(o, book[o], after, TRUE)
                                  \o <<OrderOf(o, after.status, TRUE)>>
                /\ Continue(t, <<Progress(o, after.status, TRUE)>> \o rest(o))
           /\ working' = [working EXCEPT ![o] = @ + 1]
  <2>1. /\ book \in Seq(Order) /\ o \in D /\ book[o] \in Order /\ book[o].filled <= book[o].qty
        /\ queue \in Seq(Message(D)) /\ stack \in StackIn(D)
    BY <1>1, ElementOfSeq, LenProperties DEF Typed, TypeOK, FilledWithin, StackIn
  <2>2. PICK after \in Matched(book[o]) :
                /\ book' = [book EXCEPT ![o] = after]
                /\ queue' = queue \o Emitted(o, book[o], after, TRUE)
                                  \o <<OrderOf(o, after.status, TRUE)>>
                /\ Continue(t, <<Progress(o, after.status, TRUE)>> \o rest(o))
    BY <1>4
  <2>3. Kept(book[o], after) /\ after.status \in Status
    <3>1. Kept(book[o], after)
      BY <2>1, MatchedKept
    <3> QED BY <3>1 DEF Kept, Order
  <2> DEFINE e == Emitted(o, book[o], after, TRUE)
             m == OrderOf(o, after.status, TRUE)
             p == Progress(o, after.status, TRUE)
  <2>4. /\ e \in Seq(Message(D)) /\ <<m>> \in Seq(Message(D)) /\ p \in Frame(D)
        /\ rest(o) \in Seq(Frame(D))
    <3>1. loop(o) \in Frame(D)
      BY <1>1, <2>1, FramesMade
    <3>2. rest(o) \in Seq(Frame(D))
      BY <1>1, <3>1, PushTyped
    <3>3. m \in Message(D) /\ p \in Frame(D)
      BY <2>1, <2>3, MessagesMade, FramesMade
    <3>4. e \in Seq(Message(D))
      BY <2>1, <2>3, EmittedTyped
    <3> HIDE DEF e, m, p
    <3> QED BY <3>2, <3>3, <3>4, SingletonSeq
  <2>5. queue' = queue \o e \o <<m>> /\ stack' = [stack EXCEPT ![t] = <<p>> \o rest(o)]
    BY <2>2 DEF Continue
  <2>6. ASSUME NEW x, NEW b
        PROVE  /\ Queued(e, x, b) <=> x = o /\ after.status # "OPEN"
               /\ Reports(m, x, b) <=> x = o /\ after.status # "OPEN"
               /\ Resumes(p, x, b) <=> x = o /\ after.status # "OPEN"
               /\ Waiting(rest(o), x, b) <=> Waiting(stack[t], x, b)
    <3>1. Queued(e, x, b) <=> x = o /\ after.status # "OPEN"
      <4>1. book[o] \in Order /\ book[o].status = "OPEN" /\ Kept(book[o], after) /\ TRUE \in BOOLEAN
        BY <1>4, <2>1, <2>3
      <4>2. e = Emitted(o, book[o], after, TRUE)
        OBVIOUS
      <4> HIDE DEF e, m, p, rest
      <4>3. Queued(Emitted(o, book[o], after, TRUE), x, b) <=> x = o /\ after.status # "OPEN"
        BY <4>1, FilledTells
      <4> QED BY <4>2, <4>3
    <3>2. after.status \in Terminal <=> after.status # "OPEN"
      BY <2>3 DEF Terminal
    <3>3. /\ Reports(m, x, b) <=> x = o /\ after.status # "OPEN"
          /\ Resumes(p, x, b) <=> x = o /\ after.status # "OPEN"
      BY <3>2 DEF Reports, Resumes, OrderOf, Progress
    <3>4. Waiting(rest(o), x, b) <=> Waiting(stack[t], x, b)
      <4>1. f.ids \ {o} \in SUBSET D
        BY <1>1
      <4> QED BY <1>1, <4>1, LoopFrames
    <3> QED BY <3>1, <3>3, <3>4
  <2>7. book'[o] = after /\ DOMAIN book' = D /\ \A x \in D : x # o => book'[x] = book[x]
    BY <2>1, <2>2
  <2> HIDE DEF e, m, p, rest
  <2>8. ASSUME NEW x, NEW b
        PROVE  Told(x, b)' <=> Told(x, b) \/ (x = o /\ Ends(o))
    <3>1. Queued(queue', x, b) <=> Queued(queue, x, b) \/ (x = o /\ after.status # "OPEN")
      <4>1. queue \o e \in Seq(Message(D))
        BY <2>1, <2>4, ConcatProperties
      <4>2. Queued(queue', x, b) <=> Queued(queue \o e, x, b) \/ Queued(<<m>>, x, b)
        BY <2>4, <2>5, <4>1, QueuedConcat
      <4>3. Queued(queue \o e, x, b) <=> Queued(queue, x, b) \/ Queued(e, x, b)
        BY <2>1, <2>4, QueuedConcat
      <4> QED BY <2>6, <4>2, <4>3, QueuedOne
    <3>2. Waiting(<<p>> \o rest(o), x, b)
            <=> Waiting(stack[t], x, b) \/ (x = o /\ after.status # "OPEN")
      BY <2>4, <2>6, WaitingPush
    <3>3. Told(x, b)' <=> Queued(queue', x, b) \/ Waiting(<<p>> \o rest(o), x, b) \/ Others(t, x, b)
      BY <1>1, <2>1, <2>5, ToldAfter
    <3>4. Ends(o) <=> after.status # "OPEN"
      BY <2>7 DEF Ends
    <3>5. Told(x, b) <=> Queued(queue, x, b) \/ Waiting(stack[t], x, b) \/ Others(t, x, b)
      BY <1>1, ToldSplit
    <3> QED BY <3>1, <3>2, <3>3, <3>4, <3>5
  <2>9. DOMAIN working' = DOMAIN working /\ ~Closed(o) /\ UNCHANGED planning
    BY <1>1, <1>4, <2>2 DEF Closed, planning, Continue
  <2> QED BY <2>1, <2>7, <2>8, <2>9 DEF Touched
<1> QED BY <1>2, <1>3, <1>4
-----------------------------------------------------------------------------
\* An order o is new: tracked while it is open, and told of later if it is not,
\* with b only when tells holds.
Added(o, tells) ==
  /\ o \notin DOMAIN book /\ DOMAIN book' = DOMAIN book \cup {o}
  /\ \A x \in DOMAIN book : book'[x] = book[x]
  /\ DOMAIN working' = DOMAIN working \cup (IF Ends(o) THEN {} ELSE {o})
  /\ \A x, b : Told(x, b)' <=> Told(x, b) \/ (x = o /\ Ends(o) /\ (b => tells))

\* place_order: the events of the order, then its report, untagged.
LEMMA NewTells ==
  ASSUME Typed, NEW D, DOMAIN book \subseteq D, NEW o \in D, NEW before \in Order, NEW after,
         Kept(before, after), before.status = "OPEN",
         queue' = queue \o Emitted(o, before, after, FALSE)
                        \o <<OrderOf(o, after.status, FALSE)>>
  PROVE  \A x, b : Queued(queue', x, b)
                     <=> Queued(queue, x, b) \/ (x = o /\ after.status # "OPEN" /\ ~b)
<1> DEFINE e == Emitted(o, before, after, FALSE)
           m == OrderOf(o, after.status, FALSE)
<1>1. after.status \in Status /\ queue \in Seq(Message(D))
  BY Monotone DEF Kept, Order, Typed, TypeOK
<1>2. e \in Seq(Message(D)) /\ <<m>> \in Seq(Message(D))
  <2>1. e \in Seq(Message(D)) /\ m \in Message(D)
    BY <1>1, EmittedTyped, MessagesMade
  <2> HIDE DEF e, m
  <2> QED BY <2>1, SingletonSeq
<1>3. ASSUME NEW x, NEW b
      PROVE  /\ Queued(e, x, b) <=> x = o /\ after.status # "OPEN" /\ ~b
             /\ Reports(m, x, b) <=> x = o /\ after.status # "OPEN" /\ ~b
  <2>1. Queued(e, x, b) <=> x = o /\ after.status # "OPEN" /\ ~b
    BY EmittedTells
  <2>2. Reports(m, x, b) <=> x = o /\ after.status # "OPEN" /\ ~b
    BY <1>1 DEF Reports, OrderOf, Terminal
  <2> QED BY <2>1, <2>2
<1>4. queue' = queue \o e \o <<m>>
  OBVIOUS
<1> HIDE DEF e, m
<1>5. ASSUME NEW x, NEW b
      PROVE  Queued(queue', x, b)
               <=> Queued(queue, x, b) \/ (x = o /\ after.status # "OPEN" /\ ~b)
  <2> DEFINE q == queue \o e
             r == <<m>>
  <2>1. q \in Seq(Message(D)) /\ r \in Seq(Message(D)) /\ queue' = q \o r
    BY <1>1, <1>2, <1>4, ConcatProperties
  <2>2. Queued(q, x, b) <=> Queued(queue, x, b) \/ Queued(e, x, b)
    BY <1>1, <1>2, QueuedConcat
  <2>3. Queued(r, x, b) <=> Reports(m, x, b)
    BY QueuedOne
  <2> HIDE DEF q, r
  <2>4. Queued(q \o r, x, b) <=> Queued(q, x, b) \/ Queued(r, x, b)
    BY <2>1, QueuedConcat, Zenon
  <2> QED BY <1>3, <2>1, <2>2, <2>3, <2>4
<1> QED BY <1>5

\* _place: what the agent learns of a child or a stop that is filled as it is
\* placed, and of one that is refused.
LEMMA PlaceAdds ==
  ASSUME Typed, NEW t \in Task, Place(t), pend[t].status = "OPEN"
  PROVE  /\ Added(Len(book) + 1, book'[Len(book) + 1].status = "FILLED")
         /\ Kept(pend[t], book'[Len(book) + 1])
         /\ pend' = [pend EXCEPT ![t] = NoOrder] /\ UNCHANGED <<used, plans>>
<1> DEFINE o == Len(book) + 1
           before == pend[t]
           D == DOMAIN book
           D2 == DOMAIN book'
<1>1. before \in Order /\ before.filled <= before.qty /\ stack \in StackIn(D)
  BY DEF Typed, TypeOK, FilledWithin, Order, StackIn
<1>2. PICK after \in Placed(before) :
          /\ book' = Append(book, after)
          /\ queue' = queue \o Emitted(o, before, after, FALSE)
                            \o <<OrderOf(o, after.status, FALSE)>>
          /\ working' = IF Tracked(after) THEN Put(working, o, 0) ELSE working
          /\ stack' = [stack EXCEPT ![t] =
                         IF after.status = "FILLED"
                         THEN <<Progress(o, "FILLED", TRUE)>> \o @ ELSE @]
  BY DEF Place
<1>3. Kept(before, after) /\ after \in Order /\ after.status \in Status
  BY <1>1, PlacedKept DEF Kept, Order
<1>4. /\ Grows /\ D2 = D \cup {o} /\ o \notin D /\ book'[o] = after
      /\ \A x \in D : book'[x] = book[x]
  BY <1>2, <1>3, AppendGrows DEF Typed, TypeOK
<1>5. \A x, b : Queued(queue', x, b)
                  <=> Queued(queue, x, b) \/ (x = o /\ after.status # "OPEN" /\ ~b)
  BY <1>1, <1>2, <1>3, <1>4, NewTells, ZenonT(60)
<1> DEFINE p == Progress(o, "FILLED", TRUE)
           frames == IF after.status = "FILLED" THEN <<p>> \o stack[t] ELSE stack[t]
<1>6. ASSUME NEW x, NEW b
      PROVE  Waiting(frames, x, b) <=> Waiting(stack[t], x, b) \/ (x = o /\ after.status = "FILLED")
  <2>1. p \in Frame(D2) /\ stack[t] \in Seq(Frame(D2))
    BY <1>1, <1>4, FramesMade, Monotone DEF Status, StackIn
  <2>2. Resumes(p, x, b) <=> x = o
    BY DEF Resumes, Progress, Terminal, Status
  <2> HIDE DEF p
  <2>3. Waiting(<<p>> \o stack[t], x, b) <=> x = o \/ Waiting(stack[t], x, b)
    BY <2>1, <2>2, WaitingPush
  <2> QED BY <2>3
<1>7. stack' = [stack EXCEPT ![t] = frames]
  BY <1>2
<1> HIDE DEF frames
<1>8. Ends(o) <=> after.status # "OPEN"
  BY <1>4 DEF Ends
<1>9. ASSUME NEW x, NEW b
      PROVE  Told(x, b)' <=> Told(x, b) \/ (x = o /\ Ends(o) /\ (b => after.status = "FILLED"))
  <2>1. Told(x, b)' <=> Queued(queue', x, b) \/ Waiting(frames, x, b) \/ Others(t, x, b)
    BY <1>1, <1>7, ToldAfter
  <2> QED BY <1>5, <1>6, <1>8, <2>1, ToldSplit
<1>10. DOMAIN working' = DOMAIN working \cup (IF Ends(o) THEN {} ELSE {o})
  BY <1>2, <1>8 DEF Tracked, Put
<1>11. Kept(pend[t], book'[o]) /\ pend' = [pend EXCEPT ![t] = NoOrder] /\ UNCHANGED <<used, plans>>
  BY <1>3, <1>4 DEF Place
<1> QED BY <1>4, <1>9, <1>10, <1>11 DEF Added

\* liquidate() at the broker: an order the agent never sees open.
LEMMA LiquidateAdds ==
  ASSUME Typed, Liquidate
  PROVE  /\ UNCHANGED planning
         /\ Calm \/ /\ Added(Len(book) + 1, FALSE)
                    /\ book'[Len(book) + 1].kind = "liquidation"
                    /\ book'[Len(book) + 1].intent = NoIntent
                    /\ book'[Len(book) + 1].status # "OPEN"
<1> DEFINE o == Len(book) + 1
           before == Closing(pos)
           D == DOMAIN book
           left == Tail(stack["manage"])
<1>1. /\ "manage" \in Task /\ At("manage", "liquidate") /\ stack \in StackIn(D)
      /\ UNCHANGED <<used, plans, working>> /\ pend' = pend
      /\ stack' = [stack EXCEPT !["manage"] = left]
  BY DEF Task, Liquidate, Continue, agent, Typed, TypeOK, StackIn
<1>2. ASSUME NEW x, NEW b
      PROVE  Waiting(left, x, b) <=> Waiting(stack["manage"], x, b)
  BY <1>1, LoopFrames
<1> HIDE DEF left
<1>3. CASE UNCHANGED <<broker, queue>>
  <2>1. UNCHANGED <<book, queue>>
    BY <1>3 DEF broker
  <2> QED BY <1>1, <1>2, <2>1, FramesCalm DEF Calm, planning
<1>4. CASE \E after \in {Filled(before, before.qty)} \cup Refused(before) :
                /\ book' = Append(book, after)
                /\ Book(before, after)
                /\ queue' = queue \o Emitted(o, before, after, FALSE)
                                  \o <<OrderOf(o, after.status, FALSE)>>
  <2>1. PICK after \in {Filled(before, before.qty)} \cup Refused(before) :
                /\ book' = Append(book, after)
                /\ queue' = queue \o Emitted(o, before, after, FALSE)
                                  \o <<OrderOf(o, after.status, FALSE)>>
    BY <1>4
  <2>2. before \in Order /\ before.filled = 0 /\ before.qty \in Nat
    BY OrdersMade DEF Typed, TypeOK, Order
  <2>3. Kept(before, after) /\ after \in Order
    <3>1. before.qty \in 0..(before.qty - before.filled) /\ before.filled <= before.qty
      BY <2>2
    <3>2. Kept(before, after)
      BY <2>1, <2>2, <3>1, FilledKept, RefusedKept
    <3> QED BY <3>2 DEF Kept
  <2>4. before.status = "OPEN" /\ before.kind = "liquidation" /\ before.intent = NoIntent
    BY DEF Closing
  <2>5. after.kind = "liquidation" /\ after.intent = NoIntent /\ after.status # "OPEN"
    <3>1. after.kind = "liquidation" /\ after.intent = NoIntent
      BY <2>3, <2>4 DEF Kept
    <3>2. CASE after = Filled(before, before.qty)
      <4>1. before.filled + before.qty = before.qty
        BY <2>2
      <4>2. after.status = "FILLED"
        BY <2>2, <3>2, <4>1 DEF Filled, Order
      <4> QED BY <3>1, <4>2
    <3>3. CASE after \in Refused(before)
      BY <2>2, <3>1, <3>3 DEF Refused, Order
    <3> QED BY <2>1, <3>2, <3>3
  <2> HIDE DEF before
  <2>6. /\ Grows /\ DOMAIN book' = D \cup {o} /\ o \notin D /\ book'[o] = after
        /\ \A x \in D : book'[x] = book[x]
    BY <2>1, <2>3, AppendGrows DEF Typed, TypeOK
  <2>7. \A x, b : Queued(queue', x, b)
                    <=> Queued(queue, x, b) \/ (x = o /\ after.status # "OPEN" /\ ~b)
    BY <2>1, <2>2, <2>3, <2>4, <2>6, NewTells
  <2>8. Ends(o)
    BY <2>5, <2>6 DEF Ends
  <2>9. ASSUME NEW x, NEW b
        PROVE  Told(x, b)' <=> Told(x, b) \/ (x = o /\ Ends(o) /\ (b => FALSE))
    <3>1. Told(x, b)' <=> Queued(queue', x, b) \/ Waiting(left, x, b) \/ Others("manage", x, b)
      BY <1>1, ToldAfter
    <3> QED BY <1>1, <1>2, <2>5, <2>7, <2>8, <3>1, ToldSplit
  <2> QED BY <1>1, <2>5, <2>6, <2>8, <2>9 DEF Added, planning
<1>5. UNCHANGED <<broker, queue>>
      \/ \E after \in {Filled(before, before.qty)} \cup Refused(before) :
                /\ book' = Append(book, after)
                /\ Book(before, after)
                /\ queue' = queue \o Emitted(o, before, after, FALSE)
                                  \o <<OrderOf(o, after.status, FALSE)>>
  BY DEF Liquidate
<1> QED BY <1>3, <1>4, <1>5
-----------------------------------------------------------------------------
\* handle_update of an order: its report goes on as the frame of its handler, and
\* counts for the plan if it did, or if the agent manages the order.
LEMMA OrderUpdateHears ==
  ASSUME Typed, OrderUpdate
  PROVE  /\ UNCHANGED <<book, working>> /\ UNCHANGED planning
         /\ \A x, b : Told(x, b) => Told(x, b)'
         /\ \A x : Told(x, FALSE)' => Told(x, FALSE)
<1> DEFINE m == Head(queue)
           tagged == m.tagged \/ m.id \in DOMAIN working
           frames == <<Progress(m.id, m.status, tagged)>>
<1>1. /\ "pump" \in Task /\ stack["pump"] = <<>> /\ stack \in StackIn(DOMAIN book)
      /\ queue \in Seq(Message(DOMAIN book)) /\ queue # <<>> /\ m.type = "order"
      /\ stack' = [stack EXCEPT !["pump"] = frames] /\ queue' = Tail(queue)
      /\ UNCHANGED <<book, working>> /\ UNCHANGED planning
  BY DEF OrderUpdate, Free, Task, Typed, TypeOK, StackIn, Continue, broker, planning
<1>2. ASSUME NEW x, NEW b
      PROVE  /\ Told(x, b) <=> Queued(queue', x, b) \/ Others("pump", x, b)
                                \/ (x = m.id /\ m.status \in Terminal /\ (b => m.tagged))
             /\ Told(x, b)' <=> Queued(queue', x, b) \/ Others("pump", x, b)
                                \/ (x = m.id /\ m.status \in Terminal /\ (b => tagged))
  <2>1. Waiting(frames, x, b) <=> x = m.id /\ m.status \in Terminal /\ (b => tagged)
    <3> DEFINE p == Progress(m.id, m.status, tagged)
    <3>1. p.op = "progress" /\ p.id = m.id /\ p.status = m.status /\ p.tagged = tagged
      BY DEF Progress
    <3> HIDE DEF p, tagged
    <3>2. Resumes(p, x, b) <=> x = m.id /\ m.status \in Terminal /\ (b => tagged)
      BY <3>1 DEF Resumes
    <3> QED BY <3>2, WaitingOne DEF p
  <2>2. ~Waiting(stack["pump"], x, b)
    BY <1>1 DEF Waiting
  <2>3. Reports(m, x, b) <=> x = m.id /\ m.status \in Terminal /\ (b => m.tagged)
    BY <1>1 DEF Reports
  <2>4. Queued(queue, x, b) <=> Reports(m, x, b) \/ Queued(queue', x, b)
    BY <1>1, QueuedTail
  <2> HIDE DEF frames, m, tagged
  <2>5. Told(x, b)' <=> Queued(queue', x, b) \/ Waiting(frames, x, b) \/ Others("pump", x, b)
    BY <1>1, ToldAfter
  <2>6. Told(x, b) <=> Queued(queue, x, b) \/ Waiting(stack["pump"], x, b) \/ Others("pump", x, b)
    BY <1>1, ToldSplit
  <2> QED BY <2>1, <2>2, <2>3, <2>4, <2>5, <2>6
<1> QED BY <1>1, <1>2

\* _on_order_progress takes one frame, and what it told with it.
LEMMA ProgressForgets ==
  ASSUME Typed, NEW t \in Task, OnOrderProgress(t)
  PROVE  LET f == Head(stack[t]) IN
         /\ book' = book /\ used' = used /\ halted' = halted
         /\ f.id \in DOMAIN book /\ f.status \in Status
         /\ DOMAIN working' = DOMAIN working \ (IF f.status \in Terminal THEN {f.id} ELSE {})
         /\ \A x, b : Told(x, b) <=>
              Told(x, b)' \/ (x = f.id /\ f.status \in Terminal /\ (b => f.tagged))
<1> DEFINE f == Head(stack[t])
           rest == Tail(stack[t])
           D == DOMAIN book
<1>1. /\ stack[t] \in Seq(Frame(D)) /\ stack[t] # <<>> /\ f.op = "progress"
      /\ stack \in StackIn(D)
  BY DEF OnOrderProgress, At, Typed, TypeOK, StackIn
<1>2. f.id \in D /\ f.status \in Status
  <2>1. f \in Frame(D)
    BY <1>1, HeadTailProperties
  <2> HIDE DEF f
  <2> QED BY <1>1, <2>1, FrameFields
<1>3. stack' = [stack EXCEPT ![t] = rest] /\ queue' = queue
  BY DEF OnOrderProgress, Continue, Await
<1>4. ASSUME NEW x, NEW b
      PROVE  Told(x, b) <=> Told(x, b)' \/ (x = f.id /\ f.status \in Terminal /\ (b => f.tagged))
  <2>1. Waiting(stack[t], x, b) <=> Resumes(f, x, b) \/ Waiting(rest, x, b)
    BY <1>1, WaitingTail
  <2>2. Resumes(f, x, b) <=> x = f.id /\ f.status \in Terminal /\ (b => f.tagged)
    BY <1>1 DEF Resumes
  <2> HIDE DEF f, rest
  <2>3. Told(x, b)' <=> Queued(queue', x, b) \/ Waiting(rest, x, b) \/ Others(t, x, b)
    BY <1>1, <1>3, ToldAfter
  <2>4. Told(x, b) <=> Queued(queue, x, b) \/ Waiting(stack[t], x, b) \/ Others(t, x, b)
    BY ToldSplit
  <2> QED BY <1>3, <2>1, <2>2, <2>3, <2>4
<1>5. DOMAIN working' = DOMAIN working \ (IF f.status \in Terminal THEN {f.id} ELSE {})
  BY DEF OnOrderProgress, Pop
<1> QED BY <1>2, <1>4, <1>5 DEF OnOrderProgress, broker
-----------------------------------------------------------------------------
(* Who manages an order, and what has yet to be heard of it.               *)

\* A closed order is reported while the agent still manages it, and only a closed
\* one; an order that can fill is managed.
Accounted ==
  \A o \in DOMAIN book :
    /\ Told(o, FALSE) => Closed(o)
    /\ ~Closed(o) => o \in DOMAIN working
    /\ o \in DOMAIN working => ~Closed(o) \/ Told(o, FALSE)

\* News is of orders at the broker.
LEMMA ToldKnown ==
  ASSUME Typed, NEW x, NEW b, Told(x, b)
  PROVE  x \in DOMAIN book
<1>1. CASE Queued(queue, x, b)
  <2>1. PICK k \in 1..Len(queue) : Reports(queue[k], x, b)
    BY <1>1 DEF Queued
  <2>2. queue[k] \in Message(DOMAIN book)
    BY <2>1, ElementOfSeq DEF Typed, TypeOK
  <2> QED BY <2>1, <2>2, MessageFields DEF Reports
<1>2. CASE \E t \in Task : Waiting(stack[t], x, b)
  <2>1. PICK t \in Task : Waiting(stack[t], x, b)
    BY <1>2
  <2>2. PICK k \in 1..Len(stack[t]) : Resumes(stack[t][k], x, b)
    BY <2>1 DEF Waiting
  <2>3. stack[t] \in Seq(Frame(DOMAIN book))
    BY DEF Typed, TypeOK
  <2>4. stack[t][k] \in Frame(DOMAIN book)
    BY <2>2, <2>3, ElementOfSeq
  <2> QED BY <2>2, <2>4, FrameFields DEF Resumes
<1> QED BY <1>1, <1>2 DEF Told

\* The ways an action can bear on the orders and on the news of them.
LEMMA NewsKinds ==
  ASSUME Typed, \A t \in Task : pend[t] # NoOrder => pend[t].status = "OPEN", [Next]_vars
  PROVE  \/ Calm \/ OrderUpdate
         \/ \E o \in DOMAIN book : Touched(o) \/ Dropped(o)
         \/ \E t \in Task : Place(t) \/ OnOrderProgress(t)
         \/ Added(Len(book) + 1, FALSE)
  BY MarketTouches, CancelSteps, ChaseSteps, QuietSteps, FillUpdateCalm, LiquidateAdds
     DEF Next, Step, Timer, Update, Control

\* Every step keeps the account of who is managed and who is reported.
LEMMA AccountedStep ==
  ASSUME Typed, Accounted, \A t \in Task : pend[t] # NoOrder => pend[t].status = "OPEN", [Next]_vars
  PROVE  Accounted'
<1> USE DEF Accounted
<1>1. CASE Calm
  <2>1. \A o : Told(o, FALSE)' <=> Told(o, FALSE)
    BY <1>1 DEF Calm, SameNews
  <2>2. book' = book /\ working' = working
    BY <1>1 DEF Calm
  <2> QED BY <2>1, <2>2 DEF Closed
<1>2. CASE OrderUpdate
  <2>1. \A o : Told(o, FALSE)' <=> Told(o, FALSE)
    BY <1>2, OrderUpdateHears
  <2>2. book' = book /\ working' = working
    BY <1>2, OrderUpdateHears
  <2> QED BY <2>1, <2>2 DEF Closed
<1>3. ASSUME NEW o \in DOMAIN book, Touched(o)
      PROVE  Accounted'
  <2>1. \A x : Told(x, FALSE)' <=> Told(x, FALSE) \/ (x = o /\ Ends(o))
    BY <1>3 DEF Touched
  <2> QED BY <1>3, <2>1 DEF Touched, Closed, Ends
<1>4. ASSUME NEW o \in DOMAIN book, Dropped(o)
      PROVE  Accounted'
  <2>1. \A x : Told(x, FALSE)' <=> Told(x, FALSE) \/ x = o
    BY <1>4 DEF Dropped
  <2> QED BY <1>4, <2>1 DEF Dropped, Closed, Ends
<1>5. ASSUME NEW o, NEW tells, Added(o, tells)
      PROVE  Accounted'
  <2>1. \A x : Told(x, FALSE)' <=> Told(x, FALSE) \/ (x = o /\ Ends(o))
    BY <1>5 DEF Added
  <2>2. o \notin DOMAIN working /\ ~Told(o, FALSE)
    BY <1>5, ToldKnown DEF Added, Typed, TypeOK
  <2> QED BY <1>5, <2>1, <2>2 DEF Added, Closed, Ends
<1>6. ASSUME NEW t \in Task, OnOrderProgress(t)
      PROVE  Accounted'
  <2> DEFINE f == Head(stack[t])
  <2>1. /\ book' = book /\ f.id \in DOMAIN book
        /\ DOMAIN working' = DOMAIN working \ (IF f.status \in Terminal THEN {f.id} ELSE {})
    BY <1>6, ProgressForgets
  <2>2. \A x : Told(x, FALSE) <=> Told(x, FALSE)' \/ (x = f.id /\ f.status \in Terminal)
    BY <1>6, ProgressForgets
  <2> HIDE DEF f
  <2> QED BY <2>1, <2>2 DEF Closed
<1>7. ASSUME NEW t \in Task, Place(t)
      PROVE  Accounted'
  <2>1. pend[t].status = "OPEN"
    BY <1>7 DEF Place
  <2> QED BY <1>5, <1>7, <2>1, PlaceAdds
<1> QED BY <1>1, <1>2, <1>3, <1>4, <1>5, <1>6, <1>7, NewsKinds
-----------------------------------------------------------------------------
\* What a step may put before the limiter.
Pends(t) ==
  \/ pend'[t] = pend[t]
  \/ pend'[t] = NoOrder
  \/ \E i \in Intent, k \in Nat : pend'[t] = Child(i, k)
  \/ Brackets /\ \E i \in WithStop, q \in Nat : pend'[t] = Stop(i, q)

\* Every step puts an order the agent makes before the limiter, or none.
LEMMA PendsStep ==
  ASSUME Typed, [Next]_vars
  PROVE  \A t \in Task : Pends(t)
<1>1. pend \in [Task -> Order]
  BY DEF Typed, TypeOK
<1>2. CASE pend' = pend
  BY <1>2 DEF Pends
<1>3. ASSUME NEW i \in Intent, Approval(i)
      PROVE  \A t \in Task : Pends(t)
  BY <1>1, <1>3 DEF Approval, Await, Pends
<1>4. ASSUME NEW t \in Task, Place(t) \/ PlaceFails(t)
      PROVE  \A u \in Task : Pends(u)
  BY <1>1, <1>4 DEF Place, PlaceFails, Pends
<1>5. ASSUME NEW t \in Task, OnOrderProgress(t)
      PROVE  \A u \in Task : Pends(u)
  <2> DEFINE f == Head(stack[t])
             i == book[f.id].intent
  <2>1. CASE Continue(t, Tail(stack[t]))
    BY <1>2, <2>1 DEF Continue
  <2>2. CASE Releases(f) /\ Await(t, Tail(stack[t]), Child(i, plans[i].placed + 1))
    <3>1. i \in Intent /\ plans[i].placed + 1 \in Nat
      BY <2>2 DEF Releases, Typed, TypeOK
    <3>2. pend' = [pend EXCEPT ![t] = Child(i, plans[i].placed + 1)]
      BY <2>2 DEF Await
    <3> HIDE DEF i
    <3> QED BY <1>1, <3>1, <3>2, SMTT(30) DEF Pends
  <2> QED BY <1>5, <2>1, <2>2 DEF OnOrderProgress
<1>6. ASSUME NEW t \in Task, MaybeBracket(t)
      PROVE  \A u \in Task : Pends(u)
  <2> DEFINE f == Head(stack[t])
             i == book[f.id].intent
  <2>1. CASE Continue(t, Tail(stack[t]))
    BY <1>2, <2>1 DEF Continue
  <2>2. CASE Brackets /\ i \in WithStop /\ Await(t, Tail(stack[t]), Stop(i, f.qty))
    <3>1. f.qty \in Nat
      BY <1>6, AtTyped, FrameFields DEF MaybeBracket, Typed
    <3>2. pend' = [pend EXCEPT ![t] = Stop(i, f.qty)]
      BY <2>2 DEF Await
    <3> HIDE DEF i
    <3> QED BY <1>1, <2>2, <3>1, <3>2 DEF Pends
  <2> QED BY <1>6, <2>1, <2>2 DEF MaybeBracket
<1>7. CASE \/ \E o \in DOMAIN book : Market(o)
           \/ \E t \in Task : CancelWhere(t) \/ CancelProtective(t)
           \/ Timer \/ Update \/ Control \/ UNCHANGED vars
  <2>1. pend' = pend
    BY <1>7 DEF Market, CancelWhere, CancelProtective, CancelThen, Timer, Manage, Expire, Chase,
                ManageDone, SquareOff, Liquidate, Update, FillUpdate, OrderUpdate, Control, Kill,
                Resume, Flatten, Continue, tasks, vars
  <2> QED BY <1>2, <2>1
<1> QED BY <1>3, <1>4, <1>5, <1>6, <1>7 DEF Next, Step

\* An order that waits for the limiter has not met the market yet.
Fresh == \A t \in Task : pend[t] # NoOrder => pend[t].status = "OPEN"

\* Every step keeps it.
LEMMA FreshStep ==
  ASSUME Typed, Fresh, [Next]_vars
  PROVE  Fresh'
<1>1. \A t \in Task : Pends(t)
  BY PendsStep
<1>2. /\ \A i, k : Child(i, k).status = "OPEN"
      /\ \A i, q : Stop(i, q).status = "OPEN"
  BY DEF Child, Stop
<1> QED BY <1>1, <1>2 DEF Fresh, Pends
-----------------------------------------------------------------------------
(* The plans: what each waits for.                                         *)

\* An order is not cancelled by the call that places it.
LEMMA PlacedOutcome ==
  ASSUME NEW before \in Order, before.status = "OPEN", NEW after \in Placed(before)
  PROVE  after.status # "CANCELLED"
<1>1. before.filled \in Nat /\ before.qty \in Nat
  BY DEF Order
<1>2. CASE after = before
  BY <1>2
<1>3. CASE after \in Refused(before)
  BY <1>3 DEF Refused, Order
<1>4. ASSUME NEW q, after = Filled(before, q)
      PROVE  after.status # "CANCELLED"
  BY <1>4 DEF Filled, Order
<1> QED BY <1>2, <1>3, <1>4 DEF Placed, Matched, Fills

\* The children of a plan that have not released their successor.
Active(i) == {o \in DOMAIN book : IsChildOf(book[o], i) /\ o \notin plans[i].advanced}

\* A step that leaves the plans alone, and reports what it closes.
Steady ==
  /\ UNCHANGED planning
  /\ \A x \in DOMAIN book' \ DOMAIN book :
       book'[x].kind = "liquidation" /\ book'[x].intent = NoIntent
  /\ \A x \in DOMAIN book :
       /\ Closed(x) => Ends(x)
       /\ Told(x, TRUE) => Told(x, TRUE)'
       /\ book'[x].status = book[x].status \/ ~Ends(x) \/ Told(x, TRUE)'

\* Steps are steady, or place an order, or take up a plan.
LEMMA PlanKinds ==
  ASSUME Typed, Fresh, [Next]_vars
  PROVE  \/ Steady
         \/ \E t \in Task : Place(t) \/ OnOrderProgress(t)
         \/ Calm /\ \/ \E i \in Intent : Approval(i)
                    \/ \E t \in Task : PlaceFails(t) \/ MaybeBracket(t)
<1>1. ASSUME Calm, UNCHANGED planning
      PROVE  Steady
  BY <1>1 DEF Calm, SameNews, Steady, Closed, Ends
<1>2. ASSUME OrderUpdate
      PROVE  Steady
  <2>1. book' = book /\ UNCHANGED planning /\ \A x : Told(x, TRUE) => Told(x, TRUE)'
    BY <1>2, OrderUpdateHears
  <2> QED BY <2>1 DEF Steady, Closed, Ends
<1>3. ASSUME NEW o \in DOMAIN book, Touched(o)
      PROVE  Steady
  <2>1. \A x : Told(x, TRUE)' <=> Told(x, TRUE) \/ (x = o /\ Ends(o))
    BY <1>3 DEF Touched
  <2> QED BY <1>3, <2>1 DEF Touched, Steady, Closed, Ends
<1>4. ASSUME NEW o \in DOMAIN book, Dropped(o)
      PROVE  Steady
  <2>1. \A x : Told(x, TRUE)' <=> Told(x, TRUE) \/ x = o
    BY <1>4 DEF Dropped
  <2> QED BY <1>4, <2>1 DEF Dropped, Steady, Closed, Ends
<1>5. ASSUME Liquidate
      PROVE  Steady
  <2>1. CASE Calm
    BY <1>1, <1>5, <2>1, LiquidateAdds
  <2>2. CASE ~Calm
    <3> DEFINE o == Len(book) + 1
    <3>1. /\ UNCHANGED planning /\ Added(o, FALSE)
          /\ book'[o].kind = "liquidation" /\ book'[o].intent = NoIntent
      BY <1>5, <2>2, LiquidateAdds
    <3> HIDE DEF o
    <3>2. \A x : Told(x, TRUE) => Told(x, TRUE)'
      BY <3>1 DEF Added
    <3> QED BY <3>1, <3>2 DEF Added, Steady, Closed, Ends
  <2> QED BY <2>1, <2>2
<1>6. CASE \E o \in DOMAIN book : Market(o)
  BY <1>3, <1>6, MarketTouches
<1>7. CASE Expire \/ \E t \in Task : CancelWhere(t) \/ CancelProtective(t)
  BY <1>1, <1>4, <1>7, CancelSteps
<1>8. CASE Chase
  BY <1>1, <1>3, <1>4, <1>8, ChaseSteps
<1>9. CASE \/ FillUpdate \/ Manage \/ ManageDone \/ SquareOff
           \/ Kill \/ Resume \/ Flatten \/ UNCHANGED vars
  <2>1. UNCHANGED planning
    BY <1>9 DEF FillUpdate, Manage, ManageDone, SquareOff, Kill, Resume, Flatten, vars,
                agent, tasks, Continue, planning
  <2>2. Calm
    BY <1>9, FillUpdateCalm, QuietSteps
  <2> QED BY <1>1, <2>1, <2>2
<1> QED BY <1>2, <1>5, <1>6, <1>7, <1>8, <1>9, QuietSteps DEF Next, Step, Timer, Update, Control

\* No stop exists; a child that released its successor is closed; and a plan has
\* one child that has not, or one that waits for the limiter.
OneActive ==
  /\ \A o \in DOMAIN book : book[o].kind # "stop" /\ (book[o].intent \in Intent => book[o].kind = "child")
  /\ \A t \in Task : pend[t].kind # "stop" /\ (pend[t].intent \in Intent => pend[t].kind = "child")
  /\ \A i \in Intent :
       /\ \A o \in plans[i].advanced : Closed(o)
       /\ \A o, p \in Active(i) : o = p
       /\ \A t \in Task : IsChildOf(pend[t], i) => Active(i) = {}
       /\ \A t, u \in Task : IsChildOf(pend[t], i) /\ IsChildOf(pend[u], i) => t = u

\* No stop is placed beside the children.
NoStops == Brackets => WithStop = {}

\* A steady step, or one that at most gives a placement up.
LEMMA OneActiveKept ==
  ASSUME Typed, Grows, OneActive, plans' = plans,
         \A x \in DOMAIN book' \ DOMAIN book :
           book'[x].kind = "liquidation" /\ book'[x].intent = NoIntent,
         \A x \in DOMAIN book : Closed(x) => Ends(x),
         \A t \in Task : pend'[t] = pend[t] \/ pend'[t] = NoOrder
  PROVE  OneActive'
<1>1. ASSUME NEW i \in Intent
      PROVE  Active(i)' = Active(i)
  <2>1. \A x \in DOMAIN book' : IsChildOf(book'[x], i) <=> x \in DOMAIN book /\ IsChildOf(book[x], i)
    BY DEF IsChildOf, Grows, Kept
  <2> QED BY <2>1 DEF Active, Grows
<1>2. \A o \in DOMAIN book' : book'[o].kind # "stop" /\ (book'[o].intent \in Intent => book'[o].kind = "child")
  BY ExecutionAssumption DEF OneActive, Grows, Kept
<1>3. NoOrder.kind = "none" /\ NoOrder.intent \notin Intent
  BY ExecutionAssumption DEF NoOrder
<1>4. ASSUME NEW i \in Intent
      PROVE  /\ \A o \in plans'[i].advanced : Closed(o)'
             /\ \A o, p \in Active(i)' : o = p
             /\ \A t \in Task : IsChildOf(pend'[t], i) => Active(i)' = {}
             /\ \A t, u \in Task : IsChildOf(pend'[t], i) /\ IsChildOf(pend'[u], i) => t = u
  <2>1. \A o \in plans'[i].advanced : Closed(o)'
    BY DEF OneActive, Closed, Ends, Typed, TypeOK
  <2>2. \A t \in Task : IsChildOf(pend'[t], i) => IsChildOf(pend[t], i)
    BY <1>3 DEF IsChildOf
  <2> QED BY <1>1, <2>1, <2>2 DEF OneActive
<1> QED BY <1>2, <1>3, <1>4 DEF OneActive

\* A plan that has no active child puts one before the limiter.
LEMMA OneActiveClaims ==
  ASSUME Typed, OneActive, book' = book, NEW t \in Task, NEW i \in Intent, NEW k,
         NEW gone \in SUBSET DOMAIN book,
         \A o \in gone : Closed(o),
         \A o \in DOMAIN book : IsChildOf(book[o], i) => o \in gone,
         \A u \in Task : ~IsChildOf(pend[u], i),
         pend' = pend \/ pend' = [pend EXCEPT ![t] = Child(i, k)],
         plans'[i].advanced = gone,
         \A j \in Intent \ {i} : plans'[j].advanced = plans[j].advanced
  PROVE  OneActive'
<1>1. Child(i, k).kind = "child" /\ Child(i, k).intent = i
  BY DEF Child
<1>2. \A u \in Task : \/ pend'[u] = pend[u]
                      \/ u = t /\ pend'[u].kind = "child" /\ pend'[u].intent = i
  BY <1>1 DEF Typed, TypeOK
<1>3. Active(i)' = {} /\ \A j \in Intent \ {i} : Active(j)' = Active(j)
  BY DEF Active
<1>4. ASSUME NEW j \in Intent
      PROVE  /\ \A o \in plans'[j].advanced : Closed(o)'
             /\ \A o, p \in Active(j)' : o = p
             /\ \A u \in Task : IsChildOf(pend'[u], j) => Active(j)' = {}
             /\ \A u, v \in Task : IsChildOf(pend'[u], j) /\ IsChildOf(pend'[v], j) => u = v
  <2>1. CASE j = i
    BY <1>2, <1>3, <2>1 DEF IsChildOf, Closed
  <2>2. CASE j # i
    BY <1>2, <1>3, <2>2 DEF IsChildOf, Closed, OneActive
  <2> QED BY <2>1, <2>2
<1> QED BY <1>2, <1>4 DEF OneActive

\* Every step keeps one active child, while no stop is placed.
LEMMA OneActiveStep ==
  ASSUME NoStops, Typed, SlicesOnce, Fresh, Accounted, OneActive, [Next]_vars
  PROVE  OneActive'
<1>1. Grows /\ Typed'
  BY StepTyped
<1>2. CASE Steady
  BY <1>1, <1>2, OneActiveKept DEF Steady, planning
<1>3. ASSUME NEW t \in Task, PlaceFails(t) \/ MaybeBracket(t), Calm
      PROVE  OneActive'
  <2>1. plans' = plans /\ book' = book
    BY <1>3 DEF PlaceFails, MaybeBracket, agent, broker
  <2>2. ~(Brackets /\ \E i \in WithStop, q \in Nat : pend'[t] = Stop(i, q))
    BY DEF NoStops
  <2>3. \A u \in Task : pend'[u] = pend[u] \/ pend'[u] = NoOrder
    <3>1. CASE PlaceFails(t)
      BY <3>1 DEF PlaceFails, Typed, TypeOK
    <3>2. CASE MaybeBracket(t)
      <4>1. Continue(t, Tail(stack[t]))
        BY <3>2 DEF MaybeBracket, NoStops
      <4> QED BY <4>1 DEF Continue
    <3> QED BY <1>3, <3>1, <3>2
  <2> QED BY <1>1, <2>1, <2>3, OneActiveKept DEF Closed, Ends
<1>4. ASSUME NEW i \in Intent, Approval(i)
      PROVE  OneActive'
  <2>1. /\ i \notin used /\ book' = book /\ "feed" \in Task
        /\ pend' = [pend EXCEPT !["feed"] = Child(i, 1)]
        /\ plans' = [plans EXCEPT ![i] = [placed |-> 1, advanced |-> {}]]
    BY <1>4 DEF Approval, Acceptable, broker, Task, Await
  <2>2. plans'[i].advanced = {} /\ \A j \in Intent \ {i} : plans'[j].advanced = plans[j].advanced
    BY <2>1 DEF Typed, TypeOK
  <2>3. \A o \in DOMAIN book : ~IsChildOf(book[o], i)
    BY <2>1 DEF SlicesOnce, Claimed, IsChildOf
  <2>4. \A u \in Task : ~IsChildOf(pend[u], i)
    BY <2>1 DEF SlicesOnce, Claimed, IsChildOf
  <2> QED BY <2>1, <2>2, <2>3, <2>4, OneActiveClaims
<1>5. ASSUME NEW t \in Task, Place(t)
      PROVE  OneActive'
  <2> DEFINE o == Len(book) + 1
  <2>1. pend[t].status = "OPEN"
    BY <1>5 DEF Fresh, Place
  <2>2. /\ o \notin DOMAIN book /\ DOMAIN book' = DOMAIN book \cup {o}
        /\ \A x \in DOMAIN book : book'[x] = book[x]
        /\ book'[o].kind = pend[t].kind /\ book'[o].intent = pend[t].intent
        /\ pend' = [pend EXCEPT ![t] = NoOrder] /\ plans' = plans
    BY <1>5, <2>1, PlaceAdds DEF Added, Kept
  <2> HIDE DEF o
  <2>3. NoOrder.kind = "none" /\ NoOrder.intent \notin Intent
    BY ExecutionAssumption DEF NoOrder
  <2>4. \A u \in Task : pend'[u] = IF u = t THEN NoOrder ELSE pend[u]
    BY <2>2 DEF Typed, TypeOK
  <2>5. \A i \in Intent : plans[i].advanced \subseteq DOMAIN book
    BY DEF Typed, TypeOK
  <2>6. ASSUME NEW i \in Intent
        PROVE  Active(i)' = Active(i) \cup (IF IsChildOf(pend[t], i) THEN {o} ELSE {})
    BY <2>2, <2>5 DEF Active, IsChildOf
  <2>7. ASSUME NEW i \in Intent
        PROVE  /\ \A x \in plans'[i].advanced : Closed(x)'
               /\ \A x, p \in Active(i)' : x = p
               /\ \A u \in Task : IsChildOf(pend'[u], i) => Active(i)' = {}
               /\ \A u, v \in Task : IsChildOf(pend'[u], i) /\ IsChildOf(pend'[v], i) => u = v
    <3>1. \A u \in Task : IsChildOf(pend'[u], i) => u # t /\ IsChildOf(pend[u], i)
      BY <2>3, <2>4 DEF IsChildOf
    <3>2. \A x \in plans'[i].advanced : Closed(x)'
      BY <2>2, <2>5 DEF OneActive, Closed
    <3>3. CASE IsChildOf(pend[t], i)
      BY <2>6, <3>1, <3>2, <3>3 DEF OneActive
    <3>4. CASE ~IsChildOf(pend[t], i)
      BY <2>6, <3>1, <3>2, <3>4 DEF OneActive
    <3> QED BY <3>3, <3>4
  <2>8. \A x \in DOMAIN book' : book'[x].kind # "stop" /\ (book'[x].intent \in Intent => book'[x].kind = "child")
    BY <2>2 DEF OneActive
  <2>9. \A u \in Task : pend'[u].kind # "stop" /\ (pend'[u].intent \in Intent => pend'[u].kind = "child")
    BY <2>3, <2>4 DEF OneActive
  <2> QED BY <2>7, <2>8, <2>9 DEF OneActive
<1>6. ASSUME NEW t \in Task, OnOrderProgress(t)
      PROVE  OneActive'
  <2> DEFINE f == Head(stack[t])
             i == book[f.id].intent
  <2>1. book' = book /\ f.id \in DOMAIN book /\ (f.status \in Terminal => Closed(f.id))
    <3>1. f.status \in Terminal => Told(f.id, FALSE)
      BY <1>6, ProgressForgets
    <3> QED BY <1>6, <3>1, ProgressForgets DEF Accounted
  <2>2. CASE UNCHANGED plans /\ Continue(t, Tail(stack[t]))
    BY <1>1, <2>1, <2>2, OneActiveKept DEF Closed, Ends, Continue
  <2>3. ASSUME NEW k, Releases(f), pend' = pend \/ pend' = [pend EXCEPT ![t] = Child(i, k)],
               plans'[i].advanced = plans[i].advanced \cup {f.id},
               \A j \in Intent \ {i} : plans'[j].advanced = plans[j].advanced
        PROVE  OneActive'
    <3>1. i \in Intent /\ f.id \in Active(i) /\ Closed(f.id)
      BY <2>1, <2>3 DEF Releases, OneActive, Active, IsChildOf, Typed, TypeOK
    <3> DEFINE gone == plans[i].advanced \cup {f.id}
    <3>2. gone \in SUBSET DOMAIN book /\ \A x \in gone : Closed(x)
      BY <2>1, <3>1 DEF OneActive, Typed, TypeOK
    <3>3. \A x \in DOMAIN book : IsChildOf(book[x], i) => x \in gone
      BY <3>1 DEF OneActive, Active
    <3>4. \A u \in Task : ~IsChildOf(pend[u], i)
      BY <3>1 DEF OneActive
    <3>5. plans'[i].advanced = gone
      BY <2>3
    <3> HIDE DEF gone, i, f
    <3> QED BY <2>1, <2>3, <3>1, <3>2, <3>3, <3>4, <3>5, OneActiveClaims
  <2>4. CASE /\ Releases(f)
             /\ plans' = [plans EXCEPT ![i].advanced = @ \cup {f.id}]
             /\ Continue(t, Tail(stack[t]))
    <3>1. i \in Intent /\ plans \in [Intent -> [placed: Nat, advanced: SUBSET DOMAIN book]]
      BY <2>4 DEF Releases, Typed, TypeOK
    <3>2. /\ plans'[i].advanced = plans[i].advanced \cup {f.id}
          /\ \A j \in Intent \ {i} : plans'[j].advanced = plans[j].advanced
      BY <2>4, <3>1
    <3> QED BY <2>3, <2>4, <3>2 DEF Continue
  <2>5. CASE /\ Releases(f) /\ HasNext(i)
             /\ plans' = [plans EXCEPT ![i] =
                            [placed |-> @.placed + 1, advanced |-> @.advanced \cup {f.id}]]
             /\ Await(t, Tail(stack[t]), Child(i, plans[i].placed + 1))
    <3>1. i \in Intent /\ plans \in [Intent -> [placed: Nat, advanced: SUBSET DOMAIN book]]
      BY <2>5 DEF Releases, Typed, TypeOK
    <3>2. /\ plans'[i].advanced = plans[i].advanced \cup {f.id}
          /\ \A j \in Intent \ {i} : plans'[j].advanced = plans[j].advanced
      BY <2>5, <3>1
    <3> QED BY <2>3, <2>5, <3>2 DEF Await
  <2> QED BY <1>6, <2>2, <2>4, <2>5 DEF OnOrderProgress
<1> QED BY <1>2, <1>3, <1>4, <1>5, <1>6, PlanKinds
-----------------------------------------------------------------------------
\* A plan goes on: it is complete, or its next child waits for the limiter, or a
\* child is open, was refused as it was placed, or has its end reported to the plan.
Moving(i) ==
  \/ plans[i].placed = SliceCount(i)
  \/ \E t \in Task : IsChildOf(pend[t], i)
  \/ \E o \in Active(i) : ~Closed(o) \/ book[o].status = "REJECTED" \/ Told(o, TRUE)

PlansMove == ~halted /\ \A i \in used : Moving(i)

\* The calls of the broker succeed and nobody kills.
Undisturbed == ~Faulty /\ "KILL" \notin Controls

\* A step that leaves the plan of i alone.
LEMMA MovingKept ==
  ASSUME Grows, NEW i \in Intent, Moving(i), plans'[i] = plans[i],
         \A t \in Task : IsChildOf(pend[t], i) => pend'[t] = pend[t],
         \A x \in DOMAIN book :
           /\ Told(x, TRUE) => Told(x, TRUE)'
           /\ book'[x].status = book[x].status \/ ~Ends(x) \/ Told(x, TRUE)'
  PROVE  Moving(i)'
<1>1. CASE plans[i].placed = SliceCount(i)
  BY <1>1 DEF Moving, SliceCount
<1>2. CASE \E t \in Task : IsChildOf(pend[t], i)
  BY <1>2 DEF Moving
<1>3. ASSUME NEW o \in Active(i), ~Closed(o) \/ book[o].status = "REJECTED" \/ Told(o, TRUE)
      PROVE  Moving(i)'
  <2>1. o \in Active(i)'
    BY DEF Active, IsChildOf, Grows, Kept
  <2>2. ~Closed(o)' \/ book'[o].status = "REJECTED" \/ Told(o, TRUE)'
    BY <1>3 DEF Active, Closed, Ends
  <2> QED BY <2>1, <2>2 DEF Moving
<1> QED BY <1>1, <1>2, <1>3 DEF Moving

\* Every step keeps plans going, while calls succeed and nobody kills.
LEMMA PlansMoveStep ==
  ASSUME Undisturbed, Typed, SlicesOnce, Fresh, Accounted, PlansMove, [Next]_vars
  PROVE  PlansMove'
<1>1. Grows /\ used \subseteq Intent
  BY StepTyped DEF Typed, TypeOK
<1>2. ~halted'
  BY DEF PlansMove, Undisturbed, Next, Step, Market, Approval, Place, PlaceFails,
         OnOrderProgress, MaybeBracket, CancelWhere, CancelProtective, Timer, Manage, Expire,
         Chase, ManageDone, SquareOff, Liquidate, Update, FillUpdate, OrderUpdate, Control,
         Kill, Command, Resume, Flatten, agent, vars
<1>3. CASE Steady
  <2>1. used' = used /\ plans' = plans /\ pend' = pend
    BY <1>3 DEF Steady, planning
  <2> QED BY <1>1, <1>2, <1>3, <2>1, MovingKept DEF Steady, PlansMove
<1>4. ASSUME NEW t \in Task, MaybeBracket(t), Calm
      PROVE  PlansMove'
  <2>1. /\ used' = used /\ plans' = plans /\ book' = book /\ pend[t] = NoOrder
        /\ \A u \in Task \ {t} : pend'[u] = pend[u]
    BY <1>4 DEF MaybeBracket, agent, broker, At, Await, Continue, Typed, TypeOK
  <2>2. \A i : ~IsChildOf(NoOrder, i)
    BY DEF NoOrder, IsChildOf
  <2>3. \A x : Told(x, TRUE) => Told(x, TRUE)'
    BY <1>4 DEF Calm, SameNews
  <2> QED BY <1>1, <1>2, <2>1, <2>2, <2>3, MovingKept DEF PlansMove
<1>5. ASSUME NEW i \in Intent, Approval(i), Calm
      PROVE  PlansMove'
  <2>1. /\ used' = used \cup {i} /\ book' = book /\ pend["feed"] = NoOrder /\ "feed" \in Task
        /\ pend' = [pend EXCEPT !["feed"] = Child(i, 1)]
        /\ plans' = [plans EXCEPT ![i] = [placed |-> 1, advanced |-> {}]]
    BY <1>5 DEF Approval, broker, Free, Await, Task
  <2>2. pend'["feed"] = Child(i, 1) /\ \A u \in Task \ {"feed"} : pend'[u] = pend[u]
    BY <2>1 DEF Typed, TypeOK
  <2>3. \A j : ~IsChildOf(NoOrder, j)
    BY DEF NoOrder, IsChildOf
  <2>4. IsChildOf(Child(i, 1), i)
    BY DEF Child, IsChildOf
  <2>5. Moving(i)'
    BY <2>1, <2>2, <2>4 DEF Moving
  <2>6. \A x : Told(x, TRUE) => Told(x, TRUE)'
    BY <1>5 DEF Calm, SameNews
  <2>7. ASSUME NEW j \in used, j # i
        PROVE  Moving(j)'
    <3>1. plans'[j] = plans[j] /\ j \in Intent /\ Moving(j)
      BY <1>1, <2>1, <2>7 DEF PlansMove, Typed, TypeOK
    <3> QED BY <1>1, <2>1, <2>2, <2>3, <2>6, <3>1, MovingKept
  <2> QED BY <1>2, <2>1, <2>5, <2>7 DEF PlansMove
<1>6. ASSUME NEW t \in Task, Place(t)
      PROVE  PlansMove'
  <2>0. PICK o : o = Len(book) + 1
    OBVIOUS
  <2>1. pend[t].status = "OPEN" /\ pend[t] \in Order
    BY <1>6 DEF Fresh, Place, Typed, TypeOK
  <2>2. Added(o, book'[o].status = "FILLED") /\ Kept(pend[t], book'[o])
        /\ pend' = [pend EXCEPT ![t] = NoOrder] /\ UNCHANGED <<used, plans>>
    BY <1>6, <2>0, <2>1, PlaceAdds
  <2>3. book'[o].status # "CANCELLED" /\ book'[o].status \in Status
    <3>1. PICK after \in Placed(pend[t]) : book' = Append(book, after)
      BY <1>6 DEF Place
    <3>2. book'[o] = after
      BY <2>0, <3>1, AppendProperties DEF Typed, TypeOK
    <3> QED BY <2>1, <2>2, <3>2, PlacedOutcome DEF Kept, Order
  <2>4. /\ DOMAIN book' = DOMAIN book \cup {o} /\ o \notin DOMAIN book
        /\ \A x \in DOMAIN book : book'[x] = book[x]
        /\ \A x : Told(x, TRUE) => Told(x, TRUE)'
        /\ book'[o].status = "FILLED" => Told(o, TRUE)'
    <3>1. \A x : Told(x, TRUE)' <=> Told(x, TRUE) \/ (x = o /\ Ends(o) /\ book'[o].status = "FILLED")
      BY <2>2 DEF Added
    <3> QED BY <2>2, <3>1 DEF Added, Ends
  <2>5. ASSUME NEW i \in used, ~IsChildOf(pend[t], i)
        PROVE  Moving(i)'
    <3>1. \A u \in Task : IsChildOf(pend[u], i) => pend'[u] = pend[u]
      BY <2>2, <2>5 DEF Typed, TypeOK
    <3>2. plans'[i] = plans[i] /\ i \in Intent /\ Moving(i)
      BY <1>1, <2>2 DEF PlansMove
    <3> QED BY <1>1, <2>4, <3>1, <3>2, MovingKept
  <2>6. ASSUME NEW i \in used, IsChildOf(pend[t], i)
        PROVE  Moving(i)'
    <3>1. plans'[i].advanced \subseteq DOMAIN book
      BY <1>1, <2>2 DEF Typed, TypeOK
    <3>2. o \in Active(i)'
      BY <2>2, <2>4, <2>6, <3>1 DEF Active, IsChildOf, Kept
    <3>3. ~Closed(o)' \/ book'[o].status = "REJECTED" \/ Told(o, TRUE)'
      BY <2>3, <2>4 DEF Closed, Status
    <3> QED BY <3>2, <3>3 DEF Moving
  <2> QED BY <1>2, <2>2, <2>5, <2>6 DEF PlansMove
<1>7. ASSUME NEW t \in Task, OnOrderProgress(t)
      PROVE  PlansMove'
  <2> DEFINE f == Head(stack[t])
             i == book[f.id].intent
             claims == HasNext(i) /\ Releases(f)
  <2>1. /\ book' = book /\ used' = used /\ f.id \in DOMAIN book
        /\ \A x : Told(x, TRUE) <=> Told(x, TRUE)' \/ (x = f.id /\ f.status \in Terminal /\ f.tagged)
    BY <1>7, ProgressForgets
  <2>2. f.status \in Terminal => Closed(f.id)
    <3>1. f.status \in Terminal => Told(f.id, FALSE)
      BY <1>7, ProgressForgets
    <3> QED BY <2>1, <3>1 DEF Accounted
  <2>3. pend[t] = NoOrder /\ \A u \in Task \ {t} : pend'[u] = pend[u]
    BY <1>7 DEF OnOrderProgress, At, Await, Continue, Typed, TypeOK
  <2>4. \A j : ~IsChildOf(NoOrder, j)
    BY DEF NoOrder, IsChildOf
  <2>5. Releases(f) => i \in used
    BY DEF Releases
  <2>6. /\ plans \in [Intent -> [placed: Nat, advanced: SUBSET DOMAIN book]]
        /\ pend \in [Task -> Order]
    BY DEF Typed, TypeOK
  \* the plan of another intent stays, and that of i is told
  <2>7. ASSUME NEW j \in used, ~(Releases(f) /\ j = i)
        PROVE  plans'[j] = plans[j]
    BY <1>1, <1>7, <2>5, <2>6, <2>7 DEF OnOrderProgress
  <2>8. ASSUME Releases(f), HasNext(i)
        PROVE  \E u \in Task : IsChildOf(pend'[u], i)
    <3>1. pend' = [pend EXCEPT ![t] = Child(i, plans[i].placed + 1)]
      BY <1>7, <2>8 DEF OnOrderProgress, Await
    <3>2. pend'[t] = Child(i, plans[i].placed + 1)
      BY <2>6, <3>1
    <3> QED BY <3>2 DEF Child, IsChildOf
  <2>9. ASSUME Releases(f), ~HasNext(i)
        PROVE  plans'[i].placed = SliceCount(i)
    <3>1. i \in Intent /\ plans[i].placed \in Nat /\ SliceCount(i) \in Nat
          /\ plans[i].placed <= SliceCount(i)
      BY <1>1, <2>5, <2>6, <2>9, SliceFacts DEF SlicesOnce
    <3>2. plans'[i].placed = plans[i].placed
      <4>1. plans' = [plans EXCEPT ![i].advanced = @ \cup {f.id}]
        BY <1>7, <2>9 DEF OnOrderProgress
      <4> HIDE DEF i
      <4> QED BY <2>6, <3>1, <4>1
    <3>3. ~(plans[i].placed < SliceCount(i))
      BY <2>9 DEF HasNext, PlansMove
    <3> HIDE DEF i
    <3> QED BY <3>1, <3>2, <3>3
  <2>10. ASSUME NEW j \in used, ~(Releases(f) /\ j = i), f.id \notin Active(j)
                                  \/ ~(f.status \in Terminal /\ f.tagged)
        PROVE  Moving(j)'
    <3>1. plans'[j] = plans[j] /\ j \in Intent /\ Moving(j)
      BY <1>1, <2>7, <2>10 DEF PlansMove
    <3>2. CASE plans[j].placed = SliceCount(j)
      BY <3>1, <3>2 DEF Moving, SliceCount
    <3>3. CASE \E u \in Task : IsChildOf(pend[u], j)
      BY <2>3, <2>4, <3>3 DEF Moving
    <3>4. ASSUME NEW x \in Active(j), ~Closed(x) \/ book[x].status = "REJECTED" \/ Told(x, TRUE)
          PROVE  Moving(j)'
      <4>1. x \in Active(j)'
        BY <2>1, <3>1 DEF Active, IsChildOf
      <4>2. ~Closed(x)' \/ book'[x].status = "REJECTED" \/ Told(x, TRUE)'
        <5>1. Closed(x)' <=> Closed(x)
          BY <2>1 DEF Closed
        <5>2. book' = book
          BY <2>1
        <5>3. Told(x, TRUE) => Told(x, TRUE)'
          <6>1. Told(x, TRUE) <=> Told(x, TRUE)' \/ (x = f.id /\ f.status \in Terminal /\ f.tagged)
            BY <2>1
          <6>2. x = f.id => f.id \in Active(j)
            OBVIOUS
          <6>3. ~(x = f.id /\ f.status \in Terminal /\ f.tagged)
            BY <2>10, <6>2, Zenon
          <6> QED BY <6>1, <6>3
        <5> QED BY <3>4, <5>1, <5>2, <5>3
      <4> QED BY <4>1, <4>2 DEF Moving
    <3> QED BY <3>1, <3>2, <3>3, <3>4 DEF Moving
  \* a tagged report of an active child releases its successor
  <2>11. ASSUME NEW j \in used, f.id \in Active(j), f.status \in Terminal, f.tagged
         PROVE  Releases(f) /\ j = i
    BY <1>1, <2>11 DEF Releases, Active, IsChildOf
  <2>12. ASSUME NEW j \in used, j = i, Releases(f)
         PROVE  Moving(j)'
    <3>1. SliceCount(j)' = SliceCount(j)
      BY DEF SliceCount
    <3>2. CASE HasNext(i)
      <4>1. \E u \in Task : IsChildOf(pend'[u], j)
        BY <2>8, <2>12, <3>2
      <4> QED BY <4>1 DEF Moving
    <3>3. CASE ~HasNext(i)
      <4>1. plans'[j].placed = SliceCount(j)
        BY <2>9, <2>12, <3>3
      <4> QED BY <3>1, <4>1 DEF Moving
    <3> QED BY <3>2, <3>3
  <2> QED BY <1>2, <2>1, <2>10, <2>11, <2>12 DEF PlansMove
<1>8. ASSUME NEW t \in Task, PlaceFails(t)
      PROVE  FALSE
  BY <1>8 DEF PlaceFails, Undisturbed
<1> QED BY <1>3, <1>4, <1>5, <1>6, <1>7, <1>8, PlanKinds
-----------------------------------------------------------------------------
(* Fills on their way to the engine's position.                            *)

\* What the updates of a queue will add to the engine's position.
Signs(q) == [k \in DOMAIN q |-> Signed(q[k])]
Owed(q) == SumFunction(Signs(q))

\* The terms are integers, one per update.
LEMMA SignsTyped ==
  ASSUME NEW S, NEW q \in Seq(Message(S))
  PROVE  /\ Signs(q) \in Seq(Int) /\ Len(Signs(q)) = Len(q)
         /\ \A k \in 1..Len(q) : Signs(q)[k] = Signed(q[k])
<1>1. DOMAIN q = 1..Len(q) /\ Len(q) \in Nat /\ \A k \in 1..Len(q) : q[k] \in Message(S)
  BY LenProperties, ElementOfSeq
<1>2. ASSUME NEW m \in Message(S) PROVE Signed(m) \in Int
  BY MessageFields DEF Signed, BUY, SELL
<1>3. Signs(q) = [k \in 1..Len(q) |-> Signed(q[k])]
  BY <1>1 DEF Signs
<1>4. \A k \in 1..Len(q) : Signed(q[k]) \in Int
  BY <1>1, <1>2
<1>5. Signs(q) \in Seq(Int)
  BY <1>1, <1>3, <1>4, IsASeq
<1> QED BY <1>1, <1>3, <1>5, LenProperties

\* One queue after the other.
LEMMA OwedConcat ==
  ASSUME NEW S, NEW q \in Seq(Message(S)), NEW r \in Seq(Message(S))
  PROVE  Owed(q \o r) = Owed(q) + Owed(r)
<1> DEFINE u == q \o r
           a == Signs(q)
           b == Signs(r)
           c == Signs(u)
           d == a \o b
<1>1. /\ u \in Seq(Message(S)) /\ Len(u) = Len(q) + Len(r) /\ Len(q) \in Nat /\ Len(r) \in Nat
      /\ \A k \in 1..Len(q) : u[k] = q[k]
      /\ \A k \in 1..Len(r) : u[Len(q) + k] = r[k]
  BY ConcatProperties, LenProperties
<1>2. /\ a \in Seq(Int) /\ Len(a) = Len(q) /\ \A k \in 1..Len(q) : a[k] = Signed(q[k])
      /\ b \in Seq(Int) /\ Len(b) = Len(r) /\ \A k \in 1..Len(r) : b[k] = Signed(r[k])
  BY SignsTyped
<1>3. c \in Seq(Int) /\ Len(c) = Len(u) /\ \A k \in 1..Len(u) : c[k] = Signed(u[k])
  <2> HIDE DEF u
  <2> QED BY <1>1, SignsTyped
<1> HIDE DEF u, a, b, c
<1>4. /\ d \in Seq(Int) /\ Len(d) = Len(a) + Len(b)
      /\ \A k \in 1..Len(a) : d[k] = a[k]
      /\ \A k \in 1..Len(b) : d[Len(a) + k] = b[k]
  <2>1. d \in Seq(Int) /\ Len(d) = Len(a) + Len(b)
    BY <1>2, ConcatProperties
  <2>2. \A k \in 1..(Len(a) + Len(b)) : d[k] = IF k <= Len(a) THEN a[k] ELSE b[k - Len(a)]
    BY <1>2, ConcatProperties
  <2>3. Len(a) \in Nat /\ Len(b) \in Nat
    BY <1>2, LenProperties
  <2> HIDE DEF d
  <2>4. ASSUME NEW k \in 1..Len(a) PROVE d[k] = a[k]
    <3>1. k \in 1..(Len(a) + Len(b)) /\ k <= Len(a)
      BY <2>3
    <3> QED BY <2>2, <3>1
  <2>5. ASSUME NEW k \in 1..Len(b) PROVE d[Len(a) + k] = b[k]
    <3> DEFINE j == Len(a) + k
    <3>1. j \in 1..(Len(a) + Len(b)) /\ ~(j <= Len(a)) /\ j - Len(a) = k
      BY <2>3
    <3> HIDE DEF j
    <3> QED BY <2>2, <3>1 DEF j
  <2> QED BY <2>1, <2>4, <2>5
<1> HIDE DEF d
<1>5. ASSUME NEW k \in 1..Len(c) PROVE c[k] = d[k]
  <2>1. CASE k <= Len(q)
    <3>1. k \in 1..Len(q) /\ k \in 1..Len(u)
      BY <1>1, <1>3, <2>1
    <3> QED BY <1>1, <1>2, <1>3, <1>4, <3>1
  <2>2. CASE ~(k <= Len(q))
    <3> DEFINE j == k - Len(q)
    <3>1. j \in 1..Len(r) /\ k \in 1..Len(u) /\ k = Len(q) + j
      BY <1>1, <1>3, <2>2
    <3> HIDE DEF j
    <3>2. u[Len(q) + j] = r[j] /\ d[Len(a) + j] = b[j] /\ b[j] = Signed(r[j])
      BY <1>1, <1>2, <1>4, <3>1
    <3> QED BY <1>2, <1>3, <3>1, <3>2
  <2> QED BY <2>1, <2>2
<1>6. c = d
  BY <1>1, <1>2, <1>3, <1>4, <1>5, SeqEqual
<1>7. SumFunction(d) = SumFunction(a) + SumFunction(b)
  BY <1>2, SeqSumConcat DEF d
<1> QED BY <1>6, <1>7 DEF Owed, u, a, b, c

\* One update, and none.
LEMMA OwedOne ==
  ASSUME NEW S, NEW m \in Message(S)
  PROVE  Owed(<<m>>) = Signed(m) /\ Signed(m) \in Int
<1> DEFINE q == <<m>>
<1>1. q \in Seq(Message(S)) /\ Len(q) = 1 /\ q[1] = m
  BY SingletonSeq
<1> HIDE DEF q
<1>2. Signs(q) \in Seq(Int) /\ Len(Signs(q)) = 1 /\ Signs(q)[1] = Signed(m)
  BY <1>1, SignsTyped
<1>3. Signs(q) # <<>> /\ Signed(m) \in Int
  BY <1>2, ElementOfSeq
<1>4. Signs(q) = <<Signed(m)>>
  BY <1>2, <1>3
<1> QED BY <1>3, <1>4, SeqSumOne DEF Owed, q

\* An empty queue owes nothing.
LEMMA OwedNone == Owed(<<>>) = 0
<1>1. Signs(<<>>) = <<>>
  BY DEF Signs
<1> QED BY <1>1, SeqSumEmpty DEF Owed

\* The first update is taken.
LEMMA OwedTail ==
  ASSUME NEW S, NEW q \in Seq(Message(S)), q # <<>>
  PROVE  Owed(q) = Signed(Head(q)) + Owed(Tail(q))
<1>1. /\ Head(q) \in Message(S) /\ Tail(q) \in Seq(Message(S)) /\ <<Head(q)>> \in Seq(Message(S))
      /\ q = <<Head(q)>> \o Tail(q)
  BY HeadTailProperties, ConcatProperties
<1>2. Owed(<<Head(q)>> \o Tail(q)) = Owed(<<Head(q)>>) + Owed(Tail(q))
  BY <1>1, OwedConcat
<1> QED BY <1>1, <1>2, OwedOne

\* Sums of queues are integers.
LEMMA OwedTyped ==
  ASSUME NEW S, NEW q \in Seq(Message(S))
  PROVE  Owed(q) \in Int
  BY SignsTyped, SeqTerms DEF Owed

\* The events of an order add what was filled.
LEMMA EmittedOwed ==
  ASSUME NEW S, NEW o \in S, NEW before \in Order, NEW after, Kept(before, after), NEW g \in BOOLEAN
  PROVE  /\ Owed(Emitted(o, before, after, g)) = after.side * (after.filled - before.filled)
         /\ Owed(<<OrderOf(o, after.status, g)>>) = 0
<1> DEFINE f == FillOf(o, after.filled - before.filled, after.side)
           m == OrderOf(o, after.status, g)
<1>1. /\ after.filled - before.filled \in Nat /\ after.side \in {BUY, SELL}
      /\ after.status \in Status /\ after.side \in Int
  BY DEF Kept, Order, BUY, SELL
<1>2. f \in Message(S) /\ m \in Message(S)
  BY <1>1, MessagesMade
<1>3. Signed(f) = after.side * (after.filled - before.filled) /\ Signed(m) = 0
  BY DEF Signed, FillOf, OrderOf
<1>4. \/ after.filled # before.filled /\ Emitted(o, before, after, g) = <<f, m>>
      \/ after.filled = before.filled /\ Emitted(o, before, after, g) = <<m>>
      \/ after.filled = before.filled /\ Emitted(o, before, after, g) = <<>>
  BY DEF Emitted
<1> DEFINE d == after.filled - before.filled
<1>5. after.filled = before.filled => after.side * d = 0
  BY <1>1 DEF Kept, Order
<1> HIDE DEF f, m, d
<1>6. Owed(<<m>>) = 0 /\ Owed(<<>>) = 0
  BY <1>2, <1>3, OwedOne, OwedNone
<1>7. Owed(<<f, m>>) = Signed(f)
  <2> DEFINE q == <<f, m>>
  <2>1. q \in Seq(Message(S)) /\ q # <<>> /\ Head(q) = f /\ Tail(q) = <<m>>
    BY <1>2
  <2> HIDE DEF q
  <2>2. Owed(q) = Signed(Head(q)) + Owed(Tail(q)) /\ Signed(f) \in Int
    BY <1>2, <2>1, OwedTail, OwedOne
  <2> QED BY <1>6, <2>1, <2>2 DEF q
<1> QED BY <1>3, <1>4, <1>5, <1>6, <1>7 DEF d, m
-----------------------------------------------------------------------------
\* The broker books an order and emits its events, and may report it once more.
LEMMA BookedBalance ==
  ASSUME Typed, NoFillLost, NEW S, DOMAIN book \subseteq S, NEW o \in S, NEW before \in Order, NEW after,
         Kept(before, after), NEW g \in BOOLEAN, Book(before, after), net' = net,
         \/ queue' = queue \o Emitted(o, before, after, g)
         \/ queue' = queue \o Emitted(o, before, after, g) \o <<OrderOf(o, after.status, g)>>
  PROVE  NoFillLost'
<1> DEFINE e == Emitted(o, before, after, g)
           m == OrderOf(o, after.status, g)
           r == <<m>>
           q == queue \o e
           paid == after.side * (after.filled - before.filled)
<1>1. queue \in Seq(Message(S)) /\ e \in Seq(Message(S)) /\ r \in Seq(Message(S))
  <2>1. after.status \in Status
    BY DEF Kept, Order
  <2>2. e \in Seq(Message(S)) /\ m \in Message(S)
    BY <2>1, EmittedTyped, MessagesMade
  <2> HIDE DEF e, m
  <2> QED BY <2>2, Monotone, SingletonSeq DEF Typed, TypeOK
<1>2. Owed(e) = paid /\ Owed(r) = 0
  BY EmittedOwed
<1>3. /\ pos' = pos + paid /\ net' = net /\ net + Owed(queue) = pos
      /\ queue' = q \/ queue' = q \o r
  BY DEF Book, NoFillLost, Owed, Signs
<1> HIDE DEF e, r, m, q, paid
<1>4. Owed(q) = Owed(queue) + Owed(e) /\ q \in Seq(Message(S))
  BY <1>1, OwedConcat, ConcatProperties DEF q
<1>5. Owed(q \o r) = Owed(q) + Owed(r)
  BY <1>1, <1>4, OwedConcat
<1>6. Owed(queue') = Owed(queue) + paid
  <2>1. Owed(queue) \in Int /\ Owed(q) \in Int /\ Owed(e) \in Int
    BY <1>1, <1>4, OwedTyped
  <2>2. Owed(q \o r) = Owed(q)
    BY <1>2, <1>5, <2>1
  <2>3. Owed(queue') = Owed(q)
    BY <1>3, <2>2
  <2> QED BY <1>2, <1>4, <2>3
<1>7. net' + Owed(queue') = pos'
  <2>1. Owed(queue) \in Int /\ Owed(e) \in Int /\ net \in Int /\ pos \in Int
    BY <1>1, OwedTyped DEF Typed, TypeOK
  <2> QED BY <1>2, <1>3, <1>6, <2>1
<1> QED BY <1>7 DEF NoFillLost, Owed, Signs

\* The pump takes an update, and adds what it says.
LEMMA TakenBalance ==
  ASSUME Typed, NoFillLost, queue # <<>>, queue' = Tail(queue), pos' = pos,
         net' = net + Signed(Head(queue))
  PROVE  NoFillLost'
<1>1. /\ queue \in Seq(Message(DOMAIN book)) /\ net \in Int
      /\ Head(queue) \in Message(DOMAIN book) /\ Tail(queue) \in Seq(Message(DOMAIN book))
  BY HeadTailProperties DEF Typed, TypeOK
<1>2. Owed(queue) = Signed(Head(queue)) + Owed(Tail(queue))
  BY <1>1, OwedTail
<1>3. Signed(Head(queue)) \in Int /\ Owed(Tail(queue)) \in Int
  BY <1>1, OwedOne, OwedTyped
<1>4. net + Owed(queue) = pos
  BY DEF NoFillLost, Owed, Signs
<1>5. net' + Owed(queue') = pos'
  BY <1>1, <1>2, <1>3, <1>4
<1> QED BY <1>5 DEF NoFillLost, Owed, Signs

\* A cancellation reports, and fills nothing.
LEMMA CancelBalance ==
  ASSUME Typed, NoFillLost, NEW o \in DOMAIN book, queue' = queue \o CancelMsg(o),
         pos' = pos, net' = net
  PROVE  NoFillLost'
<1> DEFINE D == DOMAIN book
           m == OrderOf(o, "CANCELLED", TRUE)
<1>1. queue \in Seq(Message(D)) /\ m \in Message(D) /\ Signed(m) = 0
  BY MessagesMade DEF Typed, TypeOK, Status, Signed, OrderOf
<1>2. CancelMsg(o) = <<>> \/ CancelMsg(o) = <<m>>
  BY DEF CancelMsg
<1> HIDE DEF m
<1> DEFINE r == CancelMsg(o)
<1>3. r \in Seq(Message(D)) /\ Owed(r) = 0
  <2>1. <<>> \in Seq(Message(D)) /\ <<m>> \in Seq(Message(D))
    BY <1>1, SingletonSeq
  <2> QED BY <1>1, <1>2, <2>1, OwedOne, OwedNone
<1> HIDE DEF r
<1>4. Owed(queue \o r) = Owed(queue) + Owed(r) /\ Owed(queue) \in Int
  BY <1>1, <1>3, OwedConcat, OwedTyped
<1>5. Owed(queue') = Owed(queue)
  BY <1>3, <1>4 DEF r
<1> QED BY <1>5 DEF NoFillLost, Owed, Signs

\* Fills reach the engine's position through every step.
LEMMA FillsStep ==
  ASSUME Typed, NoFillLost, [Next]_vars
  PROVE  NoFillLost'
<1>1. CASE UNCHANGED <<pos, net, queue>>
  BY <1>1 DEF NoFillLost
<1>2. ASSUME NEW o \in DOMAIN book, Market(o)
      PROVE  NoFillLost'
  <2> DEFINE left == book[o].qty - book[o].filled
             qs == IF Partial THEN 1..left ELSE {left}
  <2>1. book[o] \in Order /\ book[o].filled <= book[o].qty
    BY ElementOfSeq, LenProperties DEF Typed, TypeOK, FilledWithin
  <2>2. qs \in SUBSET (0..left)
    BY <2>1 DEF Order
  <2>3. PICK after \in Fills(book[o], qs) :
          /\ Book(book[o], after)
          /\ queue' = queue \o Emitted(o, book[o], after, TRUE)
    BY <1>2 DEF Market
  <2>4. Kept(book[o], after) /\ net' = net
    BY <1>2, <2>1, <2>2, FillsKept DEF Market, agent
  <2> QED BY <2>1, <2>3, <2>4, BookedBalance
<1>3. ASSUME NEW t \in Task, Place(t)
      PROVE  NoFillLost'
  <2> DEFINE o == Len(book) + 1
             S == DOMAIN book \cup {o}
  <2>1. pend[t] \in Order /\ pend[t].filled <= pend[t].qty
    BY DEF Typed, TypeOK, FilledWithin, Order
  <2>2. PICK after \in Placed(pend[t]) :
          /\ Book(pend[t], after)
          /\ queue' = queue \o Emitted(o, pend[t], after, FALSE)
                            \o <<OrderOf(o, after.status, FALSE)>>
    BY <1>3 DEF Place
  <2>3. Kept(pend[t], after) /\ net' = net
    BY <1>3, <2>1, PlacedKept DEF Place
  <2> HIDE DEF o
  <2>4. DOMAIN book \subseteq S /\ o \in S
    OBVIOUS
  <2> HIDE DEF S
  <2> QED BY <2>1, <2>2, <2>3, <2>4, BookedBalance
<1>4. ASSUME Chase
      PROVE  NoFillLost'
  <2> DEFINE f == Head(stack["manage"])
  <2>1. f.ids \subseteq DOMAIN book /\ net' = net
    <3>1. "manage" \in Task /\ At("manage", "manage") /\ net' = net
      BY <1>4 DEF Chase, Task
    <3> QED BY <3>1, AtTyped, FrameFields DEF Typed
  <2>2. CASE UNCHANGED <<broker, queue, working, attributed>>
    BY <1>1, <2>1, <2>2 DEF broker
  <2>3. ASSUME NEW o \in f.ids, NEW after \in Matched(book[o]), Book(book[o], after),
               queue' = queue \o Emitted(o, book[o], after, TRUE)
                              \o <<OrderOf(o, after.status, TRUE)>>
        PROVE  NoFillLost'
    <3>1. o \in DOMAIN book /\ book[o] \in Order /\ book[o].filled <= book[o].qty
      BY <2>1, ElementOfSeq, LenProperties DEF Typed, TypeOK, FilledWithin
    <3>2. Kept(book[o], after)
      BY <3>1, MatchedKept
    <3> QED BY <2>1, <2>3, <3>1, <3>2, BookedBalance
  <2> QED BY <1>4, <2>2, <2>3 DEF Chase
<1>5. ASSUME Liquidate
      PROVE  NoFillLost'
  <2> DEFINE o == Len(book) + 1
             before == Closing(pos)
             S == DOMAIN book \cup {o}
  <2>1. before \in Order /\ before.filled = 0 /\ before.qty \in Nat /\ net' = net
    BY <1>5, OrdersMade DEF Typed, TypeOK, Order, Liquidate, agent
  <2>2. CASE UNCHANGED <<broker, queue>>
    BY <1>1, <2>1, <2>2 DEF broker
  <2>3. ASSUME NEW after \in {Filled(before, before.qty)} \cup Refused(before), Book(before, after),
               queue' = queue \o Emitted(o, before, after, FALSE)
                              \o <<OrderOf(o, after.status, FALSE)>>
        PROVE  NoFillLost'
    <3>1. before.qty \in 0..(before.qty - before.filled) /\ before.filled <= before.qty
      BY <2>1
    <3>2. Kept(before, after)
      BY <2>1, <2>3, <3>1, FilledKept, RefusedKept
    <3>3. DOMAIN book \subseteq S /\ o \in S
      OBVIOUS
    <3> HIDE DEF S, o, before
    <3> QED BY <2>1, <2>3, <3>2, <3>3, BookedBalance
  <2> QED BY <1>5, <2>2, <2>3 DEF Liquidate
<1>6. CASE FillUpdate
  <2>1. net' = net + Signed(Head(queue)) /\ queue # <<>> /\ queue' = Tail(queue) /\ pos' = pos
    BY <1>6 DEF FillUpdate, Signed, broker
  <2> QED BY <2>1, TakenBalance
<1>7. CASE OrderUpdate
  <2>1. Signed(Head(queue)) = 0 /\ net' = net /\ queue # <<>> /\ queue' = Tail(queue) /\ pos' = pos
    BY <1>7 DEF OrderUpdate, Signed, broker
  <2>2. net' = net + Signed(Head(queue))
    BY <2>1 DEF Typed, TypeOK
  <2> QED BY <2>1, <2>2, TakenBalance
<1>8. ASSUME NEW t \in Task, NEW op \in {"cancel", "oco", "manage"}, At(t, op),
             UNCHANGED <<pos, net>>, NEW o \in Head(stack[t]).ids, NEW rest, CancelThen(t, o, rest)
      PROVE  NoFillLost'
  <2>1. o \in DOMAIN book
    BY <1>8, AtTyped, FrameFields DEF Typed
  <2> QED BY <1>8, <2>1, CancelBalance DEF CancelThen
<1>9. ASSUME NEW t \in Task, CancelWhere(t) \/ CancelProtective(t)
      PROVE  NoFillLost'
  <2>1. CASE UNCHANGED queue
    BY <1>1, <1>9, <2>1 DEF CancelWhere, CancelProtective
  <2>2. CASE CancelWhere(t) /\ ~UNCHANGED queue
    BY <1>8, <2>2 DEF CancelWhere
  <2>3. CASE CancelProtective(t) /\ ~UNCHANGED queue
    BY <1>8, <2>3 DEF CancelProtective
  <2> QED BY <1>9, <2>1, <2>2, <2>3
<1>10. CASE Expire
  BY <1>8, <1>10 DEF Expire, Task
<1>11. CASE \/ \E i \in Intent : Approval(i)
            \/ \E t \in Task : PlaceFails(t) \/ OnOrderProgress(t) \/ MaybeBracket(t)
            \/ Manage \/ ManageDone \/ SquareOff \/ Control \/ UNCHANGED vars
  BY <1>1, <1>11 DEF Approval, PlaceFails, OnOrderProgress, MaybeBracket, Manage, ManageDone,
     SquareOff, Control, Kill, Resume, Flatten, broker, agent, vars
<1> QED BY <1>2, <1>3, <1>4, <1>5, <1>6, <1>7, <1>9, <1>10, <1>11 DEF Next, Step, Timer, Update
-----------------------------------------------------------------------------
(* The quantities of the children.                                         *)

\* A child carries the quantity of its slice.
Sized(order) == order.kind = "child" => order.qty = SliceQty(order.intent, order.slice)
SliceSized == /\ \A o \in DOMAIN book : Sized(book[o])
              /\ \A t \in Task : Sized(pend[t])

\* A kept order keeps its size.
LEMMA SizedKept ==
  ASSUME NEW before, NEW after, Kept(before, after), Sized(before)
  PROVE  Sized(after)
  BY DEF Kept, Sized

\* Every step keeps the sizes.
LEMMA SizedStep ==
  ASSUME Typed, SlicesOnce, Fresh, SliceSized, [Next]_vars
  PROVE  SliceSized'
<1>1. Grows /\ \A t \in Task : Pends(t)
  BY StepTyped, PendsStep
<1>2. /\ Sized(NoOrder)
      /\ \A i, k : Sized(Child(i, k))
      /\ \A i, q : Sized(Stop(i, q))
  BY DEF Sized, NoOrder, Child, Stop
<1>3. \A t \in Task : Sized(pend'[t])
  <2>1. ASSUME NEW t \in Task PROVE Sized(pend'[t])
    BY <1>1, <1>2 DEF Pends, SliceSized
  <2> QED BY <2>1
<1>4. \A o \in DOMAIN book : Sized(book'[o])
  BY <1>1, SizedKept DEF Grows, SliceSized
<1>5. ASSUME NEW o \in DOMAIN book' \ DOMAIN book
      PROVE  Sized(book'[o])
  <2>1. ASSUME NEW t \in Task, Place(t) PROVE Sized(book'[o])
    <3>1. DOMAIN book' = DOMAIN book \cup {Len(book) + 1} /\ Kept(pend[t], book'[Len(book) + 1])
      BY <2>1, SlicesPlaced
    <3> QED BY <3>1, SizedKept DEF SliceSized
  <2>2. ASSUME \A x \in DOMAIN book' \ DOMAIN book : book'[x].kind # "child"
        PROVE  Sized(book'[o])
    BY <2>2 DEF Sized
  <2> QED BY <2>1, <2>2, StepKinds DEF Quiet, Approval, ClaimsNext, broker
<1>6. \A o \in DOMAIN book' : Sized(book'[o])
  BY <1>4, <1>5
<1> QED BY <1>3, <1>6 DEF SliceSized, Sized, SliceQty
-----------------------------------------------------------------------------
\* The last slice begins below what is approved, and ends at it or beyond.
LEMMA LastSlice ==
  ASSUME NEW i \in Intent
  PROVE  /\ \A k \in 1..SliceCount(i) : (k - 1) * Cap < Approved[i]
         /\ Approved[i] <= SliceCount(i) * Cap
<1> DEFINE A == Approved[i]
           n == SliceCount(i)
<1>1. A \in Nat \ {0} /\ Cap \in Nat \ {0} /\ n \in Nat
  BY ExecutionAssumption, SliceFacts
<1>2. Cap * n <= A + Cap - 1 /\ A + Cap - 1 < Cap * n + Cap
  <2>1. A + Cap - 1 \in Nat
    BY <1>1
  <2>2. ASSUME NEW a \in Nat, NEW c \in Nat \ {0}
        PROVE  c * (a \div c) <= a /\ a < c * (a \div c) + c
    BY Z3
  <2> QED BY <1>1, <2>1, <2>2 DEF SliceCount
<1> HIDE DEF n
<1>3. ASSUME NEW k \in 1..n
      PROVE  (k - 1) * Cap < A
  <2>1. (n - k) * Cap \in Nat
    BY <1>1, <1>3
  <2>2. n * Cap - k * Cap = (n - k) * Cap
    BY <1>1, <1>3
  <2>3. (k - 1) * Cap = k * Cap - Cap /\ k * Cap \in Nat /\ n * Cap = Cap * n
    BY <1>1, <1>3
  <2> QED BY <1>1, <1>2, <2>1, <2>2, <2>3
<1>4. A <= n * Cap
  <2>1. n * Cap = Cap * n /\ Cap * n \in Nat
    BY <1>1
  <2> QED BY <1>1, <1>2, <2>1
<1> QED BY <1>3, <1>4 DEF n

\* plan_slices: the slices of an approval add up to what was approved.
THEOREM SlicesAddUp ==
  ASSUME NEW i \in Intent
  PROVE  SumFunctionOnSet([k \in 1..SliceCount(i) |-> SliceQty(i, k)], 1..SliceCount(i)) = Approved[i]
<1> DEFINE A == Approved[i]
           n == SliceCount(i)
           I == 1..n
           g == [k \in I |-> SliceQty(i, k)]
           upto(m) == IF m * Cap <= A THEN m * Cap ELSE A
           P == {m \in Nat : m <= n => SumFunctionOnSet(g, 1..m) = upto(m)}
<1>1. A \in Nat \ {0} /\ Cap \in Nat \ {0} /\ n \in Nat \ {0}
  BY ExecutionAssumption, SliceFacts
<1>2. IntOn(g, I)
  BY SliceFacts DEF IntOn
<1>3. 0 \in P
  <2>1. 1..0 = {} /\ 0 * Cap = 0
    BY <1>1
  <2>2. SumFunctionOnSet(g, 1..0) = 0
    BY <2>1, SumOfNone
  <2> QED BY <1>1, <2>1, <2>2
<1>4. ASSUME NEW m \in Nat, m \in P
      PROVE  m + 1 \in P
  <2> SUFFICES ASSUME m + 1 <= n
               PROVE  SumFunctionOnSet(g, 1..(m + 1)) = upto(m + 1)
    OBVIOUS
  <2> DEFINE S == 1..m
             y == m + 1
  <2>1. y \in I /\ y \notin S /\ 1..y = S \cup {y} /\ S \subseteq I
    BY <1>1
  <2>2. IsFiniteSet(S) /\ IntOn(g, S) /\ g[y] \in Int
    BY <1>2, <2>1, FS_Interval DEF IntOn
  <2>3. m * Cap < A
    <3>1. (y - 1) * Cap < A
      BY <2>1, LastSlice
    <3>2. y - 1 = m
      OBVIOUS
    <3> QED BY <3>1, <3>2
  <2>4. SumFunctionOnSet(g, S) = m * Cap
    <3>1. m <= n /\ m * Cap \in Nat
      BY <1>1
    <3> QED BY <1>1, <1>4, <2>3, <3>1
  <2>5. g[y] = IF y * Cap <= A THEN Cap ELSE A - m * Cap
    <3>1. y - 1 = m
      OBVIOUS
    <3> QED BY <2>1, <3>1 DEF SliceQty
  <2>6. y * Cap = m * Cap + Cap /\ m * Cap \in Nat
    BY <1>1
  <2> HIDE DEF S, y, g, I
  <2>7. SumFunctionOnSet(g, 1..y) = g[y] + SumFunctionOnSet(g, S)
    BY <2>1, <2>2, SumAdds
  <2>8. SumFunctionOnSet(g, 1..y) = upto(y)
    BY <1>1, <2>4, <2>5, <2>6, <2>7
  <2> QED BY <2>8 DEF y
<1> HIDE DEF P
<1>5. n \in P
  BY <1>1, <1>3, <1>4, NumberInduction
<1>6. SumFunctionOnSet(g, 1..n) = upto(n)
  <2> HIDE DEF g, I, upto
  <2> QED BY <1>1, <1>5 DEF P
<1>7. upto(n) = A
  <2>1. n * Cap \in Nat /\ A <= n * Cap
    BY <1>1, LastSlice
  <2> HIDE DEF n
  <2> QED BY <1>1, <2>1
<1> QED BY <1>6, <1>7

\* Slices sent once and sized so stay within the approval.
LEMMA SlicesWithin ==
  ASSUME Typed, SlicesOnce, SliceSized
  PROVE  WithinApproval
<1> SUFFICES ASSUME NEW i \in Intent
             PROVE  SumFunctionOnSet([o \in DOMAIN book |-> book[o].qty], ChildrenOf(i)) <= Approved[i]
  BY DEF WithinApproval
<1> DEFINE C == ChildrenOf(i)
           I == 1..SliceCount(i)
           f == [o \in DOMAIN book |-> book[o].qty]
           g == [k \in I |-> SliceQty(i, k)]
           h == [o \in C |-> book[o].slice]
           T == {h[o] : o \in C}
<1>1. DOMAIN book = 1..Len(book) /\ Len(book) \in Nat /\ \A o \in DOMAIN book : book[o] \in Order
  BY LenProperties, ElementOfSeq DEF Typed, TypeOK
<1>2. IsFiniteSet(C) /\ C \subseteq DOMAIN book
  <2>1. IsFiniteSet(DOMAIN book)
    BY <1>1, FS_Interval
  <2>2. C \subseteq DOMAIN book
    BY DEF ChildrenOf
  <2> QED BY <2>1, <2>2, FS_Subset
<1>3. IntOn(f, C)
  BY <1>1, <1>2 DEF IntOn, Order
<1>4. ASSUME NEW o \in C
      PROVE  h[o] \in I /\ f[o] = g[h[o]]
  <2>1. book[o].kind = "child" /\ book[o].intent = i /\ o \in DOMAIN book
    BY DEF ChildrenOf, IsChildOf
  <2>2. book[o].slice \in 1..plans[i].placed /\ plans[i].placed <= SliceCount(i)
    BY <2>1 DEF SlicesOnce, Claimed
  <2>3. plans[i].placed \in Nat /\ SliceCount(i) \in Nat
    BY SliceFacts DEF Typed, TypeOK
  <2>4. book[o].slice \in I
    BY <2>2, <2>3
  <2>5. book[o].qty = SliceQty(i, book[o].slice)
    BY <2>1 DEF SliceSized, Sized
  <2> QED BY <2>1, <2>4, <2>5
<1>5. \A o, p \in C : h[o] = h[p] => o = p
  BY DEF ChildrenOf, IsChildOf, SlicesOnce, SameSlice
<1>6. Pairs(h, f, C, g, T)
  BY <1>4, <1>5 DEF Pairs
<1>7. IsFiniteSet(I) /\ IntOn(g, I) /\ \A k \in I : g[k] >= 0
  BY SliceFacts, FS_Interval DEF IntOn
<1>8. T \in SUBSET I
  BY <1>4
<1>9. SumFunctionOnSet(g, I) = Approved[i]
  BY SlicesAddUp
<1>10. Approved[i] \in Nat
  BY ExecutionAssumption
<1> HIDE DEF C, I, f, g, h, T
<1>11. SumFunctionOnSet(f, C) = SumFunctionOnSet(g, T)
  BY <1>2, <1>3, <1>6, SumThrough
<1>12. SumFunctionOnSet(g, T) <= SumFunctionOnSet(g, I)
  BY <1>7, <1>8, SumOfPart
<1> QED BY <1>9, <1>11, <1>12 DEF C, f
-----------------------------------------------------------------------------
(* The theorems about reports, fills and plans.                            *)

\* Who is told of what, which slice a child is, and what the pump still owes.
Reported == Fresh /\ Accounted /\ SliceSized /\ NoFillLost

\* They hold in every state.
LEMMA ReportedHolds == Spec => []Reported
<1>1. Init => Reported
  <2> SUFFICES ASSUME Init PROVE Reported
    OBVIOUS
  <2>1. Fresh /\ DOMAIN book = {}
    BY DEF Init, Fresh
  <2>2. SliceSized
    BY <2>1 DEF Init, SliceSized, Sized, NoOrder
  <2>3. NoFillLost
    <3>1. Owed(<<>>) = 0
      BY OwedNone
    <3> QED BY <3>1 DEF Init, NoFillLost, Owed, Signs
  <2> QED BY <2>1, <2>2, <2>3 DEF Reported, Accounted
<1>2. IInv /\ Reported /\ [Next]_vars => Reported'
  BY FreshStep, AccountedStep, SizedStep, FillsStep DEF Reported, IInv, Typed, Fresh
<1> QED BY <1>1, <1>2, Inductive, PTL DEF Spec

\* With nothing queued and no handler under way there is no news.
LEMMA QuietMeansTold ==
  ASSUME Quiescent, NEW x, NEW b
  PROVE  ~Told(x, b)
  BY DEF Quiescent, Told, Queued, Waiting

\* Every order that can fill is where KILL, FLATTEN, square-off and TTL look.
THEOREM CancelsReachAll == Spec => []CancelReachesAll
<1>1. Reported => CancelReachesAll
  BY DEF Reported, Accounted, CancelReachesAll, OpenOrders, Closed
<1> QED BY <1>1, ReportedHolds, PTL

\* The agent manages no closed order once the updates are consumed.
THEOREM GhostsGoAway == Spec => []NoGhosts
<1>1. IInv /\ Reported => NoGhosts
  BY QuietMeansTold DEF IInv, TypeOK, Reported, Accounted, NoGhosts, OpenOrders, Closed
<1> QED BY <1>1, Inductive, ReportedHolds, PTL

\* Every fill reaches the engine's position once, with its sign.
THEOREM FillsArrive == Spec => []NoFillLost
<1>1. Reported => NoFillLost
  BY DEF Reported
<1> QED BY <1>1, ReportedHolds, PTL

\* The children of an approval never exceed what risk approved.
THEOREM ChildrenWithin == Spec => []WithinApproval
<1>1. IInv /\ Reported => WithinApproval
  BY SlicesWithin DEF IInv, Typed, Reported
<1> QED BY <1>1, Inductive, ReportedHolds, PTL

\* One active child leaves room for one order.
LEMMA ActiveMeansOne ==
  ASSUME Typed, OneActive
  PROVE  OneChild
<1> SUFFICES ASSUME NEW i \in Intent
             PROVE  Cardinality(OpenChildrenOf(i)) + Cardinality({t \in Task : IsChildOf(pend[t], i)}) <= 1
  BY DEF OneChild
<1> DEFINE C == OpenChildrenOf(i)
           P == {t \in Task : IsChildOf(pend[t], i)}
<1>1. C \subseteq Active(i)
  BY DEF OpenChildrenOf, ChildrenOf, OpenOrders, Active, OneActive, Closed
<1>2. \A o, p \in C : o = p
  BY <1>1 DEF OneActive
<1>3. \A t, u \in P : t = u
  BY DEF OneActive
<1>4. P # {} => C = {}
  BY <1>1 DEF OneActive
<1>5. ASSUME NEW S, \A x, y \in S : x = y
      PROVE  /\ Cardinality(S) = 0 \/ Cardinality(S) = 1
             /\ S = {} => Cardinality(S) = 0
  <2>1. CASE S = {}
    BY <2>1, FS_EmptySet
  <2>2. CASE S # {}
    <3>1. PICK x : x \in S
      BY <2>2
    <3>2. S = {x}
      BY <1>5, <3>1
    <3> QED BY <3>2, FS_Singleton
  <2> QED BY <2>1, <2>2
<1> HIDE DEF C, P
<1>6. /\ Cardinality(C) = 0 \/ Cardinality(C) = 1
      /\ C = {} => Cardinality(C) = 0
  BY <1>2, <1>5
<1>7. /\ Cardinality(P) = 0 \/ Cardinality(P) = 1
      /\ P = {} => Cardinality(P) = 0
  BY <1>3, <1>5
<1>8. Cardinality(C) + Cardinality(P) <= 1
  BY <1>4, <1>6, <1>7
<1> QED BY <1>8 DEF C, P

\* Without stops beside them, the children of a plan go out one at a time.
THEOREM ChildrenOneAtATime == NoStops => (Spec => []OneChild)
<1> SUFFICES ASSUME NoStops PROVE Spec => []OneChild
  OBVIOUS
<1>1. Init => OneActive
  BY ExecutionAssumption DEF Init, OneActive, Active, NoOrder, IsChildOf
<1>2. IInv /\ Reported /\ OneActive /\ [Next]_vars => OneActive'
  BY OneActiveStep DEF Reported, IInv, Typed
<1>3. IInv /\ OneActive => OneChild
  BY ActiveMeansOne DEF IInv, Typed
<1> QED BY <1>1, <1>2, <1>3, Inductive, ReportedHolds, PTL DEF Spec

\* While the broker's calls succeed and nobody kills, a plan stalls only on a
\* child that was refused as it was placed.
THEOREM StallsAreExplained == Undisturbed => (Spec => []StallsExplained)
<1> SUFFICES ASSUME Undisturbed PROVE Spec => []StallsExplained
  OBVIOUS
<1>1. Init => PlansMove
  BY DEF Init, PlansMove
<1>2. IInv /\ Reported /\ PlansMove /\ [Next]_vars => PlansMove'
  BY PlansMoveStep DEF Reported, IInv, Typed
<1>3. IInv /\ PlansMove => StallsExplained
  <2> SUFFICES ASSUME IInv, PlansMove, Quiescent, NEW i \in used
               PROVE  \/ plans[i].placed = SliceCount(i)
                      \/ OpenChildrenOf(i) # {}
                      \/ \E o \in ChildrenOf(i) : book[o].status = "REJECTED" /\ o \notin plans[i].advanced
    BY DEF StallsExplained
  <2>1. \A t \in Task : ~IsChildOf(pend[t], i)
    BY DEF Quiescent, NoOrder, IsChildOf
  <2>2. CASE plans[i].placed = SliceCount(i)
    BY <2>2
  <2>3. ASSUME NEW o \in Active(i), ~Closed(o) \/ book[o].status = "REJECTED"
        PROVE  \/ OpenChildrenOf(i) # {}
               \/ \E x \in ChildrenOf(i) : book[x].status = "REJECTED" /\ x \notin plans[i].advanced
    BY <2>3 DEF Active, OpenChildrenOf, ChildrenOf, OpenOrders, Closed
  <2>4. \A o : ~Told(o, TRUE)
    BY QuietMeansTold
  <2> QED BY <2>1, <2>2, <2>3, <2>4 DEF PlansMove, Moving
<1> QED BY <1>1, <1>2, <1>3, Inductive, ReportedHolds, PTL DEF Spec
=============================================================================
