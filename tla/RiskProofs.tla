------------------------------ MODULE RiskProofs ------------------------------
(***************************************************************************)
(* What holds of RiskFlow for any strategies, limits, prices and bounds:   *)
(* the loss latch, that no strategy waits for an intent that has ended,    *)
(* and that positions stay within the caps they were approved under.       *)
(***************************************************************************)
EXTENDS RiskFlow, SequenceTheorems, SumTheorems, TLAPS

\* An intent, whatever its quantities are.
Shape(N) == [by: Strategy, side: {BUY, SELL}, entry: BOOLEAN, open: N, left: N,
             status: Status, ours: BOOLEAN]

\* The intents form a sequence of such records.
Shaped == \E N : intents \in Seq(Shape(N))

\* A day that a fill left at its limit is latched for as long as it lasts.
Latched ==
  /\ today \in Nat \ {0} /\ breached \subseteq 1..today
  /\ today \in breached => latched = today
\* What Restart makes of an intent.
Kept(reached, c, waits) ==
  IF c.status = "working" \/ waits \in reached
  THEN [c EXCEPT !.status = "working", !.ours = FALSE, !.left = 0]
  ELSE Ended(c)

\* A restart forgets no intent; it ends some and disowns the others.
LEMMA RestartKeepsIntents ==
  ASSUME Restart
  PROVE  /\ DOMAIN intents' = DOMAIN intents
         /\ \E reached : intents' = [i \in DOMAIN intents |-> Kept(reached, intents[i], i)]
<1>1. PICK reached :
        intents' = [i \in DOMAIN intents |->
          IF intents[i].status = "working" \/ i \in reached
          THEN [intents[i] EXCEPT !.status = "working", !.ours = FALSE, !.left = 0]
          ELSE Ended(intents[i])]
  BY Zenon DEF Restart
<1>2. intents' = [i \in DOMAIN intents |-> Kept(reached, intents[i], i)]
  BY <1>1, Zenon DEF Kept
<1>3. DOMAIN intents' = DOMAIN intents
  BY <1>2, Zenon
<1> QED BY <1>2, <1>3, Zenon
-----------------------------------------------------------------------------
(* The loss latch.                                                         *)

\* No loss has been taken at first.
LEMMA LatchedInit == ASSUME Init PROVE Latched
  BY DEF Init, Latched

\* A fill latches the day in the step that breaches it, and a new day or a new
\* process has no breach yet.
LEMMA LatchedStep == ASSUME Latched, [Next]_vars PROVE Latched'
<1>1. CASE UNCHANGED vars
  BY <1>1 DEF vars, book, gate, Latched
<1>2. CASE Market
  BY <1>2 DEF Market, Mark, gate, Latched
<1>3. CASE Signals
  BY <1>3 DEF Signals, Decide, gate, Latched
<1>4. CASE Orders
  <2>1. PICK i \in DOMAIN intents : Place(i) \/ Cancel(i) \/ \E q \in 1..intents[i].open : Fill(i, q)
    BY <1>4 DEF Orders
  <2>2. CASE Place(i)
    BY <2>2 DEF Place, gate, Latched
  <2>3. CASE Cancel(i)
    BY <2>3 DEF Cancel, gate, Latched
  <2>4. ASSUME NEW q, Fill(i, q) PROVE Latched'
    <3>1. PICK pnl : /\ latched' = Latch(pnl) /\ today' = today
                     /\ breached' = IF pnl <= -MaxLoss THEN breached \cup {today} ELSE breached
      BY <2>4 DEF Fill
    <3>2. today \in 1..today
      BY DEF Latched
    <3>3. CASE pnl <= -MaxLoss
      BY <3>1, <3>2, <3>3 DEF Latch, Latched
    <3>4. CASE ~(pnl <= -MaxLoss)
      BY <3>1, <3>4 DEF Latch, Latched
    <3> QED BY <3>3, <3>4
  <2> QED BY <2>1, <2>2, <2>3, <2>4
<1>5. CASE Control
  BY <1>5 DEF Control, ExecKill, RiskKill, Resume, Latched
<1>6. CASE NextDay
  BY <1>6 DEF NextDay, gate, Latched
<1>7. CASE Restart
  <2>1. latched' = 0 /\ today' = today /\ breached' = {}
    BY <1>7, Zenon DEF Restart
  <2> QED BY <2>1 DEF Latched
<1> QED BY <1>1, <1>2, <1>3, <1>4, <1>5, <1>6, <1>7 DEF Next

\* Only a decision adds an intent, and it adds an entry only where the latch lets it.
LEMMA EntriesAllowed ==
  ASSUME Shaped, Latched, [Next]_vars
  PROVE  \A i \in DOMAIN intents' \ DOMAIN intents : intents'[i].entry => today \notin breached
<1>1. CASE Signals
  <2>1. PICK s \in Strategy : Decide(s)
    BY <1>1 DEF Signals
  <2>2. PICK w \in Wants(s) : OnIntent(s, w)
    BY <2>1 DEF Decide
  <2> DEFINE e == BuildIntent(s, w, Approved(s, w))
  <2>3. intents' = Append(intents, e) /\ Approved(s, w) > 0
    BY <2>2 DEF OnIntent
  <2>4. PICK N : intents \in Seq(Shape(N))
    BY DEF Shaped
  <2>5. \A i \in DOMAIN intents' \ DOMAIN intents : intents'[i] = e
    <3> HIDE DEF e
    <3>1. intents \in Seq(Shape(N) \cup {e}) /\ e \in Shape(N) \cup {e}
      BY <2>4
    <3>2. intents' \in Seq(Shape(N) \cup {e}) /\ Len(intents') = Len(intents) + 1
      BY <3>1, <2>3
    <3>3. DOMAIN intents' \ DOMAIN intents = {Len(intents) + 1}
      BY <3>1, <3>2
    <3> QED BY <3>1, <3>3, <2>3
  <2>6. e.entry = ~IsExit(s, w.side)
    BY DEF BuildIntent
  <2>7. ~Rejects(s, w)
    BY <2>3 DEF Approved
  <2>8. e.entry => latched # today
    BY <2>6, <2>7 DEF Rejects, LossAllows
  <2> QED BY <2>5, <2>8 DEF Latched
<1>2. ASSUME ~Signals PROVE DOMAIN intents' = DOMAIN intents
  <2>1. CASE Orders
    <3>1. PICK i \in DOMAIN intents : Place(i) \/ Cancel(i) \/ \E q \in 1..intents[i].open : Fill(i, q)
      BY <2>1 DEF Orders
    <3>2. CASE Place(i)
      BY <3>2 DEF Place
    <3>3. CASE Cancel(i)
      BY <3>3 DEF Cancel
    <3>4. CASE \E q \in 1..intents[i].open : Fill(i, q)
      BY <3>4 DEF Fill
    <3> QED BY <3>1, <3>2, <3>3, <3>4
  <2>2. CASE Restart
    BY <2>2, RestartKeepsIntents
  <2>3. CASE UNCHANGED vars \/ Market \/ Control \/ NextDay
    BY <2>3 DEF vars, Market, Mark, Control, ExecKill, RiskKill, Resume, NextDay
  <2> QED BY <1>2, <2>1, <2>2, <2>3 DEF Next
<1> QED BY <1>1, <1>2
-----------------------------------------------------------------------------
(* Intents and those who wait for them.                                    *)

\* A strategy that waits, waits for an intent of its own, of this process, that has
\* not ended.
Waits(s) ==
  pending[s] # 0 =>
    /\ pending[s] \in DOMAIN intents
    /\ intents[pending[s]].by = s /\ intents[pending[s]].ours
    /\ intents[pending[s]].status # "done"
Waiting == pending \in [Strategy -> Nat] /\ \A s \in Strategy : Waits(s)

\* The same intent in another state.
Like(d, c) == (\E N : d \in Shape(N)) /\ d.by = c.by /\ d.ours = c.ours

\* The shape does not say which numbers there are.
LEMMA ShapeGrows ==
  ASSUME NEW N, NEW M PROVE Shape(N) \subseteq Shape(N \cup M)
  BY DEF Shape

\* Ending an intent and releasing its next slice leave it whose it is.
LEMMA EndedLike == ASSUME NEW N, NEW c \in Shape(N) PROVE Like(Ended(c), c)
<1>1. Ended(c) \in Shape(N \cup {0}) /\ Ended(c).by = c.by /\ Ended(c).ours = c.ours
  BY DEF Shape, Ended, Status, InFlight
<1> QED BY <1>1 DEF Like

\* An intent whose child has another quantity open is like it.
LEMMA OpenLike ==
  ASSUME NEW N, NEW c \in Shape(N), NEW n
  PROVE  Like([c EXCEPT !.open = n], c) /\ [c EXCEPT !.open = n].status = c.status
<1>1. /\ [c EXCEPT !.open = n] \in Shape(N \cup {n})
      /\ [c EXCEPT !.open = n].by = c.by /\ [c EXCEPT !.open = n].ours = c.ours
      /\ [c EXCEPT !.open = n].status = c.status
  BY DEF Shape
<1> QED BY <1>1 DEF Like

\* An intent with another status is like it.
LEMMA StatusLike ==
  ASSUME NEW N, NEW c \in Shape(N), NEW st \in Status
  PROVE  Like([c EXCEPT !.status = st], c) /\ [c EXCEPT !.status = st].status = st
<1>1. /\ [c EXCEPT !.status = st] \in Shape(N)
      /\ [c EXCEPT !.status = st].by = c.by /\ [c EXCEPT !.status = st].ours = c.ours
      /\ [c EXCEPT !.status = st].status = st
  BY DEF Shape
<1> QED BY <1>1 DEF Like

\* An intent that waits for its next child is like it.
LEMMA NextChildLike == ASSUME NEW N, NEW c \in Shape(N) PROVE Like(NextChild(c), c)
<1> DEFINE n == Child(c.left)
           m == c.left - Child(c.left)
           d == [c EXCEPT !.open = n, !.left = m, !.status = "waiting"]
<1> HIDE DEF n, m
<1>1. d \in Shape(N \cup {n, m}) /\ d.by = c.by /\ d.ours = c.ours
  BY DEF Shape, Status, InFlight
<1>2. NextChild(c) = d
  BY DEF NextChild, n, m
<1> QED BY <1>1, <1>2 DEF Like

\* So is one that moved on, to its next child or to its end.
LEMMA AdvanceLike == ASSUME NEW N, NEW c \in Shape(N) PROVE Like(Advance(c), c)
  BY EndedLike, NextChildLike DEF Advance

\* What is like a like intent is like the first.
LEMMA LikeTransitive ==
  ASSUME NEW b, NEW c, NEW d, Like(d, c), Like(c, b) PROVE Like(d, b)
  BY DEF Like
-----------------------------------------------------------------------------
(* One intent changes.                                                     *)

\* A sequence over a set is one over a larger set.
LEMMA SeqGrows ==
  ASSUME NEW S, NEW T, S \subseteq T, NEW q \in Seq(S) PROVE q \in Seq(T)
  OBVIOUS

\* Replacing an intent by one like it keeps the shape of them all.
LEMMA ChangeShaped ==
  ASSUME Shaped, NEW i \in DOMAIN intents, NEW d, Like(d, intents[i]),
         intents' = [intents EXCEPT ![i] = d]
  PROVE  Shaped'
<1>1. PICK N : intents \in Seq(Shape(N))
  BY DEF Shaped
<1>2. PICK M : d \in Shape(M)
  BY DEF Like
<1> DEFINE T == Shape(N \cup M)
<1>3. intents \in Seq(T) /\ d \in T
  <2>1. N \cup M = M \cup N
    OBVIOUS
  <2>2. Shape(N) \subseteq T /\ Shape(M) \subseteq T
    BY <2>1, ShapeGrows, Zenon
  <2> HIDE DEF T
  <2> QED BY <1>1, <1>2, <2>2, SeqGrows
<1> HIDE DEF T
<1>4. intents' \in Seq(T)
  BY <1>3
<1> QED BY <1>4 DEF Shaped, T

\* What the others wait for is untouched, and who waits for this one sees it live.
LEMMA ChangeWaits ==
  ASSUME Waiting, NEW i \in DOMAIN intents, NEW d, Like(d, intents[i]),
         intents' = [intents EXCEPT ![i] = d],
         pending' \in [Strategy -> Nat],
         \A s \in Strategy : pending'[s] # 0 =>
           pending'[s] = pending[s] /\ (pending[s] = i => d.status # "done")
  PROVE  Waiting'
<1>1. DOMAIN intents' = DOMAIN intents /\ intents'[i] = d
  OBVIOUS
<1>2. \A j \in DOMAIN intents \ {i} : intents'[j] = intents[j]
  OBVIOUS
<1>3. d.by = intents[i].by /\ d.ours = intents[i].ours
  BY DEF Like
<1>4. ASSUME NEW s \in Strategy, pending'[s] # 0
      PROVE  /\ pending'[s] \in DOMAIN intents'
             /\ intents'[pending'[s]].by = s /\ intents'[pending'[s]].ours
             /\ intents'[pending'[s]].status # "done"
  <2>1. pending'[s] = pending[s] /\ Waits(s) /\ pending[s] # 0
    BY <1>4 DEF Waiting
  <2>2. CASE pending[s] = i
    BY <1>1, <1>3, <1>4, <2>1, <2>2 DEF Waits
  <2>3. CASE pending[s] # i
    BY <1>1, <1>2, <2>1, <2>3 DEF Waits
  <2> QED BY <2>2, <2>3
<1> QED BY <1>4 DEF Waiting, Waits
-----------------------------------------------------------------------------
(* Every step keeps the shape, and what is waited for.                     *)

\* Nobody waits at first.
LEMMA WaitingInit == ASSUME Init PROVE Shaped /\ Waiting
<1>1. intents \in Seq(Shape({}))
  BY DEF Init
<1> QED BY <1>1 DEF Init, Shaped, Waiting, Waits, NothingPending

\* A decision: the strategy waits for the intent it adds.
LEMMA DecideWaits ==
  ASSUME Shaped, Waiting, NEW s \in Strategy, Decide(s)
  PROVE  Shaped' /\ Waiting'
<1>1. PICK w \in Wants(s) : OnIntent(s, w)
  BY DEF Decide
<1> DEFINE e == BuildIntent(s, w, Approved(s, w))
<1>2. intents' = Append(intents, e)
  BY <1>1 DEF OnIntent
<1>3. pending' = [pending EXCEPT ![s] = Len(intents) + 1]
  BY DEF Decide
<1>4. w.side \in {BUY, SELL}
  BY RiskAssumption DEF Wants, RiskAssumption, BUY, SELL
<1>5. PICK M : e \in Shape(M)
  <2> DEFINE n == IF halted THEN 0 ELSE Child(Approved(s, w))
             m == IF halted THEN 0 ELSE Approved(s, w) - Child(Approved(s, w))
             x == ~IsExit(s, w.side)
  <2>1. e = [by |-> s, side |-> w.side, entry |-> x, ours |-> TRUE, open |-> n, left |-> m,
             status |-> IF halted THEN "refused" ELSE "waiting"]
    BY DEF BuildIntent
  <2>2. x \in BOOLEAN
    BY DEF IsExit
  <2> HIDE DEF e, n, m, x
  <2>3. e \in Shape({n, m})
    BY <1>4, <2>1, <2>2 DEF Shape, Status, InFlight
  <2> QED BY <2>3
<1>6. e.by = s /\ e.ours /\ e.status # "done"
  BY DEF BuildIntent
<1> HIDE DEF e
<1>7. PICK N : intents \in Seq(Shape(N))
  BY DEF Shaped
<1> DEFINE T == Shape(N \cup M)
<1>8. intents \in Seq(T) /\ e \in T
  <2>1. N \cup M = M \cup N
    OBVIOUS
  <2>2. Shape(N) \subseteq T /\ Shape(M) \subseteq T
    BY <2>1, ShapeGrows, Zenon
  <2> HIDE DEF T
  <2> QED BY <1>5, <1>7, <2>2, SeqGrows
<1> HIDE DEF T
<1>9. intents' \in Seq(T)
  BY <1>2, <1>8
<1>10. DOMAIN intents = 1..Len(intents) /\ Len(intents) \in Nat
  BY <1>8
<1>11. DOMAIN intents' = 1..Len(intents) + 1 /\ intents'[Len(intents) + 1] = e
  BY <1>2, <1>8
<1>12. \A j \in DOMAIN intents : intents'[j] = intents[j]
  BY <1>2, <1>8
<1>13. ASSUME NEW r \in Strategy PROVE Waits(r)'
  <2>1. CASE r = s
    BY <1>3, <1>6, <1>10, <1>11, <2>1 DEF Waits, Waiting
  <2>2. CASE r # s
    <3>1. pending'[r] = pending[r] /\ Waits(r)
      BY <1>3, <2>2 DEF Waiting
    <3> QED BY <1>10, <1>11, <1>12, <3>1 DEF Waits
  <2> QED BY <2>1, <2>2
<1>14. pending' \in [Strategy -> Nat]
  BY <1>3, <1>10 DEF Waiting
<1> QED BY <1>9, <1>13, <1>14 DEF Shaped, Waiting, T

\* An order: answers, fills and cancellations clear whoever waits for an intent they end.
LEMMA PlaceWaits ==
  ASSUME Shaped, Waiting, NEW i \in DOMAIN intents, Place(i)
  PROVE  Shaped' /\ Waiting'
<1> DEFINE c == intents[i]
<1>1. PICK N : c \in Shape(N)
  BY DEF Shaped
<1>2. CASE intents' = [intents EXCEPT ![i].status = "working"] /\ UNCHANGED pending
  <2> DEFINE d == [c EXCEPT !.status = "working"]
  <2>1. Like(d, c) /\ d.status = "working"
    BY <1>1, StatusLike DEF Status, InFlight
  <2>2. intents' = [intents EXCEPT ![i] = d]
    BY <1>2
  <2> HIDE DEF d
  <2> QED BY <1>2, <2>1, <2>2, ChangeShaped, ChangeWaits DEF Waiting
<1>3. CASE intents' = [intents EXCEPT ![i] = Ended(c)] /\ pending' = Clear(i)
  <2>1. Like(Ended(c), c)
    BY <1>1, EndedLike
  <2>2. /\ pending' \in [Strategy -> Nat]
        /\ \A s \in Strategy : pending'[s] # 0 => pending'[s] = pending[s] /\ pending[s] # i
    BY <1>3 DEF Clear, Waiting
  <2> QED BY <1>3, <2>1, <2>2, ChangeShaped, ChangeWaits
<1>4. CASE /\ intents' = [intents EXCEPT ![i] = [Ended(c) EXCEPT !.status = "lost"]]
           /\ UNCHANGED pending
  <2>1. Like(Ended(c), c)
    BY <1>1, EndedLike
  <2>2. PICK M : Ended(c) \in Shape(M)
    BY <2>1 DEF Like
  <2> DEFINE d == [Ended(c) EXCEPT !.status = "lost"]
  <2>3. Like(d, Ended(c)) /\ d.status = "lost"
    BY <2>2, StatusLike DEF Status
  <2>4. Like(d, c)
    BY <2>1, <2>3, LikeTransitive
  <2>5. intents' = [intents EXCEPT ![i] = d]
    BY <1>4
  <2> HIDE DEF d
  <2> QED BY <1>4, <2>3, <2>4, <2>5, ChangeShaped, ChangeWaits DEF Waiting
<1> QED BY <1>2, <1>3, <1>4 DEF Place

\* A child that is cancelled leaves nobody waiting for it.
LEMMA CancelWaits ==
  ASSUME Shaped, Waiting, NEW i \in DOMAIN intents, Cancel(i)
  PROVE  Shaped' /\ Waiting'
<1> DEFINE c == intents[i]
           d == Advance([c EXCEPT !.open = 0])
<1>1. PICK N : c \in Shape(N)
  BY DEF Shaped
<1>2. Like([c EXCEPT !.open = 0], c)
  BY <1>1, OpenLike
<1>3. PICK M : [c EXCEPT !.open = 0] \in Shape(M)
  BY <1>2 DEF Like
<1>4. Like(d, c)
  BY <1>2, <1>3, AdvanceLike, LikeTransitive
<1>5. intents' = [intents EXCEPT ![i] = d]
  BY Zenon DEF Cancel
<1>6. pending' = IF intents[i].ours THEN Clear(i) ELSE pending
  BY Zenon DEF Cancel, ClearEnded
<1> HIDE DEF d
<1>7. /\ pending' \in [Strategy -> Nat]
      /\ \A s \in Strategy : pending'[s] # 0 => pending'[s] = pending[s] /\ pending[s] # i
  <2>1. CASE intents[i].ours
    BY <1>6, <2>1 DEF Clear, Waiting
  <2>2. CASE ~intents[i].ours
    BY <1>6, <2>2 DEF Waiting, Waits
  <2> QED BY <2>1, <2>2
<1> QED BY <1>4, <1>5, <1>7, ChangeShaped, ChangeWaits

\* A fill clears every strategy of its symbol, so also the one whose intent it ends.
LEMMA FillWaits ==
  ASSUME Shaped, Waiting, NEW i \in DOMAIN intents, NEW q, Fill(i, q)
  PROVE  Shaped' /\ Waiting'
<1> DEFINE c == intents[i]
           b == [c EXCEPT !.open = 0]
           a == [c EXCEPT !.open = c.open - q]
           d == IF q = c.open THEN Advance(b) ELSE a
<1>1. PICK N : c \in Shape(N)
  BY DEF Shaped
<1>2. Like(a, c) /\ Like(b, c)
  BY <1>1, OpenLike
<1>3. PICK M : b \in Shape(M)
  BY <1>2 DEF Like
<1>4. Like(d, c)
  <2>1. Like(Advance(b), c)
    BY <1>2, <1>3, AdvanceLike, LikeTransitive
  <2> HIDE DEF a, b
  <2> QED BY <1>2, <2>1
<1>5. intents' = [intents EXCEPT ![i] = d]
  BY Zenon DEF Fill
<1>6. pending' = Forget(SymbolOf[c.by])
  <2>1. pending' = Forget(KeyOf(c.by)[1])
    BY Zenon DEF Fill
  <2> QED BY <2>1 DEF KeyOf
<1> HIDE DEF d
<1>7. pending' \in [Strategy -> Nat]
  BY <1>6 DEF Forget, Waiting
<1>8. ASSUME NEW s \in Strategy, pending'[s] # 0
      PROVE  pending'[s] = pending[s] /\ pending[s] # i
  <2>1. pending'[s] = pending[s] /\ SymbolOf[s] # SymbolOf[c.by]
    BY <1>6, <1>8 DEF Forget
  <2>2. intents[pending[s]].by = s
    BY <1>8, <2>1 DEF Waiting, Waits
  <2> QED BY <2>1, <2>2
<1> QED BY <1>4, <1>5, <1>7, <1>8, ChangeShaped, ChangeWaits

\* Nobody waits after a restart.
LEMMA RestartWaits == ASSUME Shaped, Restart PROVE Shaped' /\ Waiting'
<1>1. PICK reached : intents' = [i \in DOMAIN intents |-> Kept(reached, intents[i], i)]
  BY RestartKeepsIntents
<1>2. PICK N : intents \in Seq(Shape(N))
  BY DEF Shaped
<1>3. ASSUME NEW c \in Shape(N), NEW j PROVE Kept(reached, c, j) \in Shape(N \cup {0})
  <2>1. Ended(c) \in Shape(N \cup {0})
    BY DEF Shape, Ended, Status, InFlight
  <2>2. [c EXCEPT !.status = "working", !.ours = FALSE, !.left = 0] \in Shape(N \cup {0})
    BY DEF Shape, Status, InFlight
  <2> QED BY <2>1, <2>2, Zenon DEF Kept
<1>4. \A j \in DOMAIN intents : intents'[j] \in Shape(N \cup {0})
  <2> TAKE j \in DOMAIN intents
  <2>1. intents[j] \in Shape(N)
    BY <1>2
  <2>2. intents'[j] = Kept(reached, intents[j], j)
    BY <1>1, Zenon
  <2> QED BY <1>3, <2>1, <2>2
<1>5. intents' \in Seq(Shape(N \cup {0}))
  <2>1. DOMAIN intents = 1..Len(intents) /\ Len(intents) \in Nat
    BY <1>2
  <2>2. intents' \in [1..Len(intents) -> Shape(N \cup {0})]
    BY <1>1, <1>4, <2>1
  <2> QED BY <2>1, <2>2, SeqDef, Zenon
<1>6. pending' = NothingPending
  BY Zenon DEF Restart
<1> QED BY <1>5, <1>6 DEF Shaped, Waiting, Waits, NothingPending

\* Every step keeps the shape, and what is waited for.
LEMMA WaitingStep == ASSUME Shaped, Waiting, [Next]_vars PROVE Shaped' /\ Waiting'
<1>1. CASE UNCHANGED vars \/ Market \/ Control \/ NextDay
  <2>1. UNCHANGED <<intents, pending>>
    BY <1>1 DEF vars, Market, Mark, Control, ExecKill, RiskKill, Resume, NextDay
  <2> QED BY <2>1 DEF Shaped, Waiting, Waits
<1>2. CASE Signals
  BY <1>2, DecideWaits DEF Signals
<1>3. CASE Orders
  BY <1>3, PlaceWaits, CancelWaits, FillWaits DEF Orders
<1>4. CASE Restart
  BY <1>4, RestartWaits
<1> QED BY <1>1, <1>2, <1>3, <1>4 DEF Next
-----------------------------------------------------------------------------
(* Theorems.                                                               *)

\* A strategy waits only for an intent that can still end: whatever the strategies,
\* slices, prices, kills, restarts and rejected orders, each end reaches the one that
\* waits for it (SignalAgent._on_fill, _on_rejection, _on_order).
THEOREM NobodyWaitsInVain == Spec => []PendingLive
<1>1. Init => Shaped /\ Waiting
  BY WaitingInit
<1>2. (Shaped /\ Waiting) /\ [Next]_vars => (Shaped /\ Waiting)'
  BY WaitingStep
<1>3. Shaped /\ Waiting => PendingLive
  BY DEF Waiting, Waits, PendingLive
<1> QED BY <1>1, <1>2, <1>3, PTL DEF Spec

\* After a fill that leaves the day at its loss limit no entry is approved on that day,
\* whatever prices, commands and other strategies do, as long as the process lives
\* (RiskAgent._on_fill, _daily_loss).
THEOREM LossLatchHolds == Spec => LossLatches
<1>1. Init => (Shaped /\ Waiting) /\ Latched
  BY WaitingInit, LatchedInit
<1>2. ((Shaped /\ Waiting) /\ Latched) /\ [Next]_vars => ((Shaped /\ Waiting) /\ Latched)'
  BY WaitingStep, LatchedStep
<1> DEFINE Allowed == \A i \in DOMAIN intents' \ DOMAIN intents : intents'[i].entry => today \notin breached
<1>3. ((Shaped /\ Waiting) /\ Latched) /\ [Next]_vars => [Allowed]_vars
  BY EntriesAllowed
<1> QED BY <1>1, <1>2, <1>3, PTL DEF Spec, LossLatches
-----------------------------------------------------------------------------
(* Sizes.                                                                  *)

\* The types that sizes depend on.
Typed ==
  pos \in [Key -> Int] /\ price \in [Symbol -> Prices] /\ intents \in Seq(Intent)

\* Prices have a least one.
LEMMA LeastPrice == Least(Prices) \in Nat \ {0} /\ \A p \in Prices : Least(Prices) <= p
<1>1. Prices \subseteq Nat /\ Prices \subseteq Nat \ {0} /\ Prices # {}
  BY RiskAssumption
<1>2. IsWellFoundedOn(OpToRel(<, Nat), Nat)
  BY NatLessThanWellFounded
<1>3. \E n \in Prices : \A m \in Prices : ~(<<m, n>> \in OpToRel(<, Nat))
  BY <1>1, <1>2, WFMin
<1>4. \A m, n \in Nat : m < n => <<m, n>> \in OpToRel(<, Nat)
  BY DEF OpToRel
<1>5. \E n \in Prices : \A m \in Prices : n <= m
  <2>1. PICK n \in Prices : \A m \in Prices : ~(<<m, n>> \in OpToRel(<, Nat))
    BY <1>3
  <2>2. \A m \in Prices : ~(m < n) /\ m \in Nat /\ n \in Nat
    BY <1>1, <1>4, <2>1
  <2>3. \A m \in Prices : n <= m
    BY <2>2
  <2> QED BY <2>1, <2>3
<1> QED BY <1>1, <1>5 DEF Least

\* The smaller of two numbers, of three, and the larger of two.
LEMMA SmallestIn ==
  ASSUME NEW S, S \subseteq Int, \E x \in S : \A y \in S : x <= y
  PROVE  Min(S) \in S /\ \A y \in S : Min(S) <= y
  BY DEF Min

\* The smaller of two numbers.
LEMMA MinOfTwo ==
  ASSUME NEW a \in Int, NEW b \in Int
  PROVE  Min({a, b}) = IF a <= b THEN a ELSE b
<1>1. \E x \in {a, b} : \A y \in {a, b} : x <= y
  <2>1. CASE a <= b
    BY <2>1
  <2>2. CASE b <= a
    BY <2>2
  <2> QED BY <2>1, <2>2
<1>2. Min({a, b}) \in {a, b} /\ \A y \in {a, b} : Min({a, b}) <= y
  BY <1>1, SmallestIn
<1> QED BY <1>2

\* The smallest of three numbers is below each.
LEMMA MinOfThree ==
  ASSUME NEW a \in Int, NEW b \in Int, NEW c \in Int
  PROVE  /\ Min({a, b, c}) \in Int
         /\ Min({a, b, c}) <= a /\ Min({a, b, c}) <= b /\ Min({a, b, c}) <= c
<1>1. \E x \in {a, b, c} : x <= a /\ x <= b /\ x <= c
  OBVIOUS
<1>2. \E x \in {a, b, c} : \A y \in {a, b, c} : x <= y
  BY <1>1
<1> QED BY <1>2, SmallestIn

\* The larger of two numbers.
LEMMA MaxOfTwo ==
  ASSUME NEW a \in Int, NEW b \in Int
  PROVE  Max({a, b}) = IF a <= b THEN b ELSE a
<1>1. \E x \in {a, b} : \A y \in {a, b} : x >= y
  <2>1. CASE a <= b
    BY <2>1
  <2>2. CASE b <= a
    BY <2>2
  <2> QED BY <2>1, <2>2
<1>2. Max({a, b}) \in {a, b} /\ \A y \in {a, b} : Max({a, b}) >= y
  BY <1>1 DEF Max
<1> QED BY <1>2

\* A part of a quantity is worth no more than the quantity.
LEMMA WorthGrows ==
  ASSUME NEW a \in Int, NEW b \in Int, NEW p \in Nat, a <= b
  PROVE  a * p <= b * p
<1>1. PICK d \in Nat : b = a + d
  OBVIOUS
<1>2. d * p >= 0
  OBVIOUS
<1>3. b * p = a * p + d * p
  BY <1>1
<1> QED BY <1>2, <1>3

\* What a fraction of a value buys is worth no more than the value.
LEMMA DivWorth ==
  ASSUME NEW v \in Int, NEW p \in Nat \ {0}
  PROVE  v \div p \in Int /\ (v \div p) * p <= v
  OBVIOUS

\* Whole lots worth no more than a value.
LEMMA InLotsWorth ==
  ASSUME NEW v \in Int, NEW p \in Nat \ {0}
  PROVE  InLots(v, p) \in Int /\ InLots(v, p) * p <= v
<1>1. Lot \in Nat \ {0}
  BY RiskAssumption
<1>2. PICK a \in Int : a = v \div p /\ a * p <= v
  BY DivWorth
<1>3. PICK b \in Int : b = (a \div Lot) * Lot /\ b <= a
  <2>1. a \div Lot \in Int /\ (a \div Lot) * Lot <= a
    BY <1>1, DivWorth
  <2> QED BY <1>1, <2>1
<1>4. b * p <= a * p
  BY <1>3, WorthGrows
<1>5. InLots(v, p) = b
  BY <1>2, <1>3 DEF InLots
<1>6. a * p \in Int /\ b * p \in Int
  OBVIOUS
<1> QED BY <1>2, <1>4, <1>5, <1>6

\* A child takes a part of what is left.
LEMMA ChildTakes ==
  ASSUME NEW n \in Nat
  PROVE  Child(n) \in Nat /\ Child(n) <= n
<1> DEFINE m == IF Slice > Lot THEN (Slice \div Lot) * Lot ELSE Lot
<1>1. m \in Nat
  <2>1. Lot \in Nat \ {0} /\ Slice \in Nat \ {0}
    BY RiskAssumption
  <2>2. Slice \div Lot \in Nat
    BY <2>1
  <2> QED BY <2>1, <2>2
<1>2. Child(n) = Min({n, m})
  BY DEF Child
<1> HIDE DEF m
<1> QED BY <1>1, <1>2, MinOfTwo

\* Gross exposure is a number.
LEMMA GrossIsInt == ASSUME Typed PROVE Gross \in Int
<1> DEFINE f == [k \in Key |-> Abs(pos[k]) * price[k[1]]]
<1>1. IsFiniteSet(Key)
  <2> DEFINE g == [s \in Strategy |-> KeyOf(s)]
  <2>1. g \in Surjection(Strategy, Key)
    BY DEF Surjection, Key
  <2> HIDE DEF g
  <2> QED BY <2>1, RiskAssumption, FS_Surjection
<1>2. \A k \in Key : f[k] \in Int
  <2> SUFFICES ASSUME NEW k \in Key PROVE Abs(pos[k]) * price[k[1]] \in Int
    OBVIOUS
  <2>1. k[1] \in Symbol
    BY DEF Key, KeyOf, Symbol
  <2>2. pos[k] \in Int /\ price[k[1]] \in Prices
    BY <2>1 DEF Typed
  <2>3. \A p \in Prices : p \in Int
    BY RiskAssumption
  <2>4. Abs(pos[k]) \in Int
    BY <2>2 DEF Abs
  <2>5. price[k[1]] \in Int
    BY <2>2, <2>3
  <2> QED BY <2>4, <2>5
<1>3. IntOn(f, Key)
  BY <1>2 DEF IntOn
<1> HIDE DEF f
<1>4. SumFunctionOnSet(f, Key) \in Int
  BY <1>1, <1>3, SumIsInt
<1> QED BY <1>4 DEF Gross, f

\* What is approved of a decision: no more than it asked for and, of an entry, no more
\* than the room under the position limit.
LEMMA ApprovedFits ==
  ASSUME Typed, NEW s \in Strategy, NEW w \in Wants(s), Approved(s, w) > 0
  PROVE  LET q == Approved(s, w)
             held == pos[KeyOf(s)]
         IN /\ q \in Nat \ {0}
            /\ w.side \in {BUY, SELL} /\ (IsExit(s, w.side) <=> held # 0)
            /\ held # 0 => w.side * held <= 0 /\ q <= Abs(held)
            /\ held = 0 => w.side \in Rules[s] /\ q * Least(Prices) <= MaxPosition
<1> DEFINE held == pos[KeyOf(s)]
           p == price[SymbolOf[s]]
<1>1. held \in Int /\ p \in Nat \ {0} /\ p \in Prices
  <2>1. KeyOf(s) \in Key /\ SymbolOf[s] \in Symbol
    BY DEF Key, Symbol
  <2> QED BY <2>1, RiskAssumption DEF Typed
<1>2. PICK q : q = Approved(s, w)
  OBVIOUS
<1>3. q = Max({0, Min(Bounds(s, w))}) /\ q > 0
  BY <1>2 DEF Approved
<1>4. /\ held # 0 => w.side = (IF held > 0 THEN SELL ELSE BUY) /\ w.qty = Abs(held)
      /\ held = 0 => w.side \in Rules[s] /\ w.qty \in KellySizes(Size[s])
  BY DEF Wants
<1>5. w.side \in {BUY, SELL} /\ w.qty \in Nat
  <2>1. CASE held # 0
    BY <1>1, <1>4, <2>1 DEF Abs
  <2>2. CASE held = 0
    <3>1. Rules[s] \subseteq {BUY, SELL} /\ Size[s] \in Nat
      BY RiskAssumption DEF BUY, SELL
    <3> QED BY <1>4, <2>2, <3>1 DEF KellySizes
  <2> QED BY <2>1, <2>2
<1>6. IsExit(s, w.side) <=> held # 0
  BY <1>1, <1>4 DEF IsExit, BUY, SELL
<1>7. CASE held # 0
  <2>1. Bounds(s, w) = {w.qty, w.qty}
    BY <1>6, <1>7 DEF Bounds
  <2>2. Min(Bounds(s, w)) = w.qty
    BY <1>5, <2>1, MinOfTwo
  <2>3. q = w.qty
    BY <1>3, <1>5, <2>2, MaxOfTwo
  <2>4. w.side * held <= 0
    BY <1>1, <1>4, <1>7 DEF BUY, SELL
  <2> QED BY <1>1, <1>2, <1>3, <1>4, <1>5, <1>6, <1>7, <2>3, <2>4
<1>8. CASE held = 0
  <2>1. Bounds(s, w) = {w.qty, PositionRoom(s), GrossRoom(s)}
    BY <1>6, <1>8 DEF Bounds
  <2>2. PositionRoom(s) \in Int /\ PositionRoom(s) * p <= MaxPosition
    <3>1. Abs(held) = 0
      BY <1>8 DEF Abs
    <3>2. PositionRoom(s) = InLots(MaxPosition - 0 * p, p)
      BY <3>1 DEF PositionRoom
    <3>3. MaxPosition \in Int /\ MaxPosition - 0 * p = MaxPosition
      BY <1>1, RiskAssumption
    <3> HIDE DEF p
    <3> QED BY <1>1, <3>2, <3>3, InLotsWorth
  <2>3. GrossRoom(s) \in Int
    <3>1. MaxGross - Gross \in Int
      BY GrossIsInt, RiskAssumption
    <3> HIDE DEF p
    <3> QED BY <1>1, <3>1, InLotsWorth DEF GrossRoom, p
  <2>4. PICK n \in Int : n = Min(Bounds(s, w)) /\ n <= w.qty /\ n <= PositionRoom(s)
    <3>1. PICK a \in Int, b \in Int, c \in Int :
            a = w.qty /\ b = PositionRoom(s) /\ c = GrossRoom(s)
      BY <1>5, <2>2, <2>3
    <3>2. Min({a, b, c}) \in Int /\ Min({a, b, c}) <= a /\ Min({a, b, c}) <= b
      BY MinOfThree
    <3> QED BY <2>1, <3>1, <3>2
  <2>5. q = n /\ n > 0
    BY <1>3, <2>4, MaxOfTwo
  <2>6. n * p <= PositionRoom(s) * p
    <3> HIDE DEF p
    <3> QED BY <1>1, <2>2, <2>4, WorthGrows
  <2>7. Least(Prices) * n <= p * n /\ Least(Prices) \in Nat
    <3> HIDE DEF p
    <3>1. Least(Prices) <= p /\ Least(Prices) \in Nat /\ n \in Nat /\ p \in Int
      BY <1>1, <2>5, LeastPrice
    <3> QED BY <3>1, WorthGrows
  <2>8. q * Least(Prices) <= MaxPosition
    <3> HIDE DEF p
    <3>1. PICK l \in Nat : l = Least(Prices)
      BY <2>7
    <3>2. n * l = l * n /\ p * n = n * p /\ n * l \in Int /\ n * p \in Int
      BY <1>1, <3>1
    <3>3. PositionRoom(s) * p \in Int /\ MaxPosition \in Int
      BY <1>1, <2>2, RiskAssumption
    <3>4. n * l <= n * p /\ n * p <= PositionRoom(s) * p /\ PositionRoom(s) * p <= MaxPosition
      BY <2>2, <2>6, <2>7, <3>1, <3>2
    <3>5. n * l <= MaxPosition
      BY <3>2, <3>3, <3>4
    <3> QED BY <2>5, <3>1, <3>5
  <2> QED BY <1>2, <1>3, <1>4, <1>5, <1>6, <1>8, <2>5, <2>8
<1> QED BY <1>7, <1>8
-----------------------------------------------------------------------------
(* What may be held.                                                       *)

\* A position n of a key is under the cap, on a side its strategies enter.
Sound(k, n) ==
  /\ Abs(n) * Least(Prices) <= MaxPosition
  /\ n > 0 => \E r \in Strategy : KeyOf(r) = k /\ BUY \in Rules[r]
  /\ n < 0 => \E r \in Strategy : KeyOf(r) = k /\ SELL \in Rules[r]

\* An entry and the position it adds to stay under the cap together; an exit closes no
\* more than there is.
Within(c, n) ==
  \/ /\ c.entry /\ c.side \in Rules[c.by] /\ c.side * n >= 0
     /\ (Abs(n) + c.open + c.left) * Least(Prices) <= MaxPosition
  \/ ~c.entry /\ c.side * n <= 0 /\ c.open + c.left <= Abs(n)

\* An intent c in flight moves the position of k.
Flies(c, k) == c.status \in InFlight /\ KeyOf(c.by) = k

\* One intent at most moves a position n, and it will leave it sound.
KeyCapped(k, n, q) ==
  /\ Sound(k, n)
  /\ \A i \in DOMAIN q : Flies(q[i], k) =>
       Within(q[i], n) /\ \A j \in DOMAIN q : Flies(q[j], k) => j = i
Capped == \A k \in Key \ doubled : KeyCapped(k, pos[k], intents)

\* What changes of an intent as its children come and go: never its strategy, its side
\* and its kind, and what is open and left does not grow.
Shrinks(d, c) ==
  /\ d \in Intent
  /\ d.by = c.by /\ d.side = c.side /\ d.entry = c.entry
  /\ d.open + d.left <= c.open + c.left

\* An intent that ended has nothing open or left.
LEMMA EndedShrinks == ASSUME NEW c \in Intent PROVE Shrinks(Ended(c), c) /\ Ended(c).status = "done"
<1>1. /\ Ended(c) \in Intent /\ Ended(c).by = c.by /\ Ended(c).side = c.side
      /\ Ended(c).entry = c.entry /\ Ended(c).open = 0 /\ Ended(c).left = 0
      /\ Ended(c).status = "done"
  BY DEF Ended, Intent, Status
<1>2. c.open \in Nat /\ c.left \in Nat
  BY DEF Intent
<1> QED BY <1>1, <1>2 DEF Shrinks

\* Another status keeps what is open and left.
LEMMA StatusShrinks ==
  ASSUME NEW c \in Intent, NEW st \in Status
  PROVE  Shrinks([c EXCEPT !.status = st], c)
<1>1. /\ [c EXCEPT !.status = st] \in Intent
      /\ [c EXCEPT !.status = st].by = c.by /\ [c EXCEPT !.status = st].side = c.side
      /\ [c EXCEPT !.status = st].entry = c.entry /\ [c EXCEPT !.status = st].open = c.open
      /\ [c EXCEPT !.status = st].left = c.left
  BY DEF Intent
<1>2. c.open \in Nat /\ c.left \in Nat
  BY DEF Intent
<1> QED BY <1>1, <1>2 DEF Shrinks

\* A part of the open quantity is filled or cancelled.
LEMMA OpenShrinks ==
  ASSUME NEW c \in Intent, NEW n \in Nat, n <= c.open
  PROVE  /\ Shrinks([c EXCEPT !.open = n], c)
         /\ [c EXCEPT !.open = n].open = n /\ [c EXCEPT !.open = n].left = c.left
         /\ [c EXCEPT !.open = n].status = c.status
<1>1. /\ [c EXCEPT !.open = n] \in Intent
      /\ [c EXCEPT !.open = n].by = c.by /\ [c EXCEPT !.open = n].side = c.side
      /\ [c EXCEPT !.open = n].entry = c.entry /\ [c EXCEPT !.open = n].open = n
      /\ [c EXCEPT !.open = n].left = c.left /\ [c EXCEPT !.open = n].status = c.status
  BY DEF Intent
<1>2. c.open \in Nat /\ c.left \in Nat
  BY DEF Intent
<1> QED BY <1>1, <1>2 DEF Shrinks

\* The next child comes out of what is left.
LEMMA NextChildShrinks == ASSUME NEW c \in Intent PROVE Shrinks(NextChild(c), c)
<1>1. PICK n \in Nat : n = Child(c.left) /\ n <= c.left
  <2>1. c.left \in Nat
    BY DEF Intent
  <2> QED BY <2>1, ChildTakes
<1>2. c.open \in Nat /\ c.left \in Nat /\ c.left - n \in Nat /\ n + (c.left - n) <= c.open + c.left
  BY <1>1 DEF Intent
<1>3. PICK m \in Nat : m = c.left - n
  BY <1>2
<1> DEFINE d == [c EXCEPT !.open = n, !.left = m, !.status = "waiting"]
<1>4. NextChild(c) = d
  BY <1>1, <1>3 DEF NextChild
<1>5. /\ d \in Intent /\ d.by = c.by /\ d.side = c.side /\ d.entry = c.entry
      /\ d.open = n /\ d.left = m
  BY DEF Intent, Status, InFlight
<1> HIDE DEF d
<1> QED BY <1>2, <1>3, <1>4, <1>5 DEF Shrinks

\* What shrinks again has shrunk.
LEMMA ShrinksMore ==
  ASSUME NEW b \in Intent, NEW c, NEW d, Shrinks(d, c), Shrinks(c, b)
  PROVE  Shrinks(d, b)
<1>1. /\ d.open \in Nat /\ d.left \in Nat /\ c.open \in Nat /\ c.left \in Nat
      /\ b.open \in Nat /\ b.left \in Nat
  BY DEF Shrinks, Intent
<1> QED BY <1>1 DEF Shrinks

\* An intent that moves on does not grow.
LEMMA AdvanceShrinks == ASSUME NEW c \in Intent PROVE Shrinks(Advance(c), c)
  BY EndedShrinks, NextChildShrinks DEF Advance

\* A smaller intent is within what a larger one was.
LEMMA SmallerIsWithin ==
  ASSUME NEW c \in Intent, NEW d, Shrinks(d, c), NEW n \in Int, Within(c, n)
  PROVE  Within(d, n)
<1>1. /\ d.open \in Nat /\ d.left \in Nat /\ c.open \in Nat /\ c.left \in Nat /\ Abs(n) \in Nat
      /\ d.open + d.left <= c.open + c.left
      /\ d.by = c.by /\ d.side = c.side /\ d.entry = c.entry
  BY DEF Shrinks, Intent, Abs
<1>2. CASE c.entry
  <2>1. PICK x \in Int, y \in Int, l \in Nat :
          /\ x = Abs(n) + d.open + d.left /\ y = Abs(n) + c.open + c.left /\ l = Least(Prices)
    BY <1>1, LeastPrice
  <2>2. x <= y
    BY <1>1, <2>1
  <2>3. x * l <= y * l
    BY <2>2, WorthGrows
  <2>4. y * l <= MaxPosition /\ MaxPosition \in Int /\ x * l \in Int /\ y * l \in Int
    BY <1>2, <2>1, RiskAssumption DEF Within
  <2>5. x * l <= MaxPosition
    BY <2>3, <2>4
  <2> QED BY <1>1, <1>2, <2>1, <2>5 DEF Within
<1>3. CASE ~c.entry
  BY <1>1, <1>3 DEF Within
<1> QED BY <1>2, <1>3

\* A fill of an intent within its bound leaves a sound position, and the rest of it within.
LEMMA FillIsWithin ==
  ASSUME NEW c \in Intent, NEW k, KeyOf(c.by) = k, NEW n \in Int, Sound(k, n), Within(c, n),
         NEW q \in Nat \ {0}, q <= c.open,
         NEW d, Shrinks(d, c), d.open + d.left <= c.open + c.left - q
  PROVE  Sound(k, n + c.side * q) /\ Within(d, n + c.side * q)
<1>1. /\ d.open \in Nat /\ d.left \in Nat /\ c.open \in Nat /\ c.left \in Nat /\ Abs(n) \in Nat
      /\ d.by = c.by /\ d.side = c.side /\ d.entry = c.entry /\ c.by \in Strategy
      /\ c.side \in {1, -1}
  BY DEF Shrinks, Intent, Abs, BUY, SELL
<1>2. PICK m \in Int : m = n + c.side * q
  BY <1>1
<1>3. PICK l \in Nat : l = Least(Prices)
  BY LeastPrice
<1>4. Abs(m) \in Nat
  BY DEF Abs
<1>5. CASE c.entry
  <2>1. c.side * n >= 0 /\ c.side \in Rules[c.by]
    BY <1>5 DEF Within
  <2>2. Abs(m) = Abs(n) + q /\ c.side * m >= 0
    <3>1. CASE c.side = 1
      BY <1>2, <2>1, <3>1 DEF Abs
    <3>2. CASE c.side = -1
      BY <1>2, <2>1, <3>2 DEF Abs
    <3> QED BY <1>1, <3>1, <3>2
  <2>3. PICK y \in Int : y = Abs(n) + c.open + c.left
    BY <1>1
  <2>4. y * l <= MaxPosition /\ MaxPosition \in Int /\ y * l \in Int
    BY <1>3, <1>5, <2>3, RiskAssumption DEF Within
  <2>5. Abs(m) * l <= y * l /\ Abs(m) * l \in Int
    <3>1. Abs(m) <= y
      BY <1>1, <1>4, <2>2, <2>3
    <3> QED BY <1>4, <3>1, WorthGrows
  <2>6. Abs(m) * l <= MaxPosition
    BY <2>4, <2>5
  <2>7. PICK x \in Int : x = Abs(m) + d.open + d.left
    BY <1>1, <1>4
  <2>8. x * l <= y * l /\ x * l \in Int
    <3>1. x <= y
      BY <1>1, <1>4, <2>2, <2>3, <2>7
    <3> QED BY <3>1, WorthGrows
  <2>9. x * l <= MaxPosition
    BY <2>4, <2>8
  <2>10. Within(d, m)
    BY <1>1, <1>3, <1>5, <2>1, <2>2, <2>7, <2>9 DEF Within
  <2>11. Sound(k, m)
    <3>1. m > 0 => c.side = BUY
      BY <1>1, <1>2, <2>2 DEF BUY
    <3>2. m < 0 => c.side = SELL
      BY <1>1, <1>2, <2>2 DEF SELL
    <3> QED BY <1>1, <1>3, <2>1, <2>6, <3>1, <3>2 DEF Sound
  <2> QED BY <1>2, <2>10, <2>11
<1>6. CASE ~c.entry
  <2>1. c.side * n <= 0 /\ c.open + c.left <= Abs(n)
    BY <1>6 DEF Within
  <2>2. /\ Abs(m) = Abs(n) - q /\ c.side * m <= 0
        /\ (m > 0 => n > 0) /\ (m < 0 => n < 0)
    <3>1. CASE c.side = 1
      BY <1>1, <1>2, <2>1, <3>1 DEF Abs
    <3>2. CASE c.side = -1
      BY <1>1, <1>2, <2>1, <3>2 DEF Abs
    <3> QED BY <1>1, <3>1, <3>2
  <2>3. Abs(m) * l <= Abs(n) * l /\ Abs(m) * l \in Int /\ Abs(n) * l \in Int
    <3>1. Abs(m) <= Abs(n)
      BY <1>1, <1>4, <2>2
    <3> QED BY <1>1, <1>4, <3>1, WorthGrows
  <2>4. Abs(n) * l <= MaxPosition /\ MaxPosition \in Int
    BY <1>3, RiskAssumption DEF Sound
  <2>5. Abs(m) * l <= MaxPosition
    BY <2>3, <2>4
  <2>6. Sound(k, m)
    BY <1>3, <2>2, <2>5 DEF Sound
  <2>7. Within(d, m)
    BY <1>1, <1>4, <1>6, <2>1, <2>2 DEF Within
  <2> QED BY <1>2, <2>6, <2>7
<1> QED BY <1>5, <1>6

\* One intent changes, and with it at most the position it moves.
LEMMA ChangeCapped ==
  ASSUME NEW k, NEW n, NEW m, NEW q, NEW i \in DOMAIN q, NEW d,
         KeyCapped(k, n, q), Sound(k, m),
         Flies(d, k) => Flies(q[i], k) /\ Within(d, m),
         m = n \/ Flies(q[i], k)
  PROVE  KeyCapped(k, m, [q EXCEPT ![i] = d])
<1>1. PICK r : r = [q EXCEPT ![i] = d]
  OBVIOUS
<1>2. DOMAIN r = DOMAIN q /\ r[i] = d /\ \A j \in DOMAIN q : j # i => r[j] = q[j]
  BY <1>1
<1>3. ASSUME NEW j \in DOMAIN q, Flies(r[j], k) PROVE Flies(q[j], k) /\ Within(r[j], m)
  <2>1. CASE j = i
    BY <1>2, <1>3, <2>1
  <2>2. CASE j # i
    BY <1>2, <1>3, <2>2 DEF KeyCapped
  <2> QED BY <2>1, <2>2
<1> QED BY <1>1, <1>2, <1>3 DEF KeyCapped
-----------------------------------------------------------------------------
(* Every step keeps positions within what was approved.                    *)

\* One intent changes and moves no position.
LEMMA ShrinkCapped ==
  ASSUME Typed, Capped, NEW i \in DOMAIN intents, NEW d, Shrinks(d, intents[i]),
         d.status \in InFlight => intents[i].status \in InFlight,
         intents' = [intents EXCEPT ![i] = d], UNCHANGED <<pos, price, doubled>>
  PROVE  Typed' /\ Capped'
<1>1. d \in Intent /\ intents[i] \in Intent /\ d.by = intents[i].by
  BY DEF Shrinks, Typed
<1>2. Typed'
  BY <1>1 DEF Typed
<1>3. ASSUME NEW k \in Key \ doubled PROVE KeyCapped(k, pos[k], [intents EXCEPT ![i] = d])
  <2>1. KeyCapped(k, pos[k], intents) /\ pos[k] \in Int
    BY DEF Capped, Typed
  <2>2. ASSUME Flies(d, k) PROVE Flies(intents[i], k) /\ Within(d, pos[k])
    <3>1. Flies(intents[i], k)
      BY <1>1, <2>2 DEF Flies
    <3>2. Within(intents[i], pos[k])
      BY <2>1, <3>1 DEF KeyCapped
    <3> QED BY <1>1, <2>1, <3>1, <3>2, SmallerIsWithin
  <2> QED BY <2>1, <2>2, ChangeCapped DEF KeyCapped
<1> QED BY <1>2, <1>3 DEF Capped

\* A child that is placed keeps positions sound: what is in flight leaves none past its cap.
LEMMA PlaceCapped ==
  ASSUME Typed, Capped, NEW i \in DOMAIN intents, Place(i) PROVE Typed' /\ Capped'
<1>1. PICK c \in Intent : c = intents[i]
  BY DEF Typed
<1>2. c.status = "waiting" /\ UNCHANGED <<pos, price, doubled>>
  BY <1>1 DEF Place, book
<1>3. \E d : /\ intents' = [intents EXCEPT ![i] = d] /\ Shrinks(d, c)
  <2>1. CASE intents' = [intents EXCEPT ![i].status = "working"]
    <3>1. "working" \in Status
      BY DEF Status, InFlight
    <3> QED BY <1>1, <2>1, <3>1, StatusShrinks
  <2>2. CASE intents' = [intents EXCEPT ![i] = Ended(c)]
    BY <2>2, EndedShrinks
  <2>3. CASE intents' = [intents EXCEPT ![i] = [Ended(c) EXCEPT !.status = "lost"]]
    <3>1. Ended(c) \in Intent /\ "lost" \in Status
      BY EndedShrinks DEF Shrinks, Status
    <3>2. Shrinks([Ended(c) EXCEPT !.status = "lost"], c)
      BY <3>1, EndedShrinks, StatusShrinks, ShrinksMore
    <3> QED BY <2>3, <3>2
  <2> QED BY <1>1, <2>1, <2>2, <2>3 DEF Place
<1> QED BY <1>1, <1>2, <1>3, ShrinkCapped DEF InFlight

\* So does one that is cancelled.
LEMMA CancelCapped ==
  ASSUME Typed, Capped, NEW i \in DOMAIN intents, Cancel(i) PROVE Typed' /\ Capped'
<1>1. PICK c \in Intent : c = intents[i]
  BY DEF Typed
<1>2. PICK b : b = [c EXCEPT !.open = 0]
  OBVIOUS
<1>3. /\ c.status = "working" /\ UNCHANGED <<pos, price, doubled>>
      /\ intents' = [intents EXCEPT ![i] = Advance(b)]
  BY <1>1, <1>2 DEF Cancel, book
<1>4. Shrinks(b, c)
  <2>1. 0 \in Nat /\ 0 <= c.open
    BY DEF Intent
  <2> QED BY <1>2, <2>1, OpenShrinks
<1>5. Shrinks(Advance(b), c)
  <2>1. b \in Intent
    BY <1>4 DEF Shrinks
  <2> QED BY <1>4, <2>1, AdvanceShrinks, ShrinksMore
<1> QED BY <1>1, <1>3, <1>5, ShrinkCapped DEF InFlight

\* So does a fill: the position takes what was in flight.
LEMMA FillCapped ==
  ASSUME Typed, Capped, NEW i \in DOMAIN intents, NEW q \in 1..intents[i].open, Fill(i, q)
  PROVE  Typed' /\ Capped'
<1>1. PICK c \in Intent : c = intents[i]
  BY DEF Typed
<1>2. PICK k \in Key : k = KeyOf(c.by)
  BY DEF Intent, Key
<1>3. c.open \in Nat /\ c.left \in Nat /\ c.side \in {1, -1} /\ q \in Nat \ {0} /\ q <= c.open
  BY <1>1 DEF Intent, BUY, SELL
<1>4. /\ c.status = "working" /\ UNCHANGED <<price, doubled>>
      /\ pos' = [pos EXCEPT ![k] = @ + c.side * q]
      /\ intents' = [intents EXCEPT ![i] =
           IF q = c.open THEN Advance([c EXCEPT !.open = 0]) ELSE [c EXCEPT !.open = c.open - q]]
  BY <1>1, <1>2 DEF Fill
<1>5. PICK d : /\ intents' = [intents EXCEPT ![i] = d] /\ Shrinks(d, c)
               /\ d.open + d.left <= c.open + c.left - q
  <2>1. CASE q = c.open
    <3>1. PICK b : b = [c EXCEPT !.open = 0]
      OBVIOUS
    <3>2. Shrinks(b, c) /\ b \in Intent /\ b.open = 0 /\ b.left = c.left
      BY <1>3, <3>1, OpenShrinks DEF Shrinks
    <3>3. Shrinks(Advance(b), b) /\ Shrinks(Advance(b), c)
      BY <3>2, AdvanceShrinks, ShrinksMore
    <3>4. Advance(b).open \in Nat /\ Advance(b).left \in Nat
      BY <3>3 DEF Shrinks, Intent
    <3>5. Advance(b).open + Advance(b).left <= c.open + c.left - q
      BY <1>3, <2>1, <3>2, <3>3, <3>4 DEF Shrinks
    <3> QED BY <1>4, <2>1, <3>1, <3>3, <3>5
  <2>2. CASE q # c.open
    <3>1. PICK n \in Nat : n = c.open - q /\ n <= c.open
      BY <1>3
    <3>2. PICK b : b = [c EXCEPT !.open = n]
      OBVIOUS
    <3>3. Shrinks(b, c) /\ b.open = n /\ b.left = c.left
      BY <3>1, <3>2, OpenShrinks
    <3>4. b.open + b.left <= c.open + c.left - q
      BY <1>3, <3>1, <3>3
    <3> QED BY <1>4, <2>2, <3>1, <3>2, <3>3, <3>4
  <2> QED BY <2>1, <2>2
<1>6. d \in Intent /\ d.by = c.by
  BY <1>5 DEF Shrinks
<1>7. /\ pos[k] \in Int /\ c.side * q \in Int
      /\ pos'[k] = pos[k] + c.side * q
      /\ \A y \in Key : y # k => pos'[y] = pos[y]
  <2>1. c.side * q \in Int
    BY <1>3
  <2> QED BY <1>4, <2>1 DEF Typed
<1>8. Typed'
  <2>1. pos' \in [Key -> Int]
    BY <1>4, <1>7 DEF Typed
  <2>2. intents \in Seq(Intent) /\ intents' = [intents EXCEPT ![i] = d]
    BY <1>5 DEF Typed
  <2>3. intents' \in Seq(Intent)
    BY <1>6, <2>2
  <2>4. price' \in [Symbol -> Prices]
    BY <1>4 DEF Typed
  <2> QED BY <2>1, <2>3, <2>4 DEF Typed
<1>9. ASSUME NEW y \in Key \ doubled PROVE KeyCapped(y, pos'[y], [intents EXCEPT ![i] = d])
  <2>1. KeyCapped(y, pos[y], intents) /\ pos[y] \in Int
    BY DEF Capped, Typed
  <2>2. CASE y = k
    <3>1. Flies(c, k)
      BY <1>2, <1>4 DEF Flies, InFlight
    <3>2. Within(c, pos[k]) /\ Sound(k, pos[k])
      BY <1>1, <2>1, <2>2, <3>1 DEF KeyCapped
    <3>3. Sound(k, pos'[k]) /\ Within(d, pos'[k])
      BY <1>2, <1>3, <1>5, <1>7, <3>2, FillIsWithin
    <3> QED BY <1>1, <2>1, <2>2, <3>1, <3>3, ChangeCapped
  <2>3. CASE y # k
    <3>1. pos'[y] = pos[y] /\ ~Flies(d, y)
      BY <1>2, <1>6, <1>7, <2>3 DEF Flies
    <3> QED BY <2>1, <3>1, ChangeCapped DEF KeyCapped
  <2> QED BY <2>2, <2>3
<1> QED BY <1>4, <1>5, <1>8, <1>9 DEF Capped

\* A new intent is alone in moving its position, or the key is on record.
LEMMA DecideCapped ==
  ASSUME Typed, Capped, NEW s \in Strategy, Decide(s) PROVE Typed' /\ Capped'
<1>1. PICK w \in Wants(s) : OnIntent(s, w)
  BY DEF Decide
<1>2. UNCHANGED <<pos, price>>
  BY DEF Decide, book
<1>3. PICK q : q = Approved(s, w)
  OBVIOUS
<1>4. PICK k \in Key : k = KeyOf(s)
  BY DEF Key
<1>5. PICK n \in Int : n = pos[k]
  BY DEF Typed
<1>6. /\ q > 0 /\ q \in Nat \ {0}
      /\ w.side \in {BUY, SELL} /\ (IsExit(s, w.side) <=> n # 0)
      /\ n # 0 => w.side * n <= 0 /\ q <= Abs(n)
      /\ n = 0 => w.side \in Rules[s] /\ q * Least(Prices) <= MaxPosition
  <2>1. q > 0
    BY <1>1, <1>3 DEF OnIntent
  <2> QED BY <1>3, <1>4, <1>5, <2>1, ApprovedFits
<1>7. PICK a \in Nat, b \in Nat : a = Child(q) /\ b = q - Child(q)
  BY <1>6, ChildTakes
<1>8. PICK c : c = BuildIntent(s, w, q)
  OBVIOUS
<1>9. /\ c \in Intent /\ c.by = s /\ c.side = w.side /\ c.entry = (n = 0)
      /\ c.status \in InFlight => ~halted
      /\ ~halted => c.open = a /\ c.left = b
  <2>1. c = [by |-> s, side |-> w.side, entry |-> ~IsExit(s, w.side), ours |-> TRUE,
             open |-> IF halted THEN 0 ELSE a, left |-> IF halted THEN 0 ELSE b,
             status |-> IF halted THEN "refused" ELSE "waiting"]
    BY <1>7, <1>8 DEF BuildIntent
  <2>2. IsExit(s, w.side) \in BOOLEAN
    BY DEF IsExit
  <2>3. c.entry = (n = 0)
    BY <1>6, <2>1, <2>2
  <2> QED BY <1>6, <1>7, <2>1, <2>2, <2>3 DEF Intent, Status, InFlight
<1>10. /\ intents' = Append(intents, c)
       /\ doubled' = IF ~halted /\ Busy(k) THEN doubled \cup {k} ELSE doubled
  BY <1>1, <1>3, <1>4, <1>8 DEF OnIntent
<1>11. Typed'
  BY <1>2, <1>9, <1>10 DEF Typed
<1>12. /\ DOMAIN intents' = DOMAIN intents \cup {Len(intents) + 1}
       /\ Len(intents) + 1 \notin DOMAIN intents
       /\ intents'[Len(intents) + 1] = c
       /\ \A j \in DOMAIN intents : intents'[j] = intents[j]
  BY <1>10 DEF Typed
<1>13. ASSUME NEW y \in Key \ doubled' PROVE KeyCapped(y, pos'[y], intents')
  <2>1. y \in Key \ doubled /\ KeyCapped(y, pos[y], intents)
    BY <1>10 DEF Capped
  <2>2. CASE Flies(c, y)
    <3>1. y = k /\ ~halted
      BY <1>4, <1>9, <2>2 DEF Flies
    <3>2. \A j \in DOMAIN intents : ~Flies(intents[j], y)
      BY <1>10, <1>13, <3>1 DEF Busy, Flies
    <3>3. Within(c, n)
      <4>1. c.open = a /\ c.left = b /\ a + b = q /\ Abs(n) \in Nat
        BY <1>6, <1>7, <1>9, <3>1 DEF Abs
      <4>2. CASE n = 0
        <5>1. Abs(n) + c.open + c.left = q
          BY <1>6, <1>7, <4>1, <4>2 DEF Abs
        <5>2. c.side * n >= 0
          BY <1>6, <1>9, <4>2 DEF BUY, SELL
        <5> QED BY <1>6, <1>9, <4>2, <5>1, <5>2 DEF Within
      <4>3. CASE n # 0
        BY <1>6, <1>7, <1>9, <4>1, <4>3 DEF Within
      <4> QED BY <4>2, <4>3
    <3> QED BY <1>2, <1>5, <1>12, <2>1, <3>1, <3>2, <3>3 DEF KeyCapped
  <2>3. CASE ~Flies(c, y)
    BY <1>2, <1>12, <2>1, <2>3 DEF KeyCapped
  <2> QED BY <2>2, <2>3
<1> QED BY <1>11, <1>13 DEF Capped

\* What a restart leaves of an intent is a part of it, and nothing new is in flight.
LEMMA RestartCapped == ASSUME Typed, Capped, Restart PROVE Typed' /\ Capped'
<1>1. PICK reached \in SUBSET {i \in DOMAIN intents : intents[i].status = "waiting"} :
        intents' = [i \in DOMAIN intents |->
          IF intents[i].status = "working" \/ i \in reached
          THEN [intents[i] EXCEPT !.status = "working", !.ours = FALSE, !.left = 0]
          ELSE Ended(intents[i])]
  BY DEF Restart
<1>2. UNCHANGED <<pos, price, doubled>>
  BY DEF Restart
<1>3. ASSUME NEW c \in Intent
      PROVE  Shrinks([c EXCEPT !.status = "working", !.ours = FALSE, !.left = 0], c)
  <2>1. PICK d : d = [c EXCEPT !.status = "working", !.ours = FALSE, !.left = 0]
    OBVIOUS
  <2>2. /\ d \in Intent /\ d.by = c.by /\ d.side = c.side /\ d.entry = c.entry
        /\ d.open = c.open /\ d.left = 0
    BY <2>1 DEF Intent, Status, InFlight
  <2>3. c.open \in Nat /\ c.left \in Nat
    BY DEF Intent
  <2> QED BY <2>1, <2>2, <2>3 DEF Shrinks
<1>4. DOMAIN intents' = DOMAIN intents
  BY <1>1
<1>5. ASSUME NEW i \in DOMAIN intents
      PROVE  /\ Shrinks(intents'[i], intents[i]) /\ intents[i] \in Intent
             /\ intents'[i].status \in InFlight => intents[i].status \in InFlight
  <2>1. intents[i] \in Intent
    BY DEF Typed
  <2>2. CASE intents[i].status = "working" \/ i \in reached
    <3>1. intents[i].status \in InFlight
      BY <2>2 DEF InFlight
    <3>2. intents'[i] = [intents[i] EXCEPT !.status = "working", !.ours = FALSE, !.left = 0]
      BY <1>1, <2>2
    <3> QED BY <1>3, <2>1, <3>1, <3>2
  <2>3. CASE ~(intents[i].status = "working" \/ i \in reached)
    <3>1. intents'[i] = Ended(intents[i])
      BY <1>1, <2>3
    <3> QED BY <2>1, <3>1, EndedShrinks DEF InFlight
  <2> QED BY <2>2, <2>3
<1>6. Typed'
  <2>1. DOMAIN intents = 1..Len(intents) /\ Len(intents) \in Nat
    BY DEF Typed
  <2>2. \A i \in DOMAIN intents : intents'[i] \in Intent
    BY <1>5 DEF Shrinks
  <2>3. PICK q : q = intents' /\ q = [i \in DOMAIN intents |-> intents'[i]]
    BY <1>1
  <2>4. q \in [1..Len(intents) -> Intent]
    BY <2>1, <2>2, <2>3
  <2>5. intents' \in Seq(Intent)
    BY <2>1, <2>3, <2>4
  <2> QED BY <1>2, <2>5 DEF Typed
<1>7. ASSUME NEW k \in Key \ doubled PROVE KeyCapped(k, pos[k], intents')
  <2>1. KeyCapped(k, pos[k], intents) /\ pos[k] \in Int
    BY DEF Capped, Typed
  <2>2. ASSUME NEW i \in DOMAIN intents, Flies(intents'[i], k)
        PROVE  Flies(intents[i], k) /\ Within(intents'[i], pos[k])
    <3>1. Flies(intents[i], k)
      BY <1>5, <2>2 DEF Flies, Shrinks
    <3>2. Within(intents[i], pos[k])
      BY <2>1, <3>1 DEF KeyCapped
    <3> QED BY <1>5, <2>1, <3>1, <3>2, SmallerIsWithin
  <2> QED BY <1>4, <2>1, <2>2 DEF KeyCapped
<1> QED BY <1>2, <1>6, <1>7 DEF Capped

\* Every step keeps positions, with what is in flight, within their caps.
LEMMA CappedStep == ASSUME Typed, Capped, [Next]_vars PROVE Typed' /\ Capped'
<1>1. CASE UNCHANGED vars \/ Control \/ NextDay
  <2>1. UNCHANGED <<pos, price, intents, doubled>>
    BY <1>1 DEF vars, book, Control, ExecKill, RiskKill, Resume, NextDay
  <2> QED BY <2>1 DEF Typed, Capped
<1>2. CASE Market
  <2>1. PICK sym \in Symbol, p \in Prices : Mark(sym, p)
    BY <1>2 DEF Market
  <2>2. UNCHANGED <<pos, intents, doubled>> /\ price' = [price EXCEPT ![sym] = p]
    BY <2>1 DEF Mark
  <2> QED BY <2>2 DEF Typed, Capped
<1>3. CASE Signals
  BY <1>3, DecideCapped DEF Signals
<1>4. CASE Orders
  BY <1>4, PlaceCapped, CancelCapped, FillCapped DEF Orders
<1>5. CASE Restart
  BY <1>5, RestartCapped
<1> QED BY <1>1, <1>2, <1>3, <1>4, <1>5 DEF Next

\* There are no positions and no intents at first.
LEMMA CappedInit == ASSUME Init PROVE Typed /\ Capped
<1>1. /\ pos = [k \in Key |-> 0] /\ price \in [Symbol -> Prices] /\ intents = <<>>
  BY DEF Init
<1>2. Typed
  BY <1>1 DEF Typed
<1>3. \A k \in Key : Sound(k, 0)
  <2>1. Abs(0) * Least(Prices) <= MaxPosition
    <3>1. Abs(0) = 0 /\ Least(Prices) \in Nat /\ MaxPosition \in Nat
      BY LeastPrice, RiskAssumption DEF Abs
    <3> QED BY <3>1
  <2> QED BY <2>1 DEF Sound
<1> QED BY <1>1, <1>2, <1>3 DEF Capped, KeyCapped

\* Caps and directions hold of every position, for any strategies, prices, lots, slices
\* and limits, as long as no order of its key was approved while another was in flight
\* (risk.py: evaluate, _position_value, _gross_exposure; execution.py: plan_slices).
THEOREM PositionsStaySound == Spec => []PositionSound
<1>1. Init => Typed /\ Capped
  BY CappedInit
<1>2. (Typed /\ Capped) /\ [Next]_vars => (Typed /\ Capped)'
  BY CappedStep
<1>3. Typed /\ Capped => PositionSound
  <2> SUFFICES ASSUME Capped, NEW s \in Strategy, KeyOf(s) \notin doubled
               PROVE  Sound(KeyOf(s), pos[KeyOf(s)])
    BY DEF PositionSound, Sound
  <2>1. KeyOf(s) \in Key
    BY DEF Key
  <2> QED BY <2>1 DEF Capped, KeyCapped
<1> QED BY <1>1, <1>2, <1>3, PTL DEF Spec
===============================================================================
