------------------------------ MODULE DhanProofs ------------------------------
(***************************************************************************)
(* That the agent keeps track of its orders at Dhan, sends the slices of a *)
(* plan one at a time, and hears of what ends and fills unless the history *)
(* says why not, for every plan, any number of retries, chases, lost       *)
(* calls, disconnects and restarts.                                        *)
(***************************************************************************)
EXTENDS DhanOrders, SequenceTheorems, WellFoundedInduction, TLAPS

News == [id: Child, copy: Copy]

Typed ==
  /\ market \in [Child -> Copy] /\ stream \in Seq(News)
  /\ calls \in [Task -> Call] /\ todo \in [Task -> SUBSET Child]
  /\ placed \in 0..Slices /\ DOMAIN working \subseteq Child

\* Only slices that were asked for are known to anyone.
Numbered ==
  /\ \A c \in Child : market[c].status # "none" => c <= placed
  /\ \A c \in DOMAIN working : c <= placed
  /\ \A t \in Task : \A c \in todo[t] : c <= placed
  /\ \A t \in Task : calls[t].op # "idle" => calls[t].id \in Child /\ calls[t].id <= placed

\* A slice whose placement is awaited is nobody else's business.
Exclusive ==
  \A t \in Task : calls[t].op = "place" =>
    /\ calls[t].id \notin DOMAIN working
    /\ \A u \in Task : /\ calls[t].id \notin todo[u]
                       /\ u # t /\ calls[u].op # "idle" => calls[u].id # calls[t].id

\* What a call was answered still holds: closed is closed, and a placement is answered
\* with an order or rejected.
Settled(c) == market[c].status \in Closed
AnswerHolds(k) ==
  /\ k.op = "place" => k.reply # Refused /\ k.reply.status # "none"
  /\ k.op = "place" /\ k.reply.status \in Closed => market[k.id].status # "open"
  /\ k.op = "place" /\ k.reply.status = "filled" => Settled(k.id)
  /\ k.op = "relook" /\ k.reply.status \in Closed => Settled(k.id)
  /\ k.op = "cancel" /\ k.reply # Waiting /\ k.reply # Refused => Settled(k.id)
Truthful ==
  /\ \A k \in 1..Len(stream) : stream[k].copy.status \in Closed => Settled(stream[k].id)
  /\ \A t \in Task : AnswerHolds(calls[t])

\* An order that was followed by another is over, and nobody will end it once more;
\* what an earlier process left is nobody's.
Over(c) == c \in disowned \/ (market[c].status # "open" /\ ~Placing(c))
Quiet(c) ==
  /\ c \notin DOMAIN working
  /\ \A t \in Task : c \notin todo[t] /\ (calls[t].op # "idle" => calls[t].id # c)
Succession ==
  /\ \A c \in Child : c < placed => Over(c) /\ (c \in advanced \/ Quiet(c))
  /\ ~approved => \A c \in Child : c <= placed => c \in disowned /\ Quiet(c)

Inv == Typed /\ Numbered /\ Exclusive /\ Truthful /\ Tracked /\ Succession
-----------------------------------------------------------------------------
(* Records and minima.                                                     *)

\* The fields of a call.
LEMMA CallFields ==
  ASSUME NEW k \in Call
  PROVE  /\ k.op \in Op \cup {"idle"} /\ k.reply \in Copy \cup {Waiting, Refused}
         /\ k.op # "idle" => k.id \in Child
         /\ k.op = "idle" => k = NoCall
  BY DEF Call, NoCall, Op

\* A new request.
LEMMA Asked ==
  ASSUME DhanAssumption, NEW op \in Op, NEW c \in Child
  PROVE  /\ Ask(op, c) \in Call
         /\ Ask(op, c).op = op /\ Ask(op, c).id = c /\ Ask(op, c).reply = Waiting
  BY DEF DhanAssumption, Ask, Call

\* A call that is answered, or asked again.
LEMMA Replied ==
  ASSUME NEW k \in Call, k.op # "idle", NEW r \in Copy \cup {Waiting, Refused},
         NEW n \in 0..MaxRetries
  PROVE  /\ [k EXCEPT !.reply = r] \in Call
         /\ [k EXCEPT !.reply = r].op = k.op /\ [k EXCEPT !.reply = r].id = k.id
         /\ [k EXCEPT !.reply = r].reply = r
         /\ [k EXCEPT !.tries = n, !.reply = r] \in Call
         /\ [k EXCEPT !.tries = n, !.reply = r].op = k.op
         /\ [k EXCEPT !.tries = n, !.reply = r].id = k.id
         /\ [k EXCEPT !.tries = n, !.reply = r].reply = r
<1>1. k \in [op: Op, id: Child, tries: 0..MaxRetries, reply: Copy \cup {Waiting, Refused}]
  BY DEF Call, NoCall
<1> QED BY <1>1 DEF Call

\* What an idle task says, and what a status is.
LEMMA Idle ==
  /\ NoCall \in Call /\ NoCall.op = "idle" /\ NoCall.reply = Waiting
  /\ Waiting # Refused /\ Waiting.status = "waiting" /\ Refused.status = "refused"
  /\ Waiting \notin Copy /\ Refused \notin Copy
  /\ Closed \subseteq Status \ {"none", "open"}
  BY DEF NoCall, Call, Waiting, Refused, As, Copy, Closed, Status

\* The fields of a copy.
LEMMA AsFields ==
  ASSUME NEW s, NEW q
  PROVE  /\ As(s, q).status = s /\ As(s, q).filled = q
         /\ s \in Status /\ q \in Nat => As(s, q) \in Copy
  BY DEF As, Copy

\* A walk takes the least of the orders it has left.
LEMMA LeastIsMember ==
  ASSUME DhanAssumption, NEW S \in SUBSET Child, S # {}
  PROVE  Min(S) \in S
<1> DEFINE R == OpToRel(<, Nat)
<1>1. S \subseteq Nat
  BY DEF DhanAssumption, Child
<1>2. IsWellFoundedOn(R, Nat)
  BY NatLessThanWellFounded
<1>3. \A x, y \in Nat : y < x => <<y, x>> \in R
  BY DEF OpToRel
<1> HIDE DEF R
<1>4. PICK x \in S : \A y \in S : ~ (<<y, x>> \in R)
  BY <1>1, <1>2, WFMin
<1>5. \A y \in S : x <= y
  <2> TAKE y \in S
  <2>1. ~(y < x)
    BY <1>1, <1>3, <1>4
  <2> QED BY <1>1, <2>1
<1> QED BY <1>5, Zenon DEF Min
-----------------------------------------------------------------------------
(* The exchange and the calls.                                             *)

\* The exchange moves an order that works there.
LEMMA MarketMoves ==
  ASSUME Inv, NEW c \in Child, NEW copy \in Copy, copy.status # "none",
         market[c].status = "open", Becomes(c, copy),
         UNCHANGED <<calls, todo, working, placed, advanced, approved, disowned>>
  PROVE  Inv'
<1>1. market' = [market EXCEPT ![c] = copy] /\ market \in [Child -> Copy]
  BY DEF Becomes, Inv, Typed
<1>2. stream' = stream \/ stream' = Append(stream, Update(c, copy))
  BY DEF Becomes
<1>3. Typed'
  <2>1. Update(c, copy) \in News
    BY DEF Update, News
  <2>2. stream' \in Seq(News)
    BY <1>2, <2>1 DEF Inv, Typed
  <2> QED BY <1>1, <2>2 DEF Inv, Typed
<1>4. Numbered'
  BY <1>1 DEF Inv, Numbered
<1>5. Exclusive'
  BY DEF Inv, Exclusive
<1>6. \A d \in Child : market[d].status \in Closed => market'[d] = market[d] /\ d # c
  BY <1>1, Idle
<1>7. Truthful'
  <2>1. ASSUME NEW k \in 1..Len(stream'), stream'[k].copy.status \in Closed
        PROVE  market'[stream'[k].id].status \in Closed
    <3>1. CASE k \in 1..Len(stream) /\ stream'[k] = stream[k]
      <4>1. stream[k] \in News /\ market[stream[k].id].status \in Closed
        BY <2>1, <3>1 DEF Inv, Typed, Truthful, Settled
      <4> QED BY <4>1, <3>1, <1>6 DEF News
    <3>2. CASE stream'[k] = Update(c, copy)
      BY <3>2, <2>1, <1>1 DEF Update
    <3>3. \/ k \in 1..Len(stream) /\ stream'[k] = stream[k]
          \/ stream'[k] = Update(c, copy)
      BY <1>2 DEF Inv, Typed
    <3> QED BY <3>1, <3>2, <3>3
  <2>2. ASSUME NEW t \in Task
        PROVE  AnswerHolds(calls[t])'
    <3>1. AnswerHolds(calls[t]) /\ (calls[t].op # "idle" => calls[t].id \in Child)
      BY DEF Inv, Truthful, Numbered
    <3> QED BY <3>1, <1>1, <1>6, Idle DEF AnswerHolds, Settled
  <2> QED BY <2>1, <2>2 DEF Truthful, Settled
<1>8. Tracked'
  BY <1>1 DEF Inv, Tracked, Placing
<1>9. Succession'
  <2>1. \A d \in Child : Over(d) => Over(d)'
    BY <1>1 DEF Over, Placing
  <2>2. \A d \in Child : Quiet(d) => Quiet(d)'
    BY DEF Quiet
  <2> QED BY <2>1, <2>2 DEF Inv, Succession
<1> QED BY <1>3, <1>4, <1>5, <1>7, <1>8, <1>9 DEF Inv

\* A call is answered, and the exchange as it is bears the answer out, or is asked again.
LEMMA CallGoesOn ==
  ASSUME Inv, NEW t \in Task, NEW k \in Call, calls[t].op # "idle",
         k.op = calls[t].op, k.id = calls[t].id, AnswerHolds(k),
         calls' = [calls EXCEPT ![t] = k],
         UNCHANGED <<market, stream, todo, working, placed, advanced, approved, disowned>>
  PROVE  Inv'
<1>1. calls' \in [Task -> Call] /\ calls'[t] = k /\ \A u \in Task : u # t => calls'[u] = calls[u]
  BY DEF Inv, Typed
<1>2. \A u \in Task : calls'[u].op = calls[u].op /\ calls'[u].id = calls[u].id
  BY <1>1
<1>3. Typed'
  BY <1>1 DEF Inv, Typed
<1>4. Numbered'
  BY <1>2 DEF Inv, Numbered
<1>5. Exclusive'
  BY <1>2 DEF Inv, Exclusive
<1>6. Truthful'
  <2>1. ASSUME NEW u \in Task
        PROVE  AnswerHolds(calls[u])'
    <3>1. AnswerHolds(calls'[u])
      BY <1>1 DEF Inv, Truthful
    <3> QED BY <3>1 DEF AnswerHolds, Settled
  <2> QED BY <2>1 DEF Inv, Truthful, Settled
<1>7. Tracked'
  BY <1>2 DEF Inv, Tracked, Placing
<1>8. Succession'
  BY <1>2 DEF Inv, Succession, Over, Quiet, Placing
<1> QED BY <1>3, <1>4, <1>5, <1>6, <1>7, <1>8 DEF Inv

\* A call ends, or makes way for the next request about the same order.
LEMMA CallMovesOn ==
  ASSUME Inv, NEW t \in Task, NEW k \in Call,
         k = NoCall \/ (k.op \in {"put", "relook"} /\ k.id = calls[t].id /\ k.reply = Waiting),
         calls[t].op # "idle", calls[t].op = "place" => calls[t].id \in disowned',
         calls' = [calls EXCEPT ![t] = k], disowned \subseteq disowned',
         UNCHANGED <<market, stream, todo, working, placed, advanced, approved>>
  PROVE  Inv'
<1>1. calls' \in [Task -> Call] /\ calls'[t] = k /\ \A u \in Task : u # t => calls'[u] = calls[u]
  BY DEF Inv, Typed
<1>2. \A u \in Task :
        /\ calls'[u].op # "idle" => calls[u].op # "idle" /\ calls'[u].id = calls[u].id
        /\ calls'[u].op = "place" => u # t /\ calls[u].op = "place"
  BY <1>1, Idle
<1>3. Typed'
  BY <1>1 DEF Inv, Typed
<1>4. Numbered'
  BY <1>2 DEF Inv, Numbered
<1>5. Exclusive'
  BY <1>2 DEF Inv, Exclusive
<1>6. Truthful'
  <2>1. ASSUME NEW u \in Task
        PROVE  AnswerHolds(calls[u])'
    <3>1. AnswerHolds(k)
      BY Idle DEF AnswerHolds, Closed
    <3>2. AnswerHolds(calls'[u])
      BY <1>1, <3>1 DEF Inv, Truthful
    <3> QED BY <3>2 DEF AnswerHolds, Settled
  <2> QED BY <2>1 DEF Inv, Truthful, Settled
<1>7. Tracked'
  BY <1>1 DEF Inv, Tracked, Placing
<1>8. Succession'
  <2>1. \A c \in Child : Over(c) => Over(c)'
    BY <1>2 DEF Over, Placing
  <2>2. \A c \in Child : Quiet(c) => Quiet(c)'
    BY <1>2 DEF Quiet
  <2> QED BY <2>1, <2>2 DEF Inv, Succession
<1> QED BY <1>3, <1>4, <1>5, <1>6, <1>7, <1>8 DEF Inv
-----------------------------------------------------------------------------
\* The exchange accepts a placement, or cancels an order.
LEMMA ServedMoves ==
  ASSUME Inv, NEW t \in Task, NEW k \in Call, NEW c \in Child, NEW copy \in Copy,
         copy.status # "none", Becomes(c, copy),
         calls[t].op # "idle", calls[t].id = c, k.op = calls[t].op, k.id = c,
         \/ k.op = "place" /\ market[c].status = "none" /\ k.reply.status = copy.status
         \/ k.op = "cancel" /\ market[c].status = "open" /\ copy.status = "cancelled",
         k.reply \in Copy,
         calls' = [calls EXCEPT ![t] = k],
         UNCHANGED <<todo, working, placed, advanced, approved, disowned>>
  PROVE  Inv'
<1>1. market' = [market EXCEPT ![c] = copy] /\ market \in [Child -> Copy]
  BY DEF Becomes, Inv, Typed
<1>2. stream' = stream \/ stream' = Append(stream, Update(c, copy))
  BY DEF Becomes
<1>3. calls' \in [Task -> Call] /\ calls'[t] = k /\ \A u \in Task : u # t => calls'[u] = calls[u]
  BY DEF Inv, Typed
<1>4. \A u \in Task : calls'[u].op = calls[u].op /\ calls'[u].id = calls[u].id
  BY <1>3
<1>5. \A d \in Child : market[d].status \in Closed => market'[d] = market[d] /\ d # c
  BY <1>1, Idle
<1>6. Typed'
  <2>1. Update(c, copy) \in News
    BY DEF Update, News
  <2>2. stream' \in Seq(News)
    BY <1>2, <2>1 DEF Inv, Typed
  <2> QED BY <1>1, <1>3, <2>2 DEF Inv, Typed
<1>7. Numbered'
  BY <1>1, <1>4 DEF Inv, Numbered
<1>8. Exclusive'
  BY <1>4 DEF Inv, Exclusive
<1>9. Truthful'
  <2>1. ASSUME NEW n \in 1..Len(stream'), stream'[n].copy.status \in Closed
        PROVE  market'[stream'[n].id].status \in Closed
    <3>1. CASE n \in 1..Len(stream) /\ stream'[n] = stream[n]
      <4>1. stream[n] \in News /\ market[stream[n].id].status \in Closed
        BY <2>1, <3>1 DEF Inv, Typed, Truthful, Settled
      <4> QED BY <4>1, <3>1, <1>5 DEF News
    <3>2. CASE stream'[n] = Update(c, copy)
      BY <3>2, <2>1, <1>1 DEF Update
    <3>3. \/ n \in 1..Len(stream) /\ stream'[n] = stream[n]
          \/ stream'[n] = Update(c, copy)
      BY <1>2 DEF Inv, Typed
    <3> QED BY <3>1, <3>2, <3>3
  <2>2. ASSUME NEW u \in Task, u # t
        PROVE  AnswerHolds(calls[u])'
    <3>1. AnswerHolds(calls[u]) /\ (calls[u].op # "idle" => calls[u].id \in Child)
      BY DEF Inv, Truthful, Numbered
    <3>2. calls[u].op = "place" => calls[u].id # c
      BY <2>2 DEF Inv, Exclusive
    <3> QED BY <3>1, <3>2, <2>2, <1>1, <1>3, <1>5 DEF AnswerHolds, Settled
  <2>3. AnswerHolds(calls[t])'
    <3>1. k.reply # Refused /\ k.reply # Waiting
      BY Idle
    <3>2. market'[c] = copy
      BY <1>1
    <3> QED BY <3>1, <3>2, <1>3, Idle DEF AnswerHolds, Settled, Closed
  <2> QED BY <2>1, <2>2, <2>3 DEF Truthful, Settled
<1>10. Tracked'
  BY <1>1, <1>4 DEF Inv, Tracked, Placing
<1>11. Succession'
  <2>1. \A d \in Child : Over(d) => Over(d)'
    BY <1>1, <1>4, Idle DEF Over, Placing, Closed
  <2>2. \A d \in Child : Quiet(d) => Quiet(d)'
    BY <1>4 DEF Quiet
  <2> QED BY <2>1, <2>2 DEF Inv, Succession
<1> QED BY <1>6, <1>7, <1>8, <1>9, <1>10, <1>11 DEF Inv

\* A request is served.
LEMMA Served == ASSUME Inv, NEW t \in Task, Serve(t) PROVE Inv'
<1> DEFINE c == calls[t].id
           With(r) == [calls[t] EXCEPT !.reply = r]
<1>1. /\ calls[t] \in Call /\ calls[t].op # "idle" /\ calls[t].reply = Waiting /\ c \in Child
      /\ market[c] \in Copy
      /\ UNCHANGED <<todo, working, placed, advanced, approved, disowned>>
  BY DEF Serve, plan, Inv, Typed, Numbered
<1>2. ASSUME NEW r \in Copy \cup {Waiting, Refused}
      PROVE  With(r) \in Call /\ With(r).op = calls[t].op /\ With(r).id = c /\ With(r).reply = r
  <2>1. 0 \in 0..MaxRetries
    BY DhanAssumption DEF DhanAssumption
  <2> QED BY <1>1, <2>1, Replied
<1>3. ASSUME NEW copy \in Copy, NEW r \in Copy, Becomes(c, copy), copy.status # "none",
             calls[t].op = "place", market[c].status = "none", r.status = copy.status,
             calls' = [calls EXCEPT ![t].reply = r]
      PROVE  Inv'
  <2> DEFINE k == With(r)
  <2>1. /\ k \in Call /\ k.op = calls[t].op /\ k.id = c /\ k.reply = r
        /\ calls' = [calls EXCEPT ![t] = k]
    BY <1>2, <1>3
  <2>2. k.reply \in Copy /\ k.reply.status = copy.status /\ k.op = "place"
    BY <1>3, <2>1
  <2>3. /\ UNCHANGED <<todo, working, placed, advanced, approved, disowned>>
        /\ calls[t].op # "idle" /\ calls[t].id = c /\ c \in Child
    BY <1>1
  <2>4. /\ copy.status # "none" /\ Becomes(c, copy)
        /\ k.op = "place" /\ market[c].status = "none" /\ k.reply.status = copy.status
    BY <1>3, <2>2
  <2> HIDE DEF k, c, With
  <2> QED BY <2>1, <2>2, <2>3, <2>4, ServedMoves
<1>4. ASSUME NEW r \in Copy \cup {Waiting, Refused}, AnswerHolds(With(r)),
             calls' = [calls EXCEPT ![t].reply = r], UNCHANGED exchange
      PROVE  Inv'
  <2>1. calls' = [calls EXCEPT ![t] = With(r)]
    BY <1>4
  <2> HIDE DEF With
  <2> QED BY <1>1, <1>2, <1>4, <2>1, CallGoesOn DEF exchange
<1>5. CASE calls[t].op = "place" /\ market[c].status = "none"
  <2>1. CASE Becomes(c, As("open", 0)) /\ calls' = [calls EXCEPT ![t].reply = As("open", 0)]
    <3> DEFINE copy == As("open", 0)
    <3>1. copy \in Copy /\ copy.status = "open"
      BY AsFields DEF Status
    <3>2. Becomes(c, copy) /\ calls' = [calls EXCEPT ![t].reply = copy]
      BY <2>1
    <3> HIDE DEF copy, With
    <3> QED BY <3>1, <3>2, <1>3, <1>5
  <2>2. CASE Becomes(c, As("filled", Qty[c])) /\ calls' = [calls EXCEPT ![t].reply = As("filled", 0)]
    <3>1. Qty[c] \in Nat
      BY <1>1, DhanAssumption DEF DhanAssumption, Child
    <3> DEFINE copy == As("filled", Qty[c])
               r == As("filled", 0)
    <3>2. copy \in Copy /\ r \in Copy /\ copy.status = "filled" /\ r.status = "filled"
      BY <3>1, AsFields DEF Status
    <3>3. Becomes(c, copy) /\ calls' = [calls EXCEPT ![t].reply = r]
      BY <2>2
    <3> HIDE DEF copy, r, With
    <3> QED BY <3>2, <3>3, <1>3, <1>5
  <2>3. CASE calls' = [calls EXCEPT ![t].reply = As("rejected", 0)] /\ UNCHANGED exchange
    <3>1. As("rejected", 0) \in Copy /\ As("rejected", 0).status = "rejected"
      BY AsFields DEF Status
    <3>2. AnswerHolds(With(As("rejected", 0)))
      <4> HIDE DEF With
      <4> QED BY <3>1, <1>2, <1>5, Idle DEF AnswerHolds, Closed
    <3> QED BY <2>3, <3>1, <3>2, <1>4
  <2> QED BY <1>5, <2>1, <2>2, <2>3 DEF Serve
<1>6. CASE calls[t].op = "place" /\ market[c].status # "none"
  <2> DEFINE r == As(market[c].status, 0)
  <2>1. r \in Copy /\ r.status = market[c].status
    BY <1>1, AsFields DEF Copy
  <2>2. calls' = [calls EXCEPT ![t].reply = r] /\ UNCHANGED exchange
    BY <1>6 DEF Serve
  <2> HIDE DEF r
  <2>3. AnswerHolds(With(r))
    <3> HIDE DEF With
    <3> QED BY <2>1, <1>2, <1>6, Idle DEF AnswerHolds, Settled, Closed
  <2> QED BY <2>1, <2>2, <2>3, <1>4
<1>7. CASE calls[t].op \in {"look", "relook"}
  <2>1. calls' = [calls EXCEPT ![t].reply = market[c]] /\ UNCHANGED exchange
    BY <1>7 DEF Serve
  <2>2. AnswerHolds(With(market[c]))
    <3> HIDE DEF With
    <3> QED BY <1>1, <1>2, <1>7 DEF AnswerHolds, Settled
  <2> QED BY <1>1, <2>1, <2>2, <1>4
<1>8. CASE calls[t].op = "put"
  <2>1. PICK r \in Copy \cup {Waiting, Refused} :
          calls' = [calls EXCEPT ![t].reply = r] /\ UNCHANGED exchange
    BY <1>1, <1>8 DEF Serve
  <2>2. AnswerHolds(With(r))
    <3> HIDE DEF With
    <3> QED BY <1>2, <1>8 DEF AnswerHolds
  <2> QED BY <2>1, <2>2, <1>4
<1>9. CASE calls[t].op = "cancel" /\ market[c].status = "open"
  <2> DEFINE copy == As("cancelled", market[c].filled)
             r == As("cancelled", 0)
  <2>1. copy \in Copy /\ r \in Copy /\ copy.status = "cancelled"
    BY <1>1, AsFields DEF Status, Copy
  <2>2. Becomes(c, copy) /\ calls' = [calls EXCEPT ![t].reply = r]
    BY <1>9 DEF Serve
  <2> HIDE DEF copy, r
  <2> DEFINE k == With(r)
  <2>3. /\ k \in Call /\ k.op = calls[t].op /\ k.id = c /\ k.reply = r
        /\ calls' = [calls EXCEPT ![t] = k]
    BY <1>2, <2>1, <2>2
  <2>4. /\ UNCHANGED <<todo, working, placed, advanced, approved, disowned>>
        /\ calls[t].op # "idle" /\ calls[t].id = c /\ c \in Child
    BY <1>1
  <2>5. /\ copy.status # "none" /\ Becomes(c, copy) /\ k.reply \in Copy
        /\ k.op = "cancel" /\ market[c].status = "open" /\ copy.status = "cancelled"
    BY <1>9, <2>1, <2>2, <2>3
  <2> HIDE DEF k, c, With
  <2> QED BY <2>1, <2>3, <2>4, <2>5, ServedMoves
<1>10. CASE calls[t].op = "cancel" /\ market[c].status # "open"
  <2>1. calls' = [calls EXCEPT ![t].reply = Refused] /\ UNCHANGED exchange
    BY <1>10 DEF Serve
  <2>2. AnswerHolds(With(Refused))
    <3> HIDE DEF With
    <3> QED BY <1>2, <1>10 DEF AnswerHolds
  <2> QED BY <2>1, <2>2, <1>4
<1>11. calls[t].op \in Op
  BY <1>1, CallFields
<1> QED BY <1>5, <1>6, <1>7, <1>8, <1>9, <1>10, <1>11 DEF Op
-----------------------------------------------------------------------------
(* The agent.                                                              *)

\* An order progresses: whoever heard of it, it may release the next slice.
LEMMA ProgressKeeps ==
  ASSUME Inv, NEW t \in Task, NEW c \in Child, NEW copy, NEW linked \in BOOLEAN,
         NEW w, Progress(t, c, copy, linked, w),
         copy.status \in Closed => Settled(c),
         calls[t] = NoCall \/ (calls[t].op # "idle" /\ calls[t].id = c),
         calls[t].op = "place" => Settled(c),
         linked => c \in DOMAIN working \/ calls[t].op # "idle",
         DOMAIN w \in {DOMAIN working, DOMAIN working \cup {c}},
         c \in DOMAIN w => c \in DOMAIN working \/ calls[t].op # "idle",
         stream' = stream \/ (stream # <<>> /\ stream' = Tail(stream)),
         UNCHANGED <<market, todo, disowned>>
  PROVE  Inv'
<1> DEFINE next == Releases(c, copy, linked) /\ placed < Slices /\ ~halted
           k == IF next THEN Ask("place", placed + 1) ELSE NoCall
<1>1. /\ placed' = IF next THEN placed + 1 ELSE placed
      /\ advanced' = IF Releases(c, copy, linked) THEN advanced \cup {c} ELSE advanced
      /\ calls' = [calls EXCEPT ![t] = k]
      /\ approved' = approved
  BY DEF Progress, Begin
<1>2. Releases(c, copy, linked) => linked /\ c \notin advanced /\ Settled(c)
  BY DEF Releases
<1>3. /\ DOMAIN working' \subseteq DOMAIN working \cup {c}
      /\ c \in DOMAIN working' => c \in DOMAIN working \/ calls[t].op # "idle"
      /\ \A d \in DOMAIN working : d \in DOMAIN working' \/ (d = c /\ Settled(c))
  BY DEF Progress, IsTerminal, Drop
<1>4. next => placed + 1 \in Child /\ Ask("place", placed + 1) \in Call
              /\ Ask("place", placed + 1).op = "place"
              /\ Ask("place", placed + 1).id = placed + 1
              /\ Ask("place", placed + 1).reply = Waiting
  <2>1. next => placed + 1 \in Child
    BY DhanAssumption DEF DhanAssumption, Child, Inv, Typed
  <2> QED BY <2>1, Asked, DhanAssumption DEF Op
<1> HIDE DEF next
<1>5. /\ k \in Call
      /\ next => k.op = "place" /\ k.id = placed + 1 /\ k.reply = Waiting
      /\ ~next => k = NoCall
  BY <1>4, Idle
<1> HIDE DEF k
<1>6. calls' \in [Task -> Call] /\ calls'[t] = k /\ \A u \in Task : u # t => calls'[u] = calls[u]
  BY <1>1, <1>5 DEF Inv, Typed
<1>7. next => Releases(c, copy, linked)
  BY DEF next
<1>8. /\ calls[t].op # "idle" => calls[t].id = c
      /\ linked \/ c \in DOMAIN working \/ calls[t].op # "idle" => c <= placed
  BY Idle DEF Inv, Numbered
<1>9. placed \in Nat /\ placed' \in 0..Slices
  BY <1>1, <1>4, DhanAssumption DEF DhanAssumption, Inv, Typed, Child
<1>10. Typed'
  <2>1. stream' \in Seq(News)
    BY DEF Inv, Typed
  <2> QED BY <2>1, <1>3, <1>6, <1>9 DEF Inv, Typed
<1>11. Numbered'
  <2>1. placed <= placed' /\ (next => placed' = placed + 1)
    BY <1>1, <1>9
  <2>2. \A u \in Task : calls'[u].op # "idle" => calls'[u].id \in Child /\ calls'[u].id <= placed'
    BY <2>1, <1>4, <1>5, <1>6, <1>9, Idle DEF Inv, Numbered, Child
  <2> QED BY <2>1, <2>2, <1>3, <1>8, <1>9 DEF Inv, Numbered, Typed, Child
<1>12. Exclusive'
  <2>1. ASSUME NEW u \in Task, u # t, calls'[u].op = "place"
        PROVE  /\ calls'[u].id \notin DOMAIN working'
               /\ \A v \in Task : /\ calls'[u].id \notin todo'[v]
                                  /\ v # u /\ calls'[v].op # "idle" => calls'[v].id # calls'[u].id
    <3>1. calls[u] = calls'[u] /\ calls[u].id \in Child /\ calls[u].id <= placed
      BY <2>1, <1>6 DEF Inv, Numbered
    <3>2. /\ calls[u].id \notin DOMAIN working
          /\ \A v \in Task : /\ calls[u].id \notin todo[v]
                             /\ v # u /\ calls[v].op # "idle" => calls[v].id # calls[u].id
      BY <2>1, <3>1 DEF Inv, Exclusive
    <3>3. calls[u].id \notin DOMAIN working'
      BY <3>1, <3>2, <1>3, <2>1, Idle
    <3>4. k.op # "idle" => k.id # calls[u].id
      BY <3>1, <1>5, <1>9, Idle DEF Child
    <3> QED BY <3>1, <3>2, <3>3, <3>4, <1>6
  <2>2. ASSUME calls'[t].op = "place"
        PROVE  /\ calls'[t].id \notin DOMAIN working'
               /\ \A v \in Task : /\ calls'[t].id \notin todo'[v]
                                  /\ v # t /\ calls'[v].op # "idle" => calls'[v].id # calls'[t].id
    <3>1. next /\ calls'[t].id = placed + 1
      BY <2>2, <1>5, <1>6, Idle
    <3>2. placed + 1 \notin DOMAIN working'
      BY <1>3, <1>8, <1>9 DEF Inv, Numbered, Typed, Child
    <3>3. \A v \in Task : placed + 1 \notin todo[v]
      BY <1>9 DEF Inv, Numbered
    <3>4. \A v \in Task : v # t /\ calls[v].op # "idle" => calls[v].id # placed + 1
      BY <1>9 DEF Inv, Numbered
    <3> QED BY <3>1, <3>2, <3>3, <3>4, <1>6
  <2> QED BY <2>1, <2>2 DEF Exclusive
<1>13. Truthful'
  <2>1. \A n \in 1..Len(stream') :
          stream'[n].copy.status \in Closed => market'[stream'[n].id].status \in Closed
    <3>1. \A n \in 1..Len(stream) :
            stream[n].copy.status \in Closed => market[stream[n].id].status \in Closed
      BY DEF Inv, Truthful, Settled
    <3>2. \A n \in 1..Len(stream') : \E m \in 1..Len(stream) : stream'[n] = stream[m]
      <4>1. stream \in Seq(News)
        BY DEF Inv, Typed
      <4>2. CASE stream # <<>> /\ stream' = Tail(stream)
        <5>1. \A n \in 1..Len(stream') : n + 1 \in 1..Len(stream) /\ stream'[n] = stream[n + 1]
          BY <4>1, <4>2
        <5> QED BY <5>1
      <4> QED BY <4>2
    <3> QED BY <3>1, <3>2
  <2>2. ASSUME NEW u \in Task
        PROVE  AnswerHolds(calls[u])'
    <3>1. AnswerHolds(k)
      BY <1>5, Idle DEF AnswerHolds, Closed
    <3>2. AnswerHolds(calls'[u])
      BY <3>1, <1>6 DEF Inv, Truthful
    <3> QED BY <3>2 DEF AnswerHolds, Settled
  <2> QED BY <2>1, <2>2 DEF Truthful, Settled
<1>14. Tracked'
  <2> SUFFICES ASSUME NEW d \in Child, market[d].status = "open"
               PROVE  d \in DOMAIN working' \/ Placing(d)' \/ d \in disowned
    BY DEF Tracked
  <2>1. ~Settled(d)
    BY Idle DEF Settled
  <2>2. CASE d \in DOMAIN working
    BY <2>1, <2>2, <1>3
  <2>3. ASSUME NEW u \in Task, calls[u].op = "place", calls[u].id = d
        PROVE  Placing(d)'
    <3>1. u # t
      BY <2>1, <2>3, Idle
    <3> QED BY <3>1, <2>3, <1>6 DEF Placing
  <2>4. d \in DOMAIN working \/ Placing(d) \/ d \in disowned
    BY DEF Inv, Tracked
  <2> QED BY <2>2, <2>3, <2>4 DEF Placing
<1>15. \A d \in Child : Quiet(d) /\ (next => d <= placed) => Quiet(d)'
  <2> SUFFICES ASSUME NEW d \in Child, Quiet(d), next => d <= placed
               PROVE  Quiet(d)'
    OBVIOUS
  <2>1. d \notin DOMAIN working'
    BY <1>3, <1>8 DEF Quiet
  <2>2. calls'[t].op # "idle" => calls'[t].id # d
    BY <1>5, <1>6, <1>9, Idle DEF Child
  <2> QED BY <2>1, <2>2, <1>6 DEF Quiet
<1>16. \A d \in Child : Over(d) /\ (next => d <= placed) => Over(d)'
  <2> SUFFICES ASSUME NEW d \in Child, Over(d), next => d <= placed, d \notin disowned
               PROVE  market[d].status # "open" /\ ~Placing(d)'
    BY DEF Over
  <2>1. market[d].status # "open" /\ ~Placing(d)
    BY DEF Over
  <2>2. ~(k.op = "place" /\ k.id = d)
    BY <1>5, <1>9, Idle DEF Child
  <2> QED BY <2>1, <2>2, <1>6 DEF Placing
<1>17. Quiet(c) => ~linked
  BY Idle DEF Quiet
<1>18. Succession'
  <2>1. CASE ~next
    <3>1. placed' = placed /\ advanced \subseteq advanced'
      BY <2>1, <1>1
    <3> QED BY <2>1, <3>1, <1>1, <1>15, <1>16 DEF Inv, Succession
  <2>2. CASE next
    <3>1. linked /\ c \notin advanced /\ Settled(c) /\ placed' = placed + 1
          /\ advanced' = advanced \cup {c}
      BY <2>2, <1>1, <1>2, <1>7
    <3>2. c = placed
      BY <3>1, <1>8, <1>9, <1>17 DEF Inv, Succession, Child
    <3>3. approved'
      BY <3>1, <1>1, <1>8, <1>17 DEF Inv, Succession
    <3>4. Over(c)'
      <4>1. market[c].status # "open"
        BY <3>1, Idle DEF Settled
      <4>2. \A u \in Task : u # t => ~(calls[u].op = "place" /\ calls[u].id = c)
        BY <3>1, <1>8 DEF Inv, Exclusive
      <4>3. ~Placing(c)'
        BY <4>2, <3>2, <1>5, <1>6, <1>9, <2>2 DEF Placing
      <4> QED BY <4>1, <4>3 DEF Over
    <3>5. ASSUME NEW d \in Child, d < placed'
          PROVE  Over(d)' /\ (d \in advanced' \/ Quiet(d)')
      <4>1. CASE d = c
        BY <4>1, <3>1, <3>4
      <4>2. CASE d # c
        <5>1. d < placed
          BY <4>2, <3>1, <3>2, <3>5, <1>9 DEF Child
        <5>2. Over(d) /\ (d \in advanced \/ Quiet(d))
          BY <5>1 DEF Inv, Succession
        <5> QED BY <5>1, <5>2, <3>1, <1>9, <1>15, <1>16 DEF Child
      <4> QED BY <4>1, <4>2
    <3> QED BY <3>3, <3>5 DEF Succession
  <2> QED BY <2>1, <2>2
<1> QED BY <1>10, <1>11, <1>12, <1>13, <1>14, <1>18 DEF Inv

\* A placement is answered, and the order is not finished by the answer.
LEMMA PlacementEnds ==
  ASSUME Inv, NEW t \in Task, Got(t, "place"), calls[t].reply.status # "filled",
         Done(t),
         working' = IF calls[t].reply.status = "open" THEN Put(working, calls[t].id, 0) ELSE working,
         UNCHANGED <<market, stream, todo, placed, advanced, approved, disowned>>
  PROVE  Inv'
<1> DEFINE c == calls[t].id
<1>1. calls[t].op = "place" /\ calls[t].reply # Waiting /\ calls[t] \in Call
  BY DEF Got, Answered, Inv, Typed
<1>2. c \in Child /\ c <= placed /\ c \notin DOMAIN working
  BY <1>1 DEF Inv, Numbered, Exclusive
<1>3. calls[t].reply.status = "open" \/ market[c].status # "open"
  <2>1. calls[t].reply # Refused /\ calls[t].reply.status # "none"
    BY <1>1 DEF Inv, Truthful, AnswerHolds
  <2>2. calls[t].reply.status \in Status
    BY <1>1, <2>1, CallFields DEF Copy
  <2>3. calls[t].reply.status = "open" \/ calls[t].reply.status \in Closed
    BY <2>1, <2>2 DEF Status, Closed
  <2> QED BY <1>1, <2>3 DEF Inv, Truthful, AnswerHolds
<1>4. /\ calls' \in [Task -> Call] /\ calls'[t] = NoCall
      /\ \A u \in Task : u # t => calls'[u] = calls[u]
  BY Idle DEF Done, Inv, Typed
<1>5. /\ DOMAIN working \subseteq DOMAIN working' /\ DOMAIN working' \subseteq DOMAIN working \cup {c}
      /\ calls[t].reply.status = "open" => c \in DOMAIN working'
  BY DEF Put
<1> HIDE DEF c
<1>6. Typed'
  BY <1>2, <1>4, <1>5 DEF Inv, Typed
<1>7. Numbered'
  BY <1>2, <1>4, <1>5, Idle DEF Inv, Numbered
<1>8. Exclusive'
  <2>1. ASSUME NEW u \in Task, calls'[u].op = "place"
        PROVE  /\ calls'[u].id \notin DOMAIN working'
               /\ \A v \in Task : /\ calls'[u].id \notin todo'[v]
                                  /\ v # u /\ calls'[v].op # "idle" => calls'[v].id # calls'[u].id
    <3>1. u # t /\ calls'[u] = calls[u]
      BY <2>1, <1>4, Idle
    <3>2. /\ calls[u].id \notin DOMAIN working
          /\ \A v \in Task : /\ calls[u].id \notin todo[v]
                             /\ v # u /\ calls[v].op # "idle" => calls[v].id # calls[u].id
      BY <2>1, <3>1 DEF Inv, Exclusive
    <3>3. calls[u].id # c
      BY <3>1, <3>2, <1>1 DEF c
    <3>4. calls[u].id \notin DOMAIN working'
      BY <3>2, <3>3, <1>5
    <3> QED BY <3>1, <3>2, <3>4, <1>4, Idle
  <2> QED BY <2>1 DEF Exclusive
<1>9. Truthful'
  <2>1. ASSUME NEW u \in Task
        PROVE  AnswerHolds(calls[u])'
    <3>1. AnswerHolds(NoCall)
      BY Idle DEF AnswerHolds
    <3>2. AnswerHolds(calls'[u])
      BY <3>1, <1>4 DEF Inv, Truthful
    <3> QED BY <3>2 DEF AnswerHolds, Settled
  <2> QED BY <2>1 DEF Inv, Truthful, Settled
<1>10. Tracked'
  <2> SUFFICES ASSUME NEW d \in Child, market[d].status = "open"
               PROVE  d \in DOMAIN working' \/ Placing(d)' \/ d \in disowned
    BY DEF Tracked
  <2>1. CASE d = c
    BY <2>1, <1>3, <1>5 DEF c
  <2>2. CASE d # c
    <3>1. Placing(d) => Placing(d)'
      BY <2>2, <1>4 DEF Placing, c
    <3> QED BY <3>1, <1>5 DEF Inv, Tracked
  <2> QED BY <2>1, <2>2
<1>11. Succession'
  <2>1. \A d \in Child : Over(d) => Over(d)'
    BY <1>4, Idle DEF Over, Placing
  <2>2. \A d \in Child : Quiet(d) => d # c /\ Quiet(d)'
    BY <1>1, <1>4, <1>5, Idle DEF Quiet, c
  <2> QED BY <2>1, <2>2 DEF Inv, Succession
<1> QED BY <1>6, <1>7, <1>8, <1>9, <1>10, <1>11 DEF Inv

\* The agent consumes an answer.
LEMMA AnswerKeeps == ASSUME Inv, NEW t \in Task, Answer(t) PROVE Inv'
<1> DEFINE c == calls[t].id
           copy == calls[t].reply
<1>1. calls[t] \in Call /\ AnswerHolds(calls[t])
  BY DEF Inv, Typed, Truthful
<1>2. calls[t].op # "idle" => c \in Child
  BY DEF Inv, Numbered
<1>3. CASE Fails(t)
  <2>1. calls[t].op # "idle" /\ calls[t].op # "place"
    BY <1>1, <1>3, CallFields, Idle DEF Fails, AnswerHolds
  <2>2. calls' = [calls EXCEPT ![t] = NoCall]
    BY <1>3 DEF Fails, Done
  <2>3. UNCHANGED <<market, stream, todo, working, placed, advanced, approved, disowned>>
    BY <1>3 DEF Fails, exchange, plan, history
  <2> QED BY <2>1, <2>2, <2>3, Idle, CallMovesOn
<1>4. CASE Placed(t)
  <2>1. calls[t].op = "place" /\ copy # Waiting /\ Got(t, "place")
    BY <1>4 DEF Placed, Got, Answered
  <2>2. CASE copy.status = "filled"
    <3>1. Progress(t, c, copy, TRUE, working)
      BY <1>4, <2>2 DEF Placed
    <3>2. Settled(c)
      BY <1>1, <2>1, <2>2 DEF AnswerHolds
    <3>3. UNCHANGED <<market, stream, todo, disowned>>
      BY <1>4 DEF Placed, exchange
    <3> QED BY <1>2, <2>1, <3>1, <3>2, <3>3, ProgressKeeps
  <2>3. CASE copy.status # "filled"
    <3>1. /\ Done(t)
          /\ working' = IF copy.status = "open" THEN Put(working, c, 0) ELSE working
          /\ UNCHANGED <<market, stream, todo, placed, advanced, approved, disowned>>
      BY <1>4, <2>3 DEF Placed, exchange, plan
    <3> QED BY <2>1, <2>3, <3>1, PlacementEnds
  <2> QED BY <2>2, <2>3
<1>5. CASE Looked(t)
  <2> DEFINE k == IF copy.status = "open" THEN Ask("put", c) ELSE NoCall
  <2>1. calls[t].op = "look" /\ calls' = [calls EXCEPT ![t] = k]
    BY <1>5 DEF Looked, Got, Answered, Begin
  <2>2. k \in Call /\ (k = NoCall \/ (k.op = "put" /\ k.id = c /\ k.reply = Waiting))
    BY <1>2, <2>1, Asked, Idle, DhanAssumption DEF Op
  <2>3. UNCHANGED <<market, stream, todo, working, placed, advanced, approved, disowned>>
    BY <1>5 DEF Looked, exchange, plan, history
  <2> HIDE DEF k
  <2> QED BY <2>1, <2>2, <2>3, CallMovesOn
<1>6. CASE Modified(t)
  <2> DEFINE k == Ask("relook", c)
  <2>1. calls[t].op = "put" /\ calls' = [calls EXCEPT ![t] = k]
    BY <1>6 DEF Modified, Got, Answered, Begin
  <2>2. k \in Call /\ k.op = "relook" /\ k.id = c /\ k.reply = Waiting
    BY <1>2, <2>1, Asked, DhanAssumption DEF Op
  <2>3. UNCHANGED <<market, stream, todo, working, placed, advanced, approved, disowned>>
    BY <1>6 DEF Modified, exchange, plan, history
  <2> HIDE DEF k
  <2> QED BY <2>1, <2>2, <2>3, CallMovesOn
<1>7. CASE Chased(t)
  <2> DEFINE w == IF c \in DOMAIN working THEN [working EXCEPT ![c] = @ + 1] ELSE working
  <2>1. calls[t].op = "relook" /\ Progress(t, c, copy, TRUE, w)
    BY <1>7 DEF Chased, Got, Answered
  <2>2. DOMAIN w = DOMAIN working
    OBVIOUS
  <2>3. copy.status \in Closed => Settled(c)
    BY <1>1, <2>1 DEF AnswerHolds
  <2>4. UNCHANGED <<market, stream, todo, disowned>>
    BY <1>7 DEF Chased, exchange
  <2> HIDE DEF w
  <2> QED BY <1>2, <2>1, <2>2, <2>3, <2>4, ProgressKeeps
<1>8. CASE Cancelled(t)
  <2>1. calls[t].op = "cancel" /\ Progress(t, c, As("cancelled", cache[c].filled), TRUE, working)
    BY <1>8 DEF Cancelled, Got, Answered
  <2>2. Settled(c)
    BY <1>1, <1>8 DEF AnswerHolds, Cancelled, Got, Answered
  <2>3. UNCHANGED <<market, stream, todo, disowned>>
    BY <1>8 DEF Cancelled, exchange
  <2> QED BY <1>2, <2>1, <2>2, <2>3, ProgressKeeps
<1> QED BY <1>3, <1>4, <1>5, <1>6, <1>7, <1>8 DEF Answer

\* An update is handled.
LEMMA UpdateKeeps == ASSUME Inv, HandleUpdate PROVE Inv'
<1> DEFINE c == Head(stream).id
           copy == Head(stream).copy
<1>1. /\ stream # <<>> /\ stream' = Tail(stream) /\ calls["pump"] = NoCall
      /\ Progress("pump", c, copy, c \in DOMAIN working, working)
      /\ UNCHANGED <<market, todo, disowned>>
  BY DEF HandleUpdate, Free, history
<1>2. 1 \in 1..Len(stream) /\ Head(stream) = stream[1] /\ stream[1] \in News
  BY <1>1 DEF Inv, Typed
<1>3. c \in Child /\ (copy.status \in Closed => Settled(c))
  BY <1>2 DEF Inv, Truthful, News
<1> DEFINE linked == c \in DOMAIN working
<1> HIDE DEF c, copy
<1>4. /\ linked \in BOOLEAN /\ Progress("pump", c, copy, linked, working)
      /\ linked => c \in DOMAIN working
      /\ "pump" \in Task /\ calls["pump"].op = "idle"
  BY <1>1, Idle DEF Task
<1> HIDE DEF linked
<1> QED BY <1>1, <1>3, <1>4, ProgressKeeps

\* The next order of a walk.
LEMMA TurnKeeps == ASSUME Inv, NEW t \in Task, Turn(t) PROVE Inv'
<1> DEFINE c == Min(todo[t])
<1>1. calls[t] = NoCall /\ todo[t] # {} /\ todo[t] \subseteq Child
  BY DEF Turn, Inv, Typed
<1>2. c \in todo[t] /\ c \in Child /\ c <= placed
  BY <1>1, LeastIsMember, DhanAssumption DEF Inv, Numbered
<1>3. todo' = [todo EXCEPT ![t] = @ \ {c}]
  BY DEF Turn
<1>4. UNCHANGED <<market, stream, working, placed, advanced, approved, disowned>>
  BY DEF Turn, exchange, plan, history
<1>5. calls' = calls \/ (calls' = [calls EXCEPT ![t] = Ask("cancel", c)])
                     \/ (calls' = [calls EXCEPT ![t] = Ask("look", c)])
  BY DEF Turn, Begin
<1>6. \A op \in {"cancel", "look"} :
        /\ Ask(op, c) \in Call /\ Ask(op, c).op = op /\ Ask(op, c).id = c
        /\ Ask(op, c).reply = Waiting
  BY <1>2, Asked, DhanAssumption DEF Op
<1> HIDE DEF c
<1>7. /\ calls' \in [Task -> Call] /\ \A u \in Task : u # t => calls'[u] = calls[u]
      /\ \/ calls'[t] = NoCall
         \/ calls'[t].op \in {"cancel", "look"} /\ calls'[t].id = c /\ calls'[t].reply = Waiting
  BY <1>1, <1>5, <1>6 DEF Inv, Typed
<1>8. \A u \in Task : todo'[u] \subseteq todo[u]
  BY <1>3 DEF Inv, Typed
<1>9. Typed'
  BY <1>3, <1>4, <1>7 DEF Inv, Typed
<1>10. Numbered'
  BY <1>2, <1>4, <1>7, <1>8, Idle DEF Inv, Numbered
<1>11. Exclusive'
  <2>1. ASSUME NEW u \in Task, calls'[u].op = "place"
        PROVE  /\ calls'[u].id \notin DOMAIN working'
               /\ \A v \in Task : /\ calls'[u].id \notin todo'[v]
                                  /\ v # u /\ calls'[v].op # "idle" => calls'[v].id # calls'[u].id
    <3>1. u # t /\ calls'[u] = calls[u]
      BY <2>1, <1>7, Idle
    <3>2. /\ calls[u].id \notin DOMAIN working
          /\ \A v \in Task : /\ calls[u].id \notin todo[v]
                             /\ v # u /\ calls[v].op # "idle" => calls[v].id # calls[u].id
      BY <2>1, <3>1 DEF Inv, Exclusive
    <3>3. calls[u].id # c
      BY <3>2, <1>2
    <3> QED BY <3>1, <3>2, <3>3, <1>4, <1>7, <1>8, Idle
  <2> QED BY <2>1 DEF Exclusive
<1>12. Truthful'
  <2>1. ASSUME NEW u \in Task
        PROVE  AnswerHolds(calls[u])'
    <3>1. AnswerHolds(calls'[t])
      BY <1>7, Idle DEF AnswerHolds
    <3>2. AnswerHolds(calls'[u])
      BY <3>1, <1>7 DEF Inv, Truthful
    <3> QED BY <3>2, <1>4 DEF AnswerHolds, Settled
  <2> QED BY <2>1, <1>4 DEF Inv, Truthful, Settled
<1>13. \A d : Placing(d) <=> Placing(d)'
  BY <1>1, <1>7, Idle DEF Placing
<1>14. Tracked'
  BY <1>4, <1>13 DEF Inv, Tracked
<1>15. Succession'
  <2>1. \A d \in Child : Over(d) => Over(d)'
    BY <1>4, <1>13 DEF Over
  <2>2. \A d \in Child : Quiet(d) => Quiet(d)'
    BY <1>2, <1>4, <1>7, <1>8, Idle DEF Quiet
  <2> QED BY <2>1, <2>2, <1>4 DEF Inv, Succession
<1> QED BY <1>9, <1>10, <1>11, <1>12, <1>14, <1>15 DEF Inv

\* A walk over the working orders begins.
LEMMA WalkBegins ==
  ASSUME Inv, NEW t \in Task, todo' = [todo EXCEPT ![t] = DOMAIN working],
         UNCHANGED <<market, stream, calls, working, placed, advanced, approved, disowned>>
  PROVE  Inv'
<1>1. \A u \in Task : todo'[u] = todo[u] \/ todo'[u] = DOMAIN working
  BY DEF Inv, Typed
<1>2. Typed'
  BY DEF Inv, Typed
<1>3. Numbered'
  BY <1>1 DEF Inv, Numbered
<1>4. Exclusive'
  BY <1>1 DEF Inv, Exclusive
<1>5. Truthful'
  <2>1. \A u \in Task : AnswerHolds(calls'[u])
    BY DEF Inv, Truthful
  <2>2. \A u \in Task : AnswerHolds(calls[u])'
    BY <2>1 DEF AnswerHolds, Settled
  <2> QED BY <2>2 DEF Inv, Truthful, Settled
<1>6. Tracked'
  BY DEF Inv, Tracked, Placing
<1>7. Succession'
  <2>1. \A d \in Child : Over(d) => Over(d)'
    BY DEF Over, Placing
  <2>2. \A d \in Child : Quiet(d) => Quiet(d)'
    BY <1>1 DEF Quiet
  <2> QED BY <2>1, <2>2 DEF Inv, Succession
<1> QED BY <1>2, <1>3, <1>4, <1>5, <1>6, <1>7 DEF Inv

\* The approval: nothing of this process is placed yet.
LEMMA ApproveKeeps == ASSUME Inv, Approve PROVE Inv'
<1> DEFINE k == Ask("place", placed + 1)
<1>1. /\ calls["feed"] = NoCall /\ ~approved /\ approved' = TRUE /\ placed < Slices
      /\ placed' = placed + 1 /\ calls' = [calls EXCEPT !["feed"] = k]
      /\ UNCHANGED <<market, stream, todo, working, advanced, disowned>>
  BY DEF Approve, Free, Begin, exchange, history
<1>2. placed \in Nat /\ placed + 1 \in Child /\ placed' \in 0..Slices
  BY <1>1, DhanAssumption DEF DhanAssumption, Child, Inv, Typed
<1>3. k \in Call /\ k.op = "place" /\ k.id = placed + 1 /\ k.reply = Waiting
  BY <1>2, Asked, DhanAssumption DEF Op
<1> HIDE DEF k
<1>4. /\ calls' \in [Task -> Call] /\ calls'["feed"] = k /\ "feed" \in Task
      /\ \A u \in Task : u # "feed" => calls'[u] = calls[u]
  BY <1>1, <1>3 DEF Inv, Typed, Task
<1>5. Typed'
  BY <1>1, <1>2, <1>4 DEF Inv, Typed
<1>6. Numbered'
  BY <1>1, <1>2, <1>3, <1>4 DEF Inv, Numbered, Typed, Child
<1>7. Exclusive'
  <2>1. ASSUME NEW u \in Task, u # "feed", calls'[u].op = "place"
        PROVE  /\ calls'[u].id \notin DOMAIN working'
               /\ \A v \in Task : /\ calls'[u].id \notin todo'[v]
                                  /\ v # u /\ calls'[v].op # "idle" => calls'[v].id # calls'[u].id
    <3>1. calls'[u] = calls[u] /\ calls[u].id \in Child /\ calls[u].id <= placed
      BY <2>1, <1>4 DEF Inv, Numbered
    <3>2. /\ calls[u].id \notin DOMAIN working
          /\ \A v \in Task : /\ calls[u].id \notin todo[v]
                             /\ v # u /\ calls[v].op # "idle" => calls[v].id # calls[u].id
      BY <2>1, <3>1 DEF Inv, Exclusive
    <3>3. k.id # calls[u].id
      BY <3>1, <1>2, <1>3 DEF Child
    <3> QED BY <3>1, <3>2, <3>3, <1>1, <1>4
  <2>2. /\ calls'["feed"].id \notin DOMAIN working'
        /\ \A v \in Task :
             /\ calls'["feed"].id \notin todo'[v]
             /\ v # "feed" /\ calls'[v].op # "idle" => calls'[v].id # calls'["feed"].id
    <3>1. placed + 1 \notin DOMAIN working
      BY <1>2 DEF Inv, Numbered, Typed, Child
    <3>2. \A v \in Task : placed + 1 \notin todo[v]
      BY <1>2 DEF Inv, Numbered
    <3>3. \A v \in Task : calls[v].op # "idle" => calls[v].id # placed + 1
      BY <1>2 DEF Inv, Numbered
    <3> QED BY <3>1, <3>2, <3>3, <1>1, <1>3, <1>4
  <2> QED BY <2>1, <2>2 DEF Exclusive
<1>8. Truthful'
  <2>1. ASSUME NEW u \in Task
        PROVE  AnswerHolds(calls[u])'
    <3>1. AnswerHolds(k)
      BY <1>3, Idle DEF AnswerHolds, Closed
    <3>2. AnswerHolds(calls'[u])
      BY <3>1, <1>4 DEF Inv, Truthful
    <3> QED BY <3>2, <1>1 DEF AnswerHolds, Settled
  <2> QED BY <2>1, <1>1 DEF Inv, Truthful, Settled
<1>9. Tracked'
  <2>1. \A d : Placing(d) => Placing(d)'
    BY <1>1, <1>4, Idle DEF Placing
  <2> QED BY <2>1, <1>1 DEF Inv, Tracked
<1>10. Succession'
  <2>1. ASSUME NEW d \in Child, d < placed'
        PROVE  d \in disowned' /\ Quiet(d)'
    <3>1. d <= placed /\ d # placed + 1
      BY <2>1, <1>1, <1>2 DEF Child
    <3>2. d \in disowned /\ Quiet(d)
      BY <3>1, <1>1 DEF Inv, Succession
    <3> QED BY <3>1, <3>2, <1>1, <1>3, <1>4 DEF Quiet
  <2> QED BY <2>1, <1>1 DEF Succession, Over
<1> QED BY <1>5, <1>6, <1>7, <1>8, <1>9, <1>10 DEF Inv

\* Nothing the invariant is about changes.
LEMMA Unmoved ==
  ASSUME Inv,
         UNCHANGED <<market, calls, todo, working, placed, advanced, approved, disowned>>,
         stream' = stream \/ stream' = <<>>
  PROVE  Inv'
<1>1. Typed'
  <2>1. CASE stream' = stream
    BY <2>1 DEF Inv, Typed
  <2>2. CASE stream' = <<>>
    <3>1. stream' \in Seq(News)
      BY <2>2
    <3> QED BY <3>1 DEF Inv, Typed
  <2> QED BY <2>1, <2>2
<1>2. Numbered' /\ Exclusive'
  BY DEF Inv, Numbered, Exclusive
<1>3. Truthful'
  <2>1. \A u \in Task : AnswerHolds(calls'[u])
    BY DEF Inv, Truthful
  <2>2. \A u \in Task : AnswerHolds(calls[u])'
    BY <2>1 DEF AnswerHolds, Settled
  <2>3. ASSUME NEW n \in 1..Len(stream'), stream'[n].copy.status \in Closed
        PROVE  market'[stream'[n].id].status \in Closed
    BY <2>3 DEF Inv, Truthful, Settled
  <2> QED BY <2>2, <2>3 DEF Truthful, Settled
<1>4. Tracked'
  BY DEF Inv, Tracked, Placing
<1>5. Succession'
  BY DEF Inv, Succession, Over, Quiet, Placing
<1> QED BY <1>1, <1>2, <1>3, <1>4, <1>5 DEF Inv

\* A new process knows nothing and owns nothing.
LEMMA RestartKeeps == ASSUME Inv, Restart PROVE Inv'
<1>1. /\ stream' = <<>> /\ working' = <<>> /\ approved' = FALSE /\ disowned' = 1..placed
      /\ calls' = [t \in Task |-> NoCall] /\ todo' = [t \in Task |-> {}]
      /\ UNCHANGED <<market, placed>>
  BY DEF Restart
<1>2. DOMAIN working' = {}
  BY <1>1
<1>3. \A t \in Task : calls'[t] = NoCall /\ todo'[t] = {}
  BY <1>1
<1>4. \A c \in Child : c <= placed => c \in disowned'
  BY <1>1, DhanAssumption DEF DhanAssumption, Child, Inv, Typed
<1>5. placed \in Nat
  BY DhanAssumption DEF DhanAssumption, Inv, Typed
<1>6. Typed'
  BY <1>1, <1>2, Idle DEF Inv, Typed
<1>7. Numbered'
  BY <1>1, <1>2, <1>3, Idle DEF Inv, Numbered
<1>8. Exclusive'
  BY <1>3, Idle DEF Exclusive
<1>9. Truthful'
  <2>1. \A u \in Task : AnswerHolds(calls[u])'
    BY <1>3, Idle DEF AnswerHolds
  <2> QED BY <2>1, <1>1 DEF Truthful
<1>10. Tracked'
  BY <1>1, <1>4, Idle DEF Tracked, Inv, Numbered
<1>11. Succession'
  <2>1. \A d \in Child : Quiet(d)'
    BY <1>2, <1>3, Idle DEF Quiet
  <2> QED BY <2>1, <1>1, <1>4, <1>5 DEF Succession, Over, Child
<1> QED BY <1>6, <1>7, <1>8, <1>9, <1>10, <1>11 DEF Inv
-----------------------------------------------------------------------------
\* Nothing is placed at first.
LEMMA InvInit == ASSUME Init PROVE Inv
<1>1. /\ stream = <<>> /\ DOMAIN working = {} /\ placed = 0
      /\ \A t \in Task : calls[t] = NoCall /\ todo[t] = {}
      /\ \A c \in Child : market[c] = None
  BY DEF Init
<1>2. None \in Copy /\ None.status = "none"
  BY DEF None, Copy, Status
<1>3. \A c \in Child : c \in Nat /\ c > 0
  BY DhanAssumption DEF DhanAssumption, Child
<1>4. Typed
  BY <1>1, <1>2, Idle, DhanAssumption DEF Init, Typed, DhanAssumption
<1>5. Numbered /\ Exclusive
  BY <1>1, <1>2, Idle DEF Numbered, Exclusive
<1>6. Truthful
  BY <1>1, Idle DEF Truthful, AnswerHolds
<1>7. Tracked
  BY <1>1, <1>2 DEF Tracked
<1>8. Succession
  BY <1>1, <1>3 DEF Succession
<1> QED BY <1>4, <1>5, <1>6, <1>7, <1>8 DEF Inv

\* Each action keeps the invariant.
LEMMA InvStep == ASSUME Inv, [Next]_vars PROVE Inv'
<1>1. CASE UNCHANGED vars
  BY <1>1, Unmoved DEF vars, exchange, plan, history
<1>2. ASSUME NEW c \in Child, Expire(c) PROVE Inv'
  <2>1. PICK s \in {"cancelled", "rejected"} : Becomes(c, As(s, market[c].filled))
    BY <1>2 DEF Expire
  <2>2. As(s, market[c].filled) \in Copy /\ As(s, market[c].filled).status = s
    BY AsFields DEF Inv, Typed, Copy, Status
  <2>3. /\ market[c].status = "open"
        /\ UNCHANGED <<calls, todo, working, placed, advanced, approved, disowned>>
    BY <1>2 DEF Expire, plan
  <2> QED BY <2>1, <2>2, <2>3, MarketMoves
<1>3. ASSUME NEW c \in Child, NEW q \in 1..Qty[c], Trade(c, q) PROVE Inv'
  <2> DEFINE n == market[c].filled + q
             s == IF n = Qty[c] THEN "filled" ELSE "open"
  <2>1. n \in Nat /\ s \in Status /\ s # "none"
    <3>1. Qty[c] \in Nat /\ market[c].filled \in Nat
      BY DhanAssumption DEF DhanAssumption, Child, Inv, Typed, Copy
    <3> QED BY <3>1 DEF Status
  <2>2. /\ market[c].status = "open" /\ Becomes(c, As(s, n))
        /\ UNCHANGED <<calls, todo, working, placed, advanced, approved, disowned>>
    BY <1>3 DEF Trade, plan
  <2> HIDE DEF n, s
  <2>3. As(s, n) \in Copy /\ As(s, n).status = s
    BY <2>1, AsFields
  <2> QED BY <2>1, <2>2, <2>3, MarketMoves
<1>4. ASSUME NEW c \in Child, Overdue(c) PROVE Inv'
  BY <1>4, Unmoved DEF Overdue, exchange, plan, history
<1>5. ASSUME NEW t \in Task, Lose(t) PROVE Inv'
  <2>1. /\ calls[t].op # "idle" /\ calls[t] \in Call
        /\ UNCHANGED <<market, stream, todo, working, placed, advanced, approved>>
    BY <1>5 DEF Lose, exchange, plan, Inv, Typed
  <2>2. CASE calls[t].tries < MaxRetries
    <3> DEFINE k == [calls[t] EXCEPT !.tries = calls[t].tries + 1, !.reply = Waiting]
    <3>1. calls[t].tries + 1 \in 0..MaxRetries
      BY <2>1, <2>2, DhanAssumption DEF DhanAssumption, Call, NoCall
    <3>2. calls' = [calls EXCEPT ![t] = k] /\ disowned' = disowned
      BY <1>5, <2>2 DEF Lose
    <3>3. k \in Call /\ k.op = calls[t].op /\ k.id = calls[t].id /\ k.reply = Waiting
      <4>1. calls[t] \in [op: Op, id: Child, tries: 0..MaxRetries,
                           reply: Copy \cup {Waiting, Refused}]
        BY <2>1 DEF Call, NoCall
      <4> QED BY <3>1, <4>1 DEF Call
    <3> HIDE DEF k
    <3>4. AnswerHolds(k)
      BY <3>3, Idle DEF AnswerHolds, Closed
    <3> QED BY <2>1, <3>2, <3>3, <3>4, CallGoesOn
  <2>3. CASE ~(calls[t].tries < MaxRetries)
    <3>1. /\ calls' = [calls EXCEPT ![t] = NoCall] /\ disowned \subseteq disowned'
          /\ calls[t].op = "place" => calls[t].id \in disowned'
      BY <1>5, <2>3 DEF Lose, Done
    <3> QED BY <2>1, <3>1, Idle, CallMovesOn
  <2> QED BY <2>2, <2>3
<1>6. CASE Manage \/ Kill
  <2>1. /\ \E t \in Task : todo' = [todo EXCEPT ![t] = DOMAIN working]
        /\ UNCHANGED <<market, stream, calls, working, placed, advanced, approved, disowned>>
    BY <1>6 DEF Manage, Kill, Task, exchange, plan, history
  <2> QED BY <2>1, WalkBegins
<1>7. CASE Disconnect \/ Connect \/ SyncOrders \/ SyncPositions
  <2>1. /\ UNCHANGED <<market, calls, todo, working, placed, advanced, approved, disowned>>
        /\ stream' = stream \/ stream' = <<>>
    BY <1>7 DEF Disconnect, Connect, SyncOrders, SyncPositions, exchange, plan, history
  <2> QED BY <2>1, Unmoved
<1>8. CASE \E c \in Child : Expire(c) \/ Overdue(c) \/ \E q \in 1..Qty[c] : Trade(c, q)
  BY <1>2, <1>3, <1>4, <1>8
<1>9. CASE \E t \in Task : Serve(t) \/ Lose(t) \/ Answer(t) \/ Turn(t)
  <2>1. PICK t \in Task : Serve(t) \/ Lose(t) \/ Answer(t) \/ Turn(t)
    BY <1>9
  <2>2. CASE Serve(t)
    BY <2>2, Served
  <2>3. CASE Lose(t)
    BY <2>3, <1>5
  <2>4. CASE Answer(t)
    BY <2>4, AnswerKeeps
  <2>5. CASE Turn(t)
    BY <2>5, TurnKeeps
  <2> QED BY <2>1, <2>2, <2>3, <2>4, <2>5
<1>10. CASE Approve \/ HandleUpdate \/ Restart
  BY <1>10, ApproveKeeps, UpdateKeeps, RestartKeeps
<1> QED BY <1>1, <1>6, <1>7, <1>8, <1>9, <1>10 DEF Next

\* The invariant holds of every behaviour.
LEMMA InvHolds == Spec => []Inv
  BY InvInit, InvStep, PTL DEF Spec

\* Whatever calls and updates are lost or come late: an order that works at the exchange
\* is in the working set of the agent, where its TTL and the kill switch find it, unless
\* its placement is still awaited, raised, or was made by an earlier process
\* (execution.py: _place, manage, cancel; dhan.py: place_order).
THEOREM OrdersStayTracked == Spec => []Tracked
<1>1. Inv => Tracked
  BY DEF Inv
<1> QED BY <1>1, InvHolds, PTL

\* Slices of a plan never work at the exchange together, whether an answer or an update
\* tells the agent that one has ended (execution.py: "Children go out one at a time").
THEOREM SlicesOneAtATime == Spec => []OneAtATime
<1>1. ASSUME Inv PROVE OneAtATime
  <2>1. placed \in Nat /\ \A c \in Child : c \in Nat
    BY <1>1, DhanAssumption DEF DhanAssumption, Inv, Typed, Child
  <2>2. ASSUME NEW c \in Child, NEW d \in Child, c < d, market[c].status = "open",
               market[d].status # "none"
        PROVE  c \in disowned
    <3>1. c < placed
      BY <1>1, <2>1, <2>2 DEF Inv, Numbered
    <3> QED BY <1>1, <2>2, <3>1 DEF Inv, Succession, Over
  <2> QED BY <2>2 DEF OneAtATime
<1> QED BY <1>1, InvHolds, PTL
-----------------------------------------------------------------------------
(* What the agent has heard.                                               *)

Held == seen \in [Child -> Copy] /\ cache \in [Child -> Copy] /\ counted \in [Child -> Nat]

\* Until a process has started nothing runs in it, and only a connected one is told.
Idling == phase # "up" =>
  /\ DOMAIN working = {} /\ ~connected
  /\ \A t \in Task : calls[t] = NoCall /\ todo[t] = {}
Wired == ~connected => stream = <<>>

\* The updates of an order come in the order of its fills, and the last is the order.
Last(k) == \A l \in 1..Len(stream) : k < l => stream[l].id # stream[k].id
InOrder == \A k \in 1..Len(stream) :
  /\ Last(k) => stream[k].copy = market[stream[k].id]
  /\ stream[k].copy.filled <= market[stream[k].id].filled
  /\ \A l \in 1..Len(stream) :
       k < l /\ stream[l].id = stream[k].id => stream[k].copy.filled <= stream[l].copy.filled
Unplaced == \A c \in Child : market[c].status = "none" => market[c].filled = 0

\* The agent has the last word on the order.
Heard(c) == ~Sent(c) /\ c \notin missed

\* While answers and updates agree, the agent's copy trails the exchange's, and what the
\* portfolio counted is what the agent's copy has.
Agreed == phase = "up" => \A c \in Child : c \notin skewed =>
  /\ counted[c] = seen[c].filled
  /\ seen[c].filled <= market[c].filled
  /\ \A k \in 1..Len(stream) : stream[k].id = c => seen[c].filled <= stream[k].copy.filled
  /\ Heard(c) => seen[c].filled = market[c].filled

\* An end that was heard of took the order out of the working set, or is remembered by
\* the agent until the placement answers.
Ended == \A c \in Child : Settled(c) /\ Heard(c) =>
  /\ c \in DOMAIN working => c \in overtaken
  /\ Placing(c) => seen[c].status \in Closed

Heeded == Held /\ Idling /\ Wired /\ InOrder /\ Unplaced /\ Agreed /\ Ended

\* A task at work runs in a process that has started.
LEMMA AtWork ==
  ASSUME Heeded, NEW t \in Task, calls[t].op # "idle" \/ todo[t] # {}
  PROVE  phase = "up"
  BY Idle DEF Heeded, Idling

\* An update is added.
LEMMA StreamGrows ==
  ASSUME NEW s \in Seq(News), NEW u \in News
  PROVE  /\ Len(Append(s, u)) = Len(s) + 1
         /\ Append(s, u)[Len(s) + 1] = u
         /\ \A k \in 1..Len(s) : k \in 1..Len(Append(s, u)) /\ Append(s, u)[k] = s[k]
         /\ \A k \in 1..Len(Append(s, u)) : k \in 1..Len(s) \/ k = Len(s) + 1
  OBVIOUS

\* An update is taken.
LEMMA StreamShrinks ==
  ASSUME NEW s \in Seq(News), s # <<>>
  PROVE  /\ Head(s) = s[1] /\ 1 \in 1..Len(s) /\ Head(s) \in News
         /\ Len(Tail(s)) = Len(s) - 1
         /\ \A k \in 1..Len(Tail(s)) : k + 1 \in 1..Len(s) /\ Tail(s)[k] = s[k + 1]
         /\ \A k \in 1..Len(s) : k # 1 => k - 1 \in 1..Len(Tail(s)) /\ Tail(s)[k - 1] = s[k]
<1>1. Len(s) \in Nat /\ Len(s) # 0
  BY EmptySeq
<1>2. Head(s) = s[1] /\ 1 \in 1..Len(s)
  BY <1>1
<1>3. Head(s) \in News
  BY <1>1, <1>2
<1> QED BY <1>1, <1>2, <1>3

\* The exchange changes an order that had not ended.
LEMMA MarketTells ==
  ASSUME Inv, Heeded, NEW c \in Child, NEW copy \in Copy, Becomes(c, copy),
         copy.status # "none", ~Settled(c), market[c].filled <= copy.filled,
         phase = "up" \/ calls' = calls, \A d \in Child : Placing(d)' => Placing(d),
         UNCHANGED <<seen, cache, counted, working, skewed, overtaken, phase, todo>>
  PROVE  Heeded'
<1>1. /\ market' = [market EXCEPT ![c] = copy] /\ market \in [Child -> Copy]
      /\ connected' = connected /\ stream \in Seq(News) /\ Update(c, copy) \in News
  BY DEF Becomes, Inv, Typed, Update, News
<1>2. /\ market'[c] = copy /\ \A d \in Child : d # c => market'[d] = market[d]
      /\ copy.filled \in Nat /\ \A d \in Child : market[d].filled \in Nat
  BY <1>1 DEF Copy
<1>3. \A k \in 1..Len(stream) : /\ stream[k].id \in Child /\ stream[k].copy.filled \in Nat
                                 /\ stream[k].copy.filled <= market[stream[k].id].filled
  <2>1. \A k \in 1..Len(stream) : stream[k] \in News
    BY <1>1
  <2> QED BY <2>1 DEF News, Copy, Heeded, InOrder
<1>4. Held' /\ Idling'
  <2>1. Held'
    BY DEF Heeded, Held
  <2>2. Idling'
    BY <1>1 DEF Heeded, Idling
  <2> QED BY <2>1, <2>2
<1>5. Unplaced'
  BY <1>2 DEF Heeded, Unplaced
<1>6. CASE connected
  <2> DEFINE u == Update(c, copy)
             n == Len(stream) + 1
  <2>1. stream' = Append(stream, u) /\ missed' = missed \ {c} /\ u.id = c /\ u.copy = copy
    BY <1>6 DEF Becomes, Update
  <2>2. /\ Len(stream') = n /\ n \in 1..Len(stream') /\ stream'[n] = u
        /\ \A k \in 1..Len(stream) : k \in 1..Len(stream') /\ stream'[k] = stream[k] /\ k < n
        /\ \A k \in 1..Len(stream') : k \in 1..Len(stream) \/ k = n
    <3>1. u \in News /\ Len(stream) \in Nat
      BY <1>1
    <3> HIDE DEF u
    <3>2. Len(stream') = n /\ stream'[n] = u
      BY <1>1, <2>1, <3>1, StreamGrows
    <3> QED BY <1>1, <2>1, <3>1, <3>2, StreamGrows
  <2> HIDE DEF u, n
  <2>3. Wired'
    BY <1>1, <1>6 DEF Wired
  <2>4. InOrder'
    <3> SUFFICES ASSUME NEW k \in 1..Len(stream')
                 PROVE  /\ Last(k)' => stream'[k].copy = market'[stream'[k].id]
                        /\ stream'[k].copy.filled <= market'[stream'[k].id].filled
                        /\ \A l \in 1..Len(stream') :
                             k < l /\ stream'[l].id = stream'[k].id =>
                                stream'[k].copy.filled <= stream'[l].copy.filled
      BY DEF InOrder, Last
    <3>1. CASE k = n
      <4>1. \A l \in 1..Len(stream') : ~(k < l)
        BY <2>2, <3>1
      <4> QED BY <1>2, <2>1, <2>2, <3>1, <4>1
    <3>2. CASE k \in 1..Len(stream)
      <4>1. stream'[k] = stream[k] /\ stream[k].id \in Child /\ k < n
        BY <2>2, <3>2, <1>3
      <4>2. CASE stream[k].id = c
        <5>1. ~Last(k)'
          BY <2>1, <2>2, <4>1, <4>2 DEF Last
        <5>2. stream[k].copy.filled <= copy.filled
          BY <1>2, <1>3, <3>2, <4>2
        <5> QED BY <1>2, <2>1, <2>2, <3>2, <4>1, <4>2, <5>1, <5>2 DEF Heeded, InOrder
      <4>3. CASE stream[k].id # c
        <5>1. Last(k)' => Last(k)
          BY <2>2, <4>1 DEF Last
        <5> QED BY <1>2, <2>1, <2>2, <3>2, <4>1, <4>3, <5>1, SMTT(30) DEF Heeded, InOrder
      <4> QED BY <4>2, <4>3
    <3> QED BY <2>2, <3>1, <3>2
  <2>5. Sent(c)' /\ \A d \in Child : d # c => (Heard(d)' => Heard(d))
    BY <2>1, <2>2 DEF Sent, Heard
  <2>6. Agreed'
    <3> SUFFICES ASSUME phase = "up", NEW d \in Child, d \notin skewed
                 PROVE  /\ counted[d] = seen[d].filled
                        /\ seen[d].filled <= market'[d].filled
                        /\ \A k \in 1..Len(stream') :
                             stream'[k].id = d => seen[d].filled <= stream'[k].copy.filled
                        /\ Heard(d)' => seen[d].filled = market'[d].filled
      BY DEF Agreed
    <3>1. seen[d].filled \in Nat
      BY DEF Heeded, Held, Copy
    <3>2. seen[d].filled <= market'[d].filled
      BY <1>2, <3>1 DEF Heeded, Agreed
    <3>3. \A k \in 1..Len(stream') :
             stream'[k].id = d => seen[d].filled <= stream'[k].copy.filled
      BY <1>2, <2>1, <2>2, <3>2 DEF Heeded, Agreed
    <3> QED BY <1>2, <2>5, <3>2, <3>3 DEF Heeded, Agreed, Heard
  <2>7. Ended'
    <3>1. \A d \in Child : Settled(d)' /\ Heard(d)' => d # c /\ Settled(d) /\ Heard(d)
      BY <1>2, <2>5 DEF Settled, Heard
    <3> QED BY <3>1 DEF Heeded, Ended
  <2> QED BY <1>4, <1>5, <2>3, <2>4, <2>6, <2>7 DEF Heeded
<1>7. CASE ~connected
  <2>1. stream = <<>> /\ stream' = stream /\ missed' = missed \cup {c}
    BY <1>7 DEF Becomes, Heeded, Wired
  <2>2. Wired' /\ InOrder'
    BY <2>1 DEF Wired, InOrder
  <2>3. \A d \in Child : Heard(d)' => d # c /\ Heard(d)
    BY <2>1 DEF Heard, Sent
  <2>4. Agreed'
    <3> SUFFICES ASSUME phase = "up", NEW d \in Child, d \notin skewed
                 PROVE  /\ counted[d] = seen[d].filled
                        /\ seen[d].filled <= market'[d].filled
                        /\ Heard(d)' => seen[d].filled = market'[d].filled
      BY <2>1 DEF Agreed
    <3>1. seen[d].filled \in Nat
      BY DEF Heeded, Held, Copy
    <3> QED BY <1>2, <2>3, <3>1 DEF Heeded, Agreed
  <2>5. Ended'
    <3>1. \A d \in Child : Settled(d)' /\ Heard(d)' => Settled(d) /\ Heard(d)
      BY <1>2, <2>3 DEF Settled
    <3> QED BY <3>1 DEF Heeded, Ended
  <2> QED BY <1>4, <1>5, <2>2, <2>4, <2>5 DEF Heeded
<1> QED BY <1>6, <1>7

\* Only calls and walks change.
LEMMA NothingHeard ==
  ASSUME Heeded, cache' \in [Child -> Copy],
         phase = "up" \/ UNCHANGED <<calls, todo>>,
         \A d \in Child : Placing(d)' => Placing(d) \/ ~Settled(d),
         UNCHANGED <<market, stream, connected, seen, counted, working, skewed, overtaken,
                     missed, phase>>
  PROVE  Heeded'
<1>1. Held' /\ Idling' /\ Wired' /\ InOrder' /\ Unplaced'
  BY DEF Heeded, Held, Idling, Wired, InOrder, Last, Unplaced
<1>2. \A d \in Child : Heard(d)' <=> Heard(d)
  BY DEF Heard, Sent
<1>3. Agreed'
  BY <1>2 DEF Heeded, Agreed
<1>4. Ended'
  BY <1>2 DEF Heeded, Ended, Settled
<1> QED BY <1>1, <1>3, <1>4 DEF Heeded

\* A placement that progress starts is of an order the exchange does not know.
LEMMA ProgressPlaces ==
  ASSUME Inv, NEW t \in Task, NEW c, NEW copy, NEW linked, NEW w, Progress(t, c, copy, linked, w)
  PROVE  \A d \in Child : Placing(d)' =>
           ~Settled(d) \/ \E u \in Task \ {t} : calls[u].op = "place" /\ calls[u].id = d
<1> SUFFICES ASSUME NEW d \in Child, Placing(d)', Settled(d)
             PROVE  \E u \in Task \ {t} : calls[u].op = "place" /\ calls[u].id = d
  OBVIOUS
<1>1. PICK u \in Task : calls'[u].op = "place" /\ calls'[u].id = d
  BY DEF Placing
<1>2. d <= placed /\ placed \in Nat
  BY Idle, DhanAssumption DEF Settled, Inv, Numbered, Typed, DhanAssumption
<1>3. PICK k : k \in {Ask("place", placed + 1), NoCall} /\ calls' = [calls EXCEPT ![t] = k]
  BY DEF Progress, Begin
<1>4. k.op = "place" => k.id = placed + 1
  BY <1>3, Idle DEF Ask
<1>5. u # t
  <2>1. k.id # d \/ k.op # "place"
    BY <1>2, <1>4 DEF Child
  <2> QED BY <1>1, <1>3, <2>1 DEF Inv, Typed
<1> QED BY <1>1, <1>3, <1>5 DEF Inv, Typed

\* The agent takes the copy an answer brings.
LEMMA AnswerHeard ==
  ASSUME Inv, Heeded, NEW t \in Task, calls[t].op # "idle", NEW c \in Child, c = calls[t].id,
         NEW copy \in Copy, Learn(c, copy), cache' \in [Child -> Copy],
         DOMAIN working' \subseteq DOMAIN working \cup {c},
         c \in DOMAIN working' => c \in DOMAIN working \/ calls[t].op = "place",
         overtaken \subseteq overtaken',
         calls[t].op = "place" /\ seen[c].status \in Closed => c \in overtaken',
         \A d \in Child : Placing(d)' =>
           ~Settled(d) \/ \E u \in Task \ {t} : calls[u].op = "place" /\ calls[u].id = d,
         UNCHANGED <<market, stream, connected, counted, missed, phase>>
  PROVE  Heeded'
<1>1. phase = "up" /\ seen' = [seen EXCEPT ![c] = copy]
  BY AtWork DEF Learn
<1>2. Held' /\ Idling' /\ Wired' /\ InOrder' /\ Unplaced'
  BY <1>1 DEF Heeded, Held, Idling, Wired, InOrder, Last, Unplaced
<1>3. \A d \in Child : Heard(d)' <=> Heard(d)
  BY DEF Heard, Sent
<1>4. seen'[c] = copy /\ \A d \in Child : d # c => seen'[d] = seen[d]
  BY <1>1 DEF Heeded, Held
<1>5. skewed' = IF copy.filled # seen[c].filled THEN skewed \cup {c} ELSE skewed
  BY DEF Learn
<1>6. \A d \in Child : d \notin skewed' => d \notin skewed /\ seen'[d].filled = seen[d].filled
  BY <1>4, <1>5
<1>7. Agreed'
  BY <1>3, <1>6 DEF Heeded, Agreed
<1>8. Ended'
  <2> SUFFICES ASSUME NEW d \in Child, Settled(d), Heard(d)
               PROVE  /\ d \in DOMAIN working' => d \in overtaken'
                      /\ Placing(d)' => seen'[d].status \in Closed
    BY <1>3 DEF Ended, Settled
  <2>1. d # c \/ calls[t].op = "place" => (Placing(d)' => d # c /\ Placing(d))
    BY DEF Placing, Inv, Exclusive
  <2>2. /\ d \in DOMAIN working => d \in overtaken
        /\ Placing(d) => seen[d].status \in Closed
    BY DEF Heeded, Ended
  <2>3. CASE d # c
    BY <2>1, <2>2, <2>3, <1>4
  <2>4. CASE d = c
    <3>1. ~Placing(c)'
      <4> SUFFICES ASSUME NEW u \in Task \ {t}, calls[u].op = "place", calls[u].id = c
                   PROVE  FALSE
        BY <2>4
      <4> QED BY DEF Inv, Exclusive
    <3>2. calls[t].op = "place" => Placing(c)
      BY DEF Placing
    <3> QED BY <2>2, <2>4, <3>1, <3>2
  <2> QED BY <2>3, <2>4
<1> QED BY <1>2, <1>7, <1>8 DEF Heeded

\* The agent takes the copy the stream brings, and counts its growth.
LEMMA UpdateHeard == ASSUME Inv, Heeded, HandleUpdate PROVE Heeded'
<1>0. PICK c, copy, grown :
        c = Head(stream).id /\ copy = Head(stream).copy /\ grown = Grown(c, copy)
  OBVIOUS
<1>1. /\ phase = "up" /\ stream # <<>> /\ stream' = Tail(stream)
      /\ seen' = [seen EXCEPT ![c] = copy]
      /\ counted' = IF grown > 0 THEN [counted EXCEPT ![c] = @ + grown] ELSE counted
      /\ Progress("pump", c, copy, c \in DOMAIN working, working)
      /\ UNCHANGED <<market, connected, cache, phase, todo, missed, skewed, overtaken>>
  BY <1>0 DEF HandleUpdate, Free, history
<1>2. stream \in Seq(News)
  BY DEF Inv, Typed
<1>3. Head(stream) = stream[1] /\ 1 \in 1..Len(stream) /\ c \in Child /\ copy \in Copy
  BY <1>0, <1>1, <1>2, StreamShrinks DEF News
<1>4. grown = copy.filled - seen[c].filled
  BY <1>0 DEF Grown
<1> DEFINE n == Len(stream)
<1>5. /\ n \in Nat /\ Len(stream') = n - 1
      /\ \A k \in 1..Len(stream') : k \in Nat /\ k + 1 \in 1..n /\ stream'[k] = stream[k + 1]
      /\ \A k \in 1..n : k # 1 => k - 1 \in 1..Len(stream') /\ stream'[k - 1] = stream[k]
  BY <1>1, <1>2, StreamShrinks
<1>6. stream[1].id = c /\ stream[1].copy = copy
  BY <1>0, <1>3
<1>7. copy.filled \in Nat /\ seen[c].filled \in Nat /\ counted[c] \in Nat /\ market[c].filled \in Nat
  BY <1>3 DEF Copy, Heeded, Held, Inv, Typed
<1> HIDE DEF n
<1>8. seen'[c] = copy /\ \A d \in Child : d # c => seen'[d] = seen[d]
  BY <1>1, <1>3 DEF Heeded, Held
<1>9. /\ counted'[c] = IF grown > 0 THEN counted[c] + grown ELSE counted[c]
      /\ \A d \in Child : d # c => counted'[d] = counted[d]
  BY <1>1, <1>3 DEF Heeded, Held
<1>10. Held'
  <2>1. seen' \in [Child -> Copy]
    BY <1>1, <1>3 DEF Heeded, Held
  <2>2. counted' \in [Child -> Nat]
    <3>1. grown > 0 => counted[c] + grown \in Nat
      BY <1>4, <1>7
    <3> QED BY <1>1, <1>3, <3>1 DEF Heeded, Held
  <2> QED BY <1>1, <2>1, <2>2 DEF Heeded, Held
<1>11. Idling' /\ Unplaced'
  BY <1>1 DEF Heeded, Idling, Unplaced
<1>12. Wired'
  BY <1>1 DEF Heeded, Wired
<1>13. \A k \in 1..Len(stream') : Last(k)' => Last(k + 1)
  <2> SUFFICES ASSUME NEW k \in 1..Len(stream'), Last(k)', NEW l \in 1..Len(stream), k + 1 < l
               PROVE  stream[l].id # stream[k + 1].id
    BY DEF Last
  <2>1. l # 1 /\ l - 1 > k
    BY <1>5 DEF n
  <2>2. l - 1 \in 1..Len(stream') /\ stream'[l - 1] = stream[l] /\ stream'[k] = stream[k + 1]
    BY <2>1, <1>5 DEF n
  <2> QED BY <2>1, <2>2 DEF Last
<1>14. InOrder'
  <2> SUFFICES ASSUME NEW k \in 1..Len(stream')
               PROVE  /\ Last(k)' => stream'[k].copy = market[stream'[k].id]
                      /\ stream'[k].copy.filled <= market[stream'[k].id].filled
                      /\ \A l \in 1..Len(stream') :
                           k < l /\ stream'[l].id = stream'[k].id =>
                              stream'[k].copy.filled <= stream'[l].copy.filled
    BY <1>1 DEF InOrder, Last
  <2>1. k + 1 \in 1..Len(stream) /\ stream'[k] = stream[k + 1]
    BY <1>5 DEF n
  <2>2. \A l \in 1..Len(stream') : k < l => k + 1 < l + 1
    BY <1>5
  <2> QED BY <1>5, <1>13, <2>1, <2>2 DEF Heeded, InOrder, n
<1>15. \A d \in Child : d # c => (Sent(d) <=> Sent(d)')
  BY <1>5, <1>6 DEF Sent, n
<1>16. ~Sent(c)' => copy = market[c]
  <2> SUFFICES ASSUME ~Sent(c)' PROVE Last(1)
    BY <1>3, <1>6 DEF Heeded, InOrder
  <2> SUFFICES ASSUME NEW l \in 1..Len(stream), 1 < l PROVE stream[l].id # c
    BY <1>6 DEF Last
  <2>1. l - 1 \in 1..Len(stream') /\ stream'[l - 1] = stream[l]
    BY <1>5 DEF n
  <2> QED BY <2>1 DEF Sent
<1>17. Agreed'
  <2> SUFFICES ASSUME NEW d \in Child, d \notin skewed
               PROVE  /\ counted'[d] = seen'[d].filled
                      /\ seen'[d].filled <= market[d].filled
                      /\ \A k \in 1..Len(stream') :
                           stream'[k].id = d => seen'[d].filled <= stream'[k].copy.filled
                      /\ Heard(d)' => seen'[d].filled = market[d].filled
    BY <1>1 DEF Agreed
  <2>1. /\ counted[d] = seen[d].filled
        /\ seen[d].filled <= market[d].filled
        /\ \A k \in 1..Len(stream) : stream[k].id = d => seen[d].filled <= stream[k].copy.filled
        /\ Heard(d) => seen[d].filled = market[d].filled
    BY <1>1 DEF Heeded, Agreed
  <2>2. CASE d # c
    <3>1. Heard(d)' => Heard(d)
      BY <1>1, <1>15, <2>2 DEF Heard
    <3>2. \A k \in 1..Len(stream') :
             stream'[k].id = d => seen[d].filled <= stream'[k].copy.filled
      BY <1>5, <2>1 DEF n
    <3> QED BY <1>8, <1>9, <2>1, <2>2, <3>1, <3>2
  <2>3. CASE d = c
    <3>1. seen[c].filled <= copy.filled
      BY <1>3, <1>6, <2>1, <2>3
    <3>2. counted'[c] = copy.filled
      BY <3>1, <1>4, <1>7, <1>9, <2>1, <2>3
    <3>3. copy.filled <= market[c].filled
      BY <1>3, <1>6 DEF Heeded, InOrder
    <3>4. \A k \in 1..Len(stream') : stream'[k].id = c => copy.filled <= stream'[k].copy.filled
      <4> SUFFICES ASSUME NEW k \in 1..Len(stream'), stream'[k].id = c
                   PROVE  copy.filled <= stream'[k].copy.filled
        OBVIOUS
      <4>1. k + 1 \in 1..Len(stream) /\ stream'[k] = stream[k + 1] /\ 1 < k + 1
        BY <1>5 DEF n
      <4> QED BY <4>1, <1>3, <1>6 DEF Heeded, InOrder
    <3>5. Heard(d)' => copy.filled = market[c].filled
      BY <1>16, <2>3 DEF Heard, Sent
    <3>6. seen'[d].filled = copy.filled
      BY <1>8, <2>3
    <3> QED BY <2>3, <3>2, <3>3, <3>4, <3>5, <3>6
  <2> QED BY <2>2, <2>3
<1>18. Ended'
  <2> SUFFICES ASSUME NEW d \in Child, Settled(d), Heard(d)'
               PROVE  /\ d \in DOMAIN working' => d \in overtaken
                      /\ Placing(d)' => seen'[d].status \in Closed
    BY <1>1 DEF Ended, Settled
  <2>1. \A u \in Task : calls[u].op = "place" /\ calls[u].id = d => Placing(d)
    BY DEF Placing
  <2>2. Placing(d)' => Placing(d)
    BY <1>1, <2>1, ProgressPlaces DEF Task
  <2>3. DOMAIN working' \subseteq DOMAIN working
    BY <1>1 DEF Progress, Drop
  <2>4. CASE d # c
    <3>1. Heard(d)
      BY <1>1, <1>15, <2>4 DEF Heard
    <3> QED BY <2>2, <2>3, <2>4, <3>1, <1>8 DEF Heeded, Ended
  <2>5. CASE d = c
    <3>1. copy = market[c] /\ copy.status \in Closed
      <4>1. ~Sent(c)'
        BY <2>5 DEF Heard, Sent
      <4> QED BY <4>1, <1>16, <2>5 DEF Settled
    <3>2. c \notin DOMAIN working'
      BY <1>1, <3>1 DEF Progress, IsTerminal, Drop
    <3> QED BY <1>8, <2>5, <3>1, <3>2
  <2> QED BY <2>4, <2>5
<1> QED BY <1>10, <1>11, <1>12, <1>14, <1>17, <1>18 DEF Heeded

\* A request is served: the exchange may change the order, and the agent hears nothing yet.
LEMMA ServedHeard == ASSUME Inv, Heeded, NEW t \in Task, Serve(t) PROVE Heeded'
<1>1. PICK c : c = calls[t].id
  OBVIOUS
<1>2. /\ calls[t].op # "idle" /\ c \in Child /\ phase = "up"
      /\ UNCHANGED <<cache, phase, seen, working, counted, todo, skewed, overtaken>>
  BY <1>1, AtWork DEF Serve, plan, Inv, Numbered
<1>3. PICK r : calls' = [calls EXCEPT ![t].reply = r]
  BY DEF Serve
<1>4. \A u \in Task : calls'[u].op = calls[u].op /\ calls'[u].id = calls[u].id
  <2>1. calls[t] \in [op: Op, id: Child, tries: 0..MaxRetries, reply: Copy \cup {Waiting, Refused}]
    BY <1>2, Idle DEF Inv, Typed, Call
  <2> QED BY <1>3, <2>1 DEF Inv, Typed
<1>5. \A d \in Child : Placing(d)' => Placing(d)
  BY <1>4 DEF Placing
<1>6. market[c].filled \in Nat /\ Qty[c] \in Nat
  BY <1>2, DhanAssumption DEF Inv, Typed, Copy, DhanAssumption, Child
<1>7. CASE calls[t].op = "place" /\ market[c].status = "none"
  <2>1. market[c].filled = 0 /\ ~Settled(c)
    BY <1>2, <1>7, Idle DEF Heeded, Unplaced, Settled
  <2>2. \/ Becomes(c, As("open", 0)) \/ Becomes(c, As("filled", Qty[c]))
        \/ UNCHANGED <<exchange, missed>>
    BY <1>1, <1>7 DEF Serve
  <2>3. As("open", 0) \in Copy /\ As("open", 0).status # "none" /\ As("open", 0).filled = 0
    BY AsFields DEF Status
  <2>4. /\ As("filled", Qty[c]) \in Copy /\ As("filled", Qty[c]).status # "none"
        /\ As("filled", Qty[c]).filled = Qty[c]
    BY <1>6, AsFields DEF Status
  <2>5. CASE Becomes(c, As("open", 0))
    <3> DEFINE copy == As("open", 0)
    <3>1. copy \in Copy /\ copy.status # "none" /\ market[c].filled <= copy.filled /\ Becomes(c, copy)
      BY <2>1, <2>3, <2>5
    <3> HIDE DEF copy
    <3> QED BY <1>2, <1>5, <2>1, <3>1, MarketTells
  <2>6. CASE Becomes(c, As("filled", Qty[c]))
    <3> DEFINE copy == As("filled", Qty[c])
    <3>1. copy \in Copy /\ copy.status # "none" /\ market[c].filled <= copy.filled /\ Becomes(c, copy)
      BY <1>6, <2>1, <2>4, <2>6
    <3> HIDE DEF copy
    <3> QED BY <1>2, <1>5, <2>1, <3>1, MarketTells
  <2>7. CASE UNCHANGED <<exchange, missed>>
    BY <1>2, <1>5, <2>7, NothingHeard DEF exchange, Heeded, Held
  <2> QED BY <2>2, <2>5, <2>6, <2>7
<1>8. CASE calls[t].op = "cancel" /\ market[c].status = "open"
  <2> DEFINE copy == As("cancelled", market[c].filled)
  <2>1. copy \in Copy /\ copy.status # "none" /\ market[c].filled <= copy.filled
    BY <1>6, AsFields DEF Status
  <2>2. Becomes(c, copy) /\ ~Settled(c)
    BY <1>1, <1>8, Idle DEF Serve, Settled
  <2> HIDE DEF copy
  <2> QED BY <1>2, <1>5, <2>1, <2>2, MarketTells
<1>9. CASE UNCHANGED <<exchange, missed>>
  BY <1>2, <1>5, <1>9, NothingHeard DEF exchange, Heeded, Held
<1> QED BY <1>1, <1>7, <1>8, <1>9 DEF Serve

\* The agent consumes an answer.
LEMMA AnswersHeard == ASSUME Inv, Heeded, NEW t \in Task, Answer(t) PROVE Heeded'
<1>1. PICK c, copy : c = calls[t].id /\ copy = calls[t].reply
  OBVIOUS
<1>2. calls[t] \in Call /\ cache \in [Child -> Copy]
  BY DEF Inv, Typed, Heeded, Held
<1>3. ASSUME calls[t].op # "idle"
      PROVE  c \in Child /\ phase = "up"
  BY <1>1, <1>3, AtWork DEF Inv, Numbered
<1>4. ASSUME NEW op \in Op, Got(t, op)
      PROVE  calls[t].op = op /\ op # "idle" /\ copy \in Copy /\ c \in Child
  BY <1>1, <1>2, <1>3, <1>4, CallFields DEF Got, Answered, Op
<1>5. ASSUME NEW k, k.op # "place", calls' = [calls EXCEPT ![t] = k],
             calls[t].op # "idle", cache' \in [Child -> Copy],
             UNCHANGED <<market, stream, connected, seen, counted, working, skewed, overtaken,
                         missed, phase>>
      PROVE  Heeded'
  <2>1. \A d \in Child : Placing(d)' => Placing(d)
    BY <1>5 DEF Placing, Inv, Typed
  <2> QED BY <1>3, <1>5, <2>1, NothingHeard
<1>6. CASE Fails(t)
  <2>1. calls[t].op # "idle" /\ NoCall.op # "place"
    BY <1>2, <1>6, CallFields, Idle DEF Fails
  <2> QED BY <2>1, <1>2, <1>5, <1>6 DEF Fails, Done, exchange, history
<1>7. CASE Looked(t)
  <2>1. Got(t, "look") /\ cache' = [cache EXCEPT ![c] = copy]
    BY <1>1, <1>7 DEF Looked
  <2>2. calls[t].op # "idle" /\ cache' \in [Child -> Copy]
    BY <1>2, <1>4, <2>1 DEF Op
  <2>3. PICK k : k \in {Ask("put", c), NoCall} /\ calls' = [calls EXCEPT ![t] = k]
    BY <1>1, <1>7 DEF Looked, Begin
  <2>4. k.op # "place"
    BY <2>3, Idle DEF Ask
  <2> QED BY <2>2, <2>3, <2>4, <1>5, <1>7 DEF Looked, exchange, history
<1>8. CASE Modified(t)
  <2>1. Got(t, "put")
    BY <1>8 DEF Modified
  <2>2. calls[t].op # "idle"
    BY <1>4, <2>1 DEF Op
  <2>3. PICK k : k = Ask("relook", c) /\ calls' = [calls EXCEPT ![t] = k]
    BY <1>1, <1>8 DEF Modified, Begin
  <2>4. k.op # "place"
    BY <2>3 DEF Ask
  <2> QED BY <1>2, <2>2, <2>3, <2>4, <1>5, <1>8 DEF Modified, exchange, history
<1>9. ASSUME NEW op \in Op, Got(t, op), NEW got \in Copy, NEW w, op # "place",
             Learn(c, got), Progress(t, c, got, TRUE, w), DOMAIN w = DOMAIN working,
             cache' = [cache EXCEPT ![c] = got],
             UNCHANGED <<market, stream, connected, counted, missed, phase, overtaken>>
      PROVE  Heeded'
  <2>1. calls[t].op = op /\ op # "idle" /\ c \in Child
    BY <1>4, <1>9
  <2>2. cache' \in [Child -> Copy]
    BY <1>2, <1>9
  <2>3. DOMAIN working' \subseteq DOMAIN working
    BY <1>9 DEF Progress, Drop
  <2> QED BY <1>1, <1>9, <2>1, <2>2, <2>3, ProgressPlaces, AnswerHeard
<1>10. CASE Placed(t)
  <2>1. Got(t, "place") /\ Learn(c, copy) /\ cache' = [cache EXCEPT ![c] = copy]
        /\ UNCHANGED <<market, stream, connected, counted, missed, phase>>
    BY <1>1, <1>10 DEF Placed, exchange
  <2>2. calls[t].op = "place" /\ copy \in Copy /\ c \in Child
    BY <1>4, <2>1 DEF Op
  <2>3. cache' \in [Child -> Copy]
    BY <1>2, <2>1, <2>2
  <2>4. overtaken' = IF seen[c].status \in Closed THEN overtaken \cup {c} ELSE overtaken
    BY <1>1, <1>10 DEF Placed
  <2>5. DOMAIN working' \subseteq DOMAIN working \cup {c}
    BY <1>1, <1>10 DEF Placed, Progress, Drop, Put
  <2>6. \A d \in Child : Placing(d)' =>
          ~Settled(d) \/ \E u \in Task \ {t} : calls[u].op = "place" /\ calls[u].id = d
    <3>1. CASE copy.status = "filled"
      <4>1. \E w : Progress(t, c, copy, TRUE, w)
        BY <1>1, <1>10, <3>1 DEF Placed
      <4> QED BY <4>1, ProgressPlaces
    <3>2. CASE copy.status # "filled"
      <4>1. calls' = [calls EXCEPT ![t] = NoCall]
        BY <1>1, <1>10, <3>2 DEF Placed, Done
      <4> QED BY <4>1, Idle DEF Placing, Inv, Typed
    <3> QED BY <3>1, <3>2
  <2> QED BY <1>1, <2>1, <2>2, <2>3, <2>4, <2>5, <2>6, AnswerHeard
<1>11. CASE Chased(t)
  <2>1. Got(t, "relook") /\ Learn(c, copy) /\ cache' = [cache EXCEPT ![c] = copy]
        /\ UNCHANGED <<market, stream, connected, counted, missed, phase, overtaken>>
    BY <1>1, <1>11 DEF Chased, exchange
  <2>2. copy \in Copy
    BY <1>4, <2>1 DEF Op
  <2>3. PICK w : Progress(t, c, copy, TRUE, w) /\ DOMAIN w = DOMAIN working
    <3> DEFINE v == IF c \in DOMAIN working THEN [working EXCEPT ![c] = @ + 1] ELSE working
    <3>1. Progress(t, c, copy, TRUE, v)
      BY <1>1, <1>11 DEF Chased
    <3>2. DOMAIN v = DOMAIN working
      OBVIOUS
    <3> HIDE DEF v
    <3> QED BY <3>1, <3>2
  <2> QED BY <2>1, <2>2, <2>3, <1>9 DEF Op
<1>12. CASE Cancelled(t)
  <2>1. PICK got : got = As("cancelled", cache[c].filled)
    OBVIOUS
  <2>2. /\ Got(t, "cancel") /\ Learn(c, got) /\ cache' = [cache EXCEPT ![c] = got]
        /\ Progress(t, c, got, TRUE, working)
        /\ UNCHANGED <<market, stream, connected, counted, missed, phase, overtaken>>
    BY <1>1, <1>12, <2>1 DEF Cancelled, exchange
  <2>3. got \in Copy
    <3>1. c \in Child
      BY <1>4, <2>2 DEF Op
    <3> QED BY <1>2, <2>1, <3>1, AsFields DEF Copy, Status
  <2> QED BY <2>2, <2>3, <1>9 DEF Op
<1> QED BY <1>6, <1>7, <1>8, <1>10, <1>11, <1>12 DEF Answer

\* What was not handled is lost with the connection.
LEMMA CutOff == ASSUME Inv, Heeded, Disconnect PROVE Heeded'
<1>1. /\ phase = "up" /\ connected' = FALSE /\ stream' = <<>>
      /\ missed' = missed \cup {c \in Child : Sent(c)}
      /\ UNCHANGED <<market, cache, phase, seen, working, counted, calls, todo, skewed, overtaken>>
  BY DEF Disconnect, plan
<1>2. Held' /\ Idling' /\ Wired' /\ InOrder' /\ Unplaced'
  BY <1>1 DEF Heeded, Held, Idling, Wired, InOrder, Unplaced
<1>3. \A d \in Child : Heard(d)' => Heard(d)
  BY <1>1 DEF Heard
<1>4. Agreed'
  BY <1>1, <1>3 DEF Heeded, Agreed
<1>5. Ended'
  BY <1>1, <1>3 DEF Heeded, Ended, Settled, Placing
<1> QED BY <1>2, <1>4, <1>5 DEF Heeded

\* A process starts: it adopts what the exchange has.
LEMMA StartsHeard ==
  ASSUME Inv, Heeded, Connect \/ Restart \/ SyncOrders \/ SyncPositions
  PROVE  Heeded'
<1>0. market \in [Child -> Copy] /\ None \in Copy /\ 0 \in Nat
  BY DEF Inv, Typed, None, Copy, Status
<1>1. CASE Connect
  <2>1. /\ phase = "up" /\ ~connected /\ connected' = TRUE
        /\ UNCHANGED <<market, stream, cache, phase, seen, working, counted, calls, todo,
                       missed, skewed, overtaken>>
    BY <1>1 DEF Connect, plan, history
  <2>2. Held' /\ Idling' /\ Wired' /\ InOrder' /\ Unplaced'
    BY <2>1 DEF Heeded, Held, Idling, Wired, InOrder, Last, Unplaced
  <2>3. \A d \in Child : Heard(d)' <=> Heard(d)
    BY <2>1 DEF Heard, Sent
  <2>4. Agreed'
    BY <2>1, <2>3 DEF Heeded, Agreed
  <2>5. Ended'
    BY <2>1, <2>3 DEF Heeded, Ended, Settled, Placing
  <2> QED BY <2>2, <2>4, <2>5 DEF Heeded
<1>2. CASE Restart
  <2>1. /\ phase' = "orders" /\ connected' = FALSE /\ stream' = <<>> /\ market' = market
        /\ cache' = [c \in Child |-> None] /\ seen' = [c \in Child |-> None]
        /\ working' = <<>> /\ counted' = [c \in Child |-> 0]
        /\ calls' = [t \in Task |-> NoCall] /\ todo' = [t \in Task |-> {}]
    BY <1>2 DEF Restart
  <2>2. DOMAIN working' = {} /\ \A d : ~Placing(d)'
    BY <2>1, Idle DEF Placing
  <2>3. Held' /\ Idling' /\ Wired' /\ InOrder' /\ Unplaced' /\ Agreed'
    BY <1>0, <2>1, <2>2 DEF Heeded, Held, Idling, Wired, InOrder, Unplaced, Agreed
  <2>4. Ended'
    BY <2>2 DEF Ended
  <2> QED BY <2>3, <2>4 DEF Heeded
<1>3. CASE SyncOrders \/ SyncPositions
  <2>1. /\ DOMAIN working = {} /\ stream = <<>> /\ ~connected
        /\ \A t \in Task : calls[t] = NoCall /\ todo[t] = {}
        /\ UNCHANGED <<market, stream, connected, working, calls, todo>>
    BY <1>3 DEF SyncOrders, SyncPositions, exchange, plan, Heeded, Idling, Wired
  <2>2. \A d : ~Placing(d)'
    BY <2>1, Idle DEF Placing
  <2>3. Idling' /\ Wired' /\ InOrder' /\ Unplaced'
    BY <2>1 DEF Idling, Wired, InOrder, Heeded, Unplaced
  <2>4. Ended'
    BY <2>1, <2>2 DEF Ended
  <2>5. CASE SyncOrders
    <3>1. /\ phase' = "positions" /\ counted' = counted
          /\ seen' = seen \/ seen' = market
          /\ cache' = cache \/ cache' = market
      BY <2>5 DEF SyncOrders, Book
    <3>2. Held'
      BY <1>0, <3>1 DEF Heeded, Held
    <3>3. Agreed'
      BY <3>1 DEF Agreed
    <3> QED BY <2>3, <2>4, <3>2, <3>3 DEF Heeded
  <2>6. CASE SyncPositions
    <3>1. /\ counted' = [c \in Child |-> market[c].filled]
          /\ skewed' = {c \in Child : seen[c].filled # market[c].filled}
          /\ UNCHANGED <<seen, cache>>
      BY <2>6 DEF SyncPositions, Positions
    <3>2. \A c \in Child : market[c].filled \in Nat
      BY <1>0 DEF Copy
    <3>3. Held'
      BY <3>1, <3>2 DEF Heeded, Held
    <3>4. Agreed'
      BY <2>1, <3>1, <3>2 DEF Agreed
    <3> QED BY <2>3, <2>4, <3>3, <3>4 DEF Heeded
  <2> QED BY <1>3, <2>5, <2>6
<1> QED BY <1>1, <1>2, <1>3
-----------------------------------------------------------------------------
\* At first there is nothing to hear.
LEMMA HeededInit == ASSUME Init PROVE Heeded
<1>1. None \in Copy /\ None.status = "none" /\ None.filled = 0
  BY DEF None, Copy, Status
<1>2. /\ stream = <<>> /\ DOMAIN working = {} /\ phase = "up" /\ connected
      /\ \A t \in Task : calls[t] = NoCall
      /\ \A c \in Child : market[c] = None /\ seen[c] = None /\ counted[c] = 0
      /\ Held
  BY <1>1 DEF Init, Held
<1>3. Idling /\ Wired /\ InOrder /\ Unplaced
  BY <1>1, <1>2 DEF Idling, Wired, InOrder, Unplaced
<1>4. Agreed
  BY <1>1, <1>2 DEF Agreed
<1>5. Ended
  BY <1>1, <1>2, Idle DEF Ended, Settled
<1> QED BY <1>2, <1>3, <1>4, <1>5 DEF Heeded

\* Each action keeps the agent's hearing in order.
LEMMA HeededStep == ASSUME Inv, Heeded, [Next]_vars PROVE Heeded'
<1>0. cache \in [Child -> Copy]
  BY DEF Heeded, Held
<1>1. CASE UNCHANGED vars
  <2>1. \A d \in Child : Placing(d)' => Placing(d)
    BY <1>1 DEF vars, Placing
  <2> QED BY <1>0, <1>1, <2>1, NothingHeard DEF vars, exchange, history
<1>2. ASSUME NEW c \in Child, Expire(c) PROVE Heeded'
  <2>1. PICK s \in {"cancelled", "rejected"} : Becomes(c, As(s, market[c].filled))
    BY <1>2 DEF Expire
  <2>2. market[c].filled \in Nat /\ ~Settled(c)
    BY <1>2, Idle DEF Expire, Settled, Inv, Typed, Copy
  <2> DEFINE copy == As(s, market[c].filled)
  <2>3. copy \in Copy /\ copy.status # "none" /\ market[c].filled <= copy.filled
    BY <2>2, AsFields DEF Status
  <2>4. /\ Becomes(c, copy) /\ calls' = calls
        /\ UNCHANGED <<seen, cache, counted, working, skewed, overtaken, phase, todo>>
    BY <1>2, <2>1 DEF Expire
  <2>5. \A d \in Child : Placing(d)' => Placing(d)
    BY <2>4 DEF Placing
  <2> HIDE DEF copy
  <2> QED BY <2>2, <2>3, <2>4, <2>5, MarketTells
<1>3. ASSUME NEW c \in Child, NEW q \in 1..Qty[c], Trade(c, q) PROVE Heeded'
  <2> DEFINE n == market[c].filled + q
             s == IF n = Qty[c] THEN "filled" ELSE "open"
             copy == As(s, n)
  <2>1. market[c].filled \in Nat /\ Qty[c] \in Nat /\ ~Settled(c)
    BY <1>3, Idle, DhanAssumption DEF Trade, Settled, Inv, Typed, Copy, DhanAssumption, Child
  <2>2. n \in Nat /\ market[c].filled <= n /\ s \in Status /\ s # "none"
    BY <2>1 DEF Status
  <2>3. /\ Becomes(c, copy) /\ calls' = calls
        /\ UNCHANGED <<seen, cache, counted, working, skewed, overtaken, phase, todo>>
    BY <1>3 DEF Trade
  <2> HIDE DEF n, s
  <2>4. copy \in Copy /\ copy.status # "none" /\ market[c].filled <= copy.filled
    BY <2>2, AsFields
  <2>5. \A d \in Child : Placing(d)' => Placing(d)
    BY <2>3 DEF Placing
  <2> HIDE DEF copy
  <2> QED BY <2>1, <2>3, <2>4, <2>5, MarketTells
<1>4. CASE \E c \in Child : Overdue(c)
  <2>1. UNCHANGED <<exchange, cache, phase, seen, working, counted, calls, todo, history>>
    BY <1>4 DEF Overdue
  <2>2. \A d \in Child : Placing(d)' => Placing(d)
    BY <2>1 DEF Placing
  <2> QED BY <1>0, <2>1, <2>2, NothingHeard DEF exchange, history
<1>5. ASSUME NEW t \in Task, Lose(t) PROVE Heeded'
  <2>1. /\ calls[t].op # "idle" /\ calls[t] \in Call
        /\ UNCHANGED <<exchange, cache, phase, seen, working, counted, missed, skewed, overtaken>>
    BY <1>5 DEF Lose, Inv, Typed
  <2>2. calls[t] \in [op: Op, id: Child, tries: 0..MaxRetries, reply: Copy \cup {Waiting, Refused}]
    BY <2>1, Idle DEF Call
  <2>3. \A d \in Child : Placing(d)' => Placing(d)
    BY <1>5, <2>2, Idle DEF Lose, Done, Placing, Inv, Typed
  <2> QED BY <1>0, <2>1, <2>3, AtWork, NothingHeard DEF exchange
<1>6. CASE Manage \/ Kill
  <2>1. /\ phase = "up"
        /\ UNCHANGED <<exchange, cache, phase, seen, working, counted, calls, history>>
    BY <1>6 DEF Manage, Kill, Free
  <2>2. \A d \in Child : Placing(d)' => Placing(d)
    BY <2>1 DEF Placing
  <2> QED BY <1>0, <2>1, <2>2, NothingHeard DEF exchange, history
<1>7. ASSUME NEW t \in Task, Turn(t) PROVE Heeded'
  <2>1. /\ phase = "up"
        /\ UNCHANGED <<exchange, cache, phase, seen, working, counted, history>>
    BY <1>7, AtWork DEF Turn
  <2>2. PICK k : (k = calls[t] \/ \E c : k \in {Ask("cancel", c), Ask("look", c)})
                 /\ calls' = [calls EXCEPT ![t] = k]
    BY <1>7 DEF Turn, Begin, Inv, Typed
  <2>3. calls[t] = NoCall
    BY <1>7 DEF Turn
  <2>4. k.op # "place"
    BY <2>2, <2>3, Idle DEF Ask
  <2>5. \A d \in Child : Placing(d)' => Placing(d)
    BY <2>2, <2>4 DEF Placing, Inv, Typed
  <2> QED BY <1>0, <2>1, <2>5, NothingHeard DEF exchange, history
<1>8. CASE Approve
  <2>1. /\ phase = "up" /\ calls' = [calls EXCEPT !["feed"] = Ask("place", placed + 1)]
        /\ UNCHANGED <<exchange, cache, phase, seen, working, counted, history>>
    BY <1>8 DEF Approve, Free, Begin
  <2>2. placed \in Nat /\ \A d \in Child : Settled(d) => d <= placed
    BY Idle, DhanAssumption DEF Settled, Inv, Numbered, Typed, DhanAssumption
  <2>3. \A d \in Child : Placing(d)' => Placing(d) \/ ~Settled(d)
    <3>1. Ask("place", placed + 1).id = placed + 1
      BY DEF Ask
    <3> QED BY <2>1, <2>2, <3>1 DEF Placing, Inv, Typed, Child
  <2> QED BY <1>0, <2>1, <2>3, NothingHeard DEF exchange, history
<1>9. CASE \E t \in Task : Serve(t) \/ Lose(t) \/ Answer(t) \/ Turn(t)
  <2>1. PICK t \in Task : Serve(t) \/ Lose(t) \/ Answer(t) \/ Turn(t)
    BY <1>9
  <2>2. CASE Serve(t)
    BY <2>2, ServedHeard
  <2>3. CASE Answer(t)
    BY <2>3, AnswersHeard
  <2> QED BY <1>5, <1>7, <2>1, <2>2, <2>3
<1>10. CASE \E c \in Child : Expire(c) \/ Overdue(c) \/ \E q \in 1..Qty[c] : Trade(c, q)
  BY <1>2, <1>3, <1>4, <1>10
<1>11. CASE HandleUpdate \/ Disconnect \/ Connect \/ Restart \/ SyncOrders \/ SyncPositions
  BY <1>11, UpdateHeard, CutOff, StartsHeard
<1> QED BY <1>1, <1>6, <1>8, <1>9, <1>10, <1>11 DEF Next

\* The strengthened invariant holds of every behaviour.
LEMMA HeededHolds == Spec => []Heeded
  BY HeededInit, HeededStep, InvHolds, PTL DEF Spec

\* An order that has ended stays in the working set only while its last update is on its
\* way, unless that update was lost with the connection or was handled before the
\* placement answered (execution.py: _on_order_progress; dhan.py: _on_order_update).
THEOREM GhostsAreExplained == Spec => []GhostsExplained
<1>1. ASSUME Inv, Heeded PROVE GhostsExplained
  <2> SUFFICES ASSUME NEW c \in DOMAIN working, market[c].status \in Closed
               PROVE  Sent(c) \/ c \in missed \cup overtaken
    BY DEF GhostsExplained
  <2>1. c \in Child
    BY <1>1 DEF Inv, Typed
  <2> QED BY <1>1, <2>1 DEF Heeded, Ended, Heard, Settled
<1> QED BY <1>1, InvHolds, HeededHolds, PTL

\* Once its updates are handled the portfolio holds what was traded of an order, unless
\* some were lost, or an answer gave the agent another filled quantity than the updates
\* (execution.py: handle_update; dhan.py: positions, orders).
THEOREM CountsAreExplained == Spec => []CountsExplained
<1>1. Heeded => CountsExplained
  BY DEF Heeded, Agreed, Heard, CountsExplained
<1> QED BY <1>1, HeededHolds, PTL
=============================================================================
