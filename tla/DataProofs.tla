------------------------------ MODULE DataProofs ------------------------------
(***************************************************************************)
(* Proofs about MarketData: the bars of a session add up to its volume.    *)
(*                                                                         *)
(* The invariant is Typed /\ Ordered /\ Reflected /\ Balanced.  Ordered:   *)
(* the packets under way come in the order of the trades, and the agent is *)
(* behind each of them, so that no packet opens a window older than the    *)
(* open one or goes back to an earlier session.  Reflected: the builder's  *)
(* _prev_cum_volume is the volume seen of its session, and a window that   *)
(* opens again was late.  Balanced: published and open versions add up to  *)
(* what was seen.                                                          *)
(***************************************************************************)
EXTENDS MarketData, SequenceTheorems, SumTheorems, TLAPS
-----------------------------------------------------------------------------
(* Time.                                                                   *)

\* The window of a time.
LEMMA FloorIs ==
  ASSUME NEW t \in Nat
  PROVE  /\ Floor(t) \in Nat /\ Floor(t) <= t
         /\ Floor(t) = (t \div Width) * Width /\ t \div Width \in Nat
<1>1. Width \in Nat \ {0}
  BY DataAssumption
<1>2. PICK q \in Nat, r \in Nat : q = t \div Width /\ r = t % Width /\ t = q * Width + r
  BY <1>1, Quotient
<1>3. q * Width \in Nat
  BY <1>1
<1>4. Floor(t) = q * Width
  BY <1>2, <1>3 DEF Floor
<1> QED BY <1>2, <1>3, <1>4

\* The session of a time is the session of its window.
LEMMA SessionOfFloor ==
  ASSUME NEW t \in Nat
  PROVE  SessionOf(t) \in Nat /\ SessionOf(Floor(t)) = SessionOf(t)
<1>1. Width \in Nat \ {0} /\ Session \in Nat \ {0} /\ Session % Width = 0
  BY DataAssumption
<1>2. PICK m \in Nat : Session = m * Width
  <2>1. Session \in Nat /\ Session = (Session \div Width) * Width + (Session % Width)
        /\ Session \div Width \in Nat
    BY <1>1, Quotient
  <2>2. PICK m \in Nat : m = Session \div Width /\ Session = m * Width + 0
    BY <1>1, <2>1
  <2>3. m * Width \in Int
    BY <1>1
  <2> QED BY <2>2, <2>3
<1>3. PICK s \in Nat : s = SessionOf(t) /\ s * Session <= t /\ t < s * Session + Session
  BY <1>1, Quotient DEF SessionOf
<1>4. PICK f \in Nat, q \in Nat : f = Floor(t) /\ f = q * Width /\ f <= t /\ t < q * Width + Width
  <2>1. t \div Width \in Nat /\ t < (t \div Width) * Width + Width
    BY <1>1, Quotient
  <2> QED BY <2>1, FloorIs
<1>5. s * Session <= f
  <2>1. PICK k \in Nat : k = s * m
    OBVIOUS
  <2>2. s * Session = k * Width
    BY <1>1, <1>2, <2>1
  <2>3. CASE q < k
    <3>1. (q + 1) * Width <= k * Width
      BY <1>1, <2>3, TimesGrows
    <3>2. (q + 1) * Width = q * Width + Width
      BY <1>1
    <3>3. q * Width \in Int /\ k * Width \in Int
      BY <1>1
    <3> QED BY <1>1, <1>3, <1>4, <2>2, <3>1, <3>2, <3>3
  <2>4. CASE k <= q
    BY <1>1, <1>4, <2>2, <2>4, TimesGrows
  <2> QED BY <2>3, <2>4
<1>6. f < s * Session + Session
  <2>1. s * Session \in Nat
    BY <1>1
  <2> QED BY <1>1, <1>3, <1>4, <2>1
<1>7. f \div Session = s
  BY <1>1, <1>5, <1>6, QuotientIs
<1> QED BY <1>3, <1>4, <1>7 DEF SessionOf

\* Windows and sessions come in the order of time.
LEMMA TimeGrows ==
  ASSUME NEW t \in Nat, NEW u \in Nat, t <= u
  PROVE  Floor(t) <= Floor(u) /\ SessionOf(t) <= SessionOf(u)
<1>1. Width \in Nat \ {0} /\ Session \in Nat \ {0}
  BY DataAssumption
<1>2. SessionOf(t) <= SessionOf(u)
  BY <1>1, QuotientGrows DEF SessionOf
<1>3. t \div Width <= u \div Width /\ t \div Width \in Nat /\ u \div Width \in Nat
  BY <1>1, QuotientGrows, FloorIs
<1>4. (t \div Width) * Width <= (u \div Width) * Width
  BY <1>1, <1>3, TimesGrows
<1> QED BY <1>2, <1>4, FloorIs

\* Up to the end there are windows and sessions.
LEMMA TimesFall ==
  ASSUME NEW t \in 0..End
  PROVE  Floor(t) \in Windows /\ SessionOf(t) \in Sessions
  BY DEF Windows, Sessions

\* Windows are finitely many times, and lie in sessions.
LEMMA WindowsAre ==
  /\ IsFiniteSet(Windows) /\ Windows \subseteq Nat /\ Sessions \subseteq Nat
  /\ \A w \in Windows : SessionOf(w) \in Sessions
<1>1. End \in Nat /\ 0..End \subseteq Nat
  BY DataAssumption
<1>2. IsFiniteSet(Windows)
  <2> DEFINE g == [t \in 0..End |-> Floor(t)]
  <2>1. g \in Surjection(0..End, Windows)
    BY DEF Surjection, Windows
  <2>2. IsFiniteSet(0..End)
    BY <1>1, FS_Interval
  <2> HIDE DEF g
  <2> QED BY <2>1, <2>2, FS_Surjection
<1>3. Windows \subseteq Nat
  BY <1>1, FloorIs DEF Windows
<1>4. Sessions \subseteq Nat
  BY <1>1, SessionOfFloor DEF Sessions
<1>5. ASSUME NEW w \in Windows PROVE SessionOf(w) \in Sessions
  <2>1. PICK t \in 0..End : w = Floor(t)
    BY DEF Windows
  <2>2. SessionOf(w) = SessionOf(t)
    BY <1>1, <2>1, SessionOfFloor
  <2> QED BY <2>1, <2>2, TimesFall
<1> QED BY <1>2, <1>3, <1>4, <1>5
-----------------------------------------------------------------------------
(* The order of the packets.                                               *)

\* A packet: the last trade when it was made.
Tick == [ts: Nat, qty: Nat \ {0}, cum: Nat]
Stamped(p) == p \in Tick /\ p.ts <= now /\ p.qty <= p.cum

\* The types that the count depends on.
Typed ==
  /\ now \in 0..End /\ traded \in [Windows -> Nat] /\ wire \in Seq(Tick)
  /\ builder \in [start: Windows \cup {None}, volume: Nat, prev: Nat \cup {None},
                  session: Sessions \cup {None}]
  /\ buffer \in Seq([ts: Windows, volume: Nat])
  /\ shown \in [Windows -> Nat \cup {None}] /\ seen \in [Sessions -> [base: Nat, top: Nat]]
  /\ late \subseteq Sessions

\* Packet a is no later than b.
Before(a, b) == a.ts <= b.ts /\ (SessionOf(a.ts) = SessionOf(b.ts) => a.cum <= b.cum)

\* The agent has handled nothing later than p.
Behind(p) ==
  /\ buffer # <<>> => Last(buffer).ts <= Floor(p.ts)
  /\ builder.start # None => builder.start <= Floor(p.ts)
  /\ builder.session # None =>
       /\ builder.session <= SessionOf(p.ts)
       /\ builder.session = SessionOf(p.ts) => builder.prev <= p.cum

\* The packets under way are in order, up to the last trade, and the agent is behind them.
Ordered ==
  /\ \A i \in DOMAIN wire : Stamped(wire[i]) /\ Before(wire[i], last) /\ Behind(wire[i])
  /\ \A i, j \in DOMAIN wire : i < j => Before(wire[i], wire[j])
  /\ last.ts # None => Stamped(last) /\ Behind(last)
  /\ last.ts = None => wire = <<>> /\ buffer = <<>> /\ builder = Fresh
  /\ \A w \in Windows : traded[w] > 0 => last.ts # None /\ w <= Floor(last.ts)

\* The last element of a sequence.
LEMMA LastOf ==
  ASSUME NEW S, NEW s \in Seq(S), s # <<>>
  PROVE  Len(s) \in 1..Len(s) /\ Last(s) \in S /\ Last(s) = s[Len(s)]
<1>1. Len(s) \in Nat \ {0}
  BY EmptySeq, LenProperties
<1>2. Len(s) \in 1..Len(s) /\ s[Len(s)] \in S
  BY <1>1, ElementOfSeq
<1> QED BY <1>2 DEF Last

\* The order is transitive.
LEMMA BeforeAll ==
  ASSUME NEW a \in Tick, NEW b \in Tick, NEW c \in Tick, Before(a, b), Before(b, c)
  PROVE  Before(a, c)
<1>1. /\ a.ts \in Nat /\ b.ts \in Nat /\ c.ts \in Nat
      /\ a.cum \in Nat /\ b.cum \in Nat /\ c.cum \in Nat
  BY DEF Tick
<1>2. a.ts <= b.ts /\ b.ts <= c.ts
  BY DEF Before
<1>3. SessionOf(a.ts) <= SessionOf(b.ts) /\ SessionOf(b.ts) <= SessionOf(c.ts)
  BY <1>1, <1>2, TimeGrows
<1>4. SessionOf(a.ts) \in Nat /\ SessionOf(b.ts) \in Nat /\ SessionOf(c.ts) \in Nat
  BY <1>1, SessionOfFloor
<1>5. SessionOf(a.ts) = SessionOf(c.ts) =>
        SessionOf(a.ts) = SessionOf(b.ts) /\ SessionOf(b.ts) = SessionOf(c.ts)
  BY <1>3, <1>4
<1> QED BY <1>1, <1>2, <1>5 DEF Before

\* What is behind a packet is behind later ones.
LEMMA BehindLater ==
  ASSUME Typed, NEW a \in Tick, NEW b \in Tick, Behind(a), Before(a, b)
  PROVE  Behind(b)
<1>1. a.ts \in Nat /\ b.ts \in Nat /\ a.cum \in Nat /\ b.cum \in Nat /\ a.ts <= b.ts
  BY DEF Tick, Before
<1>2. /\ Floor(a.ts) <= Floor(b.ts) /\ SessionOf(a.ts) <= SessionOf(b.ts)
      /\ Floor(a.ts) \in Nat /\ Floor(b.ts) \in Nat
      /\ SessionOf(a.ts) \in Nat /\ SessionOf(b.ts) \in Nat
  BY <1>1, TimeGrows, FloorIs, SessionOfFloor
<1>3. buffer # <<>> => Last(buffer).ts <= Floor(b.ts)
  <2> SUFFICES ASSUME buffer # <<>> PROVE Last(buffer).ts <= Floor(b.ts)
    OBVIOUS
  <2>1. Last(buffer) \in [ts: Windows, volume: Nat]
    BY LastOf DEF Typed
  <2>2. PICK l \in Nat : l = Last(buffer).ts
    BY <2>1, WindowsAre
  <2>3. l <= Floor(a.ts)
    BY <2>2 DEF Behind
  <2> QED BY <1>2, <2>2, <2>3
<1>4. builder.start # None => builder.start <= Floor(b.ts)
  <2> SUFFICES ASSUME builder.start # None PROVE builder.start <= Floor(b.ts)
    OBVIOUS
  <2>1. PICK l \in Nat : l = builder.start
    BY WindowsAre DEF Typed
  <2>2. l <= Floor(a.ts)
    BY <2>1 DEF Behind
  <2> QED BY <1>2, <2>1, <2>2
<1>5. ASSUME builder.session # None
      PROVE  /\ builder.session <= SessionOf(b.ts)
             /\ builder.session = SessionOf(b.ts) => builder.prev <= b.cum
  <2>1. PICK l \in Nat : l = builder.session
    BY <1>5, WindowsAre DEF Typed
  <2>2. builder.prev \in Int
    BY DEF Typed, None
  <2>3. l <= SessionOf(a.ts) /\ (l = SessionOf(a.ts) => builder.prev <= a.cum)
    BY <1>5, <2>1 DEF Behind
  <2>4. l <= SessionOf(b.ts) /\ (l = SessionOf(b.ts) => SessionOf(a.ts) = SessionOf(b.ts))
    BY <1>2, <2>1, <2>3
  <2>5. l = SessionOf(b.ts) => builder.prev <= a.cum /\ a.cum <= b.cum
    BY <2>3, <2>4 DEF Before
  <2> QED BY <1>1, <2>1, <2>2, <2>4, <2>5
<1> QED BY <1>3, <1>4, <1>5 DEF Behind

\* The exchange and the feed put packets at the end, and time passes.
LEMMA FeedOrdered ==
  ASSUME Typed, Ordered, UNCHANGED <<builder, buffer>>, now' \in Nat, now <= now',
         \/ last' = last
         \/ /\ last' \in Tick /\ last'.ts <= now' /\ last'.qty <= last'.cum
            /\ last.ts # None => Before(last, last'),
         \/ wire' = wire \/ wire' = <<>>
         \/ last'.ts # None /\ wire' = Append(wire, last'),
         \A w \in Windows : traded'[w] > 0 =>
           traded[w] > 0 \/ (last'.ts # None /\ w = Floor(last'.ts))
  PROVE  Ordered'
<1>1. PICK l : l = last'
  OBVIOUS
<1>2. \A p : Behind(p)' <=> Behind(p)
  BY DEF Behind
<1>3. now \in Nat /\ \A p : Stamped(p) => p \in Tick /\ p.ts <= now' /\ p.qty <= p.cum
  <2>1. now \in Nat
    BY DataAssumption DEF Typed
  <2> QED BY <2>1 DEF Stamped, Tick
<1>4. l.ts # None => l \in Tick /\ l.ts <= now' /\ l.qty <= l.cum
  BY <1>1, <1>3 DEF Ordered
<1>5. last.ts # None => l.ts # None /\ last \in Tick /\ Before(last, l)
  <2> SUFFICES ASSUME last.ts # None
               PROVE  l.ts # None /\ last \in Tick /\ Before(last, l)
    OBVIOUS
  <2>1. last \in Tick
    BY DEF Ordered, Stamped
  <2>2. CASE l = last
    BY <2>1, <2>2 DEF Before, Tick
  <2>3. CASE l # last
    BY <1>1, <2>1, <2>3 DEF Tick, None
  <2> QED BY <2>1, <2>2, <2>3
<1>6. l.ts # None => Behind(l)
  <2> SUFFICES ASSUME l.ts # None PROVE Behind(l)
    OBVIOUS
  <2>1. CASE last.ts = None
    BY <2>1 DEF Ordered, Behind, Fresh
  <2>2. CASE last.ts # None
    <3>1. Behind(last)
      BY <2>2 DEF Ordered
    <3> QED BY <1>4, <1>5, <2>2, <3>1, BehindLater
  <2> QED BY <2>1, <2>2
<1>7. \A i \in DOMAIN wire : /\ wire[i] \in Tick /\ Stamped(wire[i]) /\ Behind(wire[i])
                             /\ Before(wire[i], l)
  <2> SUFFICES ASSUME NEW i \in DOMAIN wire
               PROVE  /\ wire[i] \in Tick /\ Stamped(wire[i]) /\ Behind(wire[i])
                      /\ Before(wire[i], l)
    OBVIOUS
  <2>1. wire[i] \in Tick /\ Stamped(wire[i]) /\ Behind(wire[i]) /\ Before(wire[i], last)
    BY DEF Ordered, Stamped
  <2>2. last.ts # None
    BY DEF Ordered
  <2> QED BY <1>4, <1>5, <2>1, <2>2, BeforeAll
<1>8. \A w \in Windows : traded'[w] > 0 => l.ts # None /\ w <= Floor(l.ts)
  <2> SUFFICES ASSUME NEW w \in Windows, traded'[w] > 0 PROVE l.ts # None /\ w <= Floor(l.ts)
    OBVIOUS
  <2>1. w \in Nat
    BY WindowsAre
  <2>2. CASE w = Floor(l.ts) /\ l.ts # None
    BY <2>1, <2>2
  <2>3. CASE traded[w] > 0
    <3>1. last.ts # None /\ w <= Floor(last.ts)
      BY <2>3 DEF Ordered
    <3>2. last.ts \in Nat /\ l.ts \in Nat /\ last.ts <= l.ts
      BY <1>4, <1>5, <3>1 DEF Before, Tick
    <3>3. Floor(last.ts) <= Floor(l.ts) /\ Floor(last.ts) \in Nat /\ Floor(l.ts) \in Nat
      BY <3>2, TimeGrows, FloorIs
    <3> QED BY <1>5, <2>1, <3>1, <3>3
  <2> QED BY <1>1, <2>2, <2>3
<1>9. CASE wire' = wire \/ wire' = <<>>
  <2>1. PICK s : s = wire'
    OBVIOUS
  <2>2. \A i \in DOMAIN s : Stamped(s[i])' /\ Before(s[i], l) /\ Behind(s[i])
    BY <1>3, <1>7, <1>9, <2>1 DEF Stamped
  <2>3. \A i, j \in DOMAIN s : i < j => Before(s[i], s[j])
    BY <1>9, <2>1 DEF Ordered
  <2>4. l.ts = None => wire' = <<>> /\ buffer' = <<>> /\ builder' = Fresh
    BY <1>5, <1>9 DEF Ordered
  <2> QED BY <1>1, <1>2, <1>4, <1>6, <1>8, <2>1, <2>2, <2>3, <2>4 DEF Ordered, Stamped
<1>10. CASE l.ts # None /\ wire' = Append(wire, l)
  <2>1. PICK s : s = wire'
    OBVIOUS
  <2>2. /\ DOMAIN s = DOMAIN wire \cup {Len(wire) + 1} /\ s[Len(wire) + 1] = l
        /\ \A i \in DOMAIN wire : s[i] = wire[i] /\ i < Len(wire) + 1
        /\ Len(wire) + 1 \in Nat
    BY <1>10, <2>1 DEF Typed
  <2>3. l \in Tick /\ l.ts <= now' /\ l.qty <= l.cum /\ Behind(l) /\ Before(l, l)
    BY <1>4, <1>6, <1>10 DEF Tick, Before
  <2>4. \A i \in DOMAIN s : Stamped(s[i])' /\ Before(s[i], l) /\ Behind(s[i])
    BY <1>3, <1>7, <2>2, <2>3 DEF Stamped
  <2>5. \A i, j \in DOMAIN s : i < j => Before(s[i], s[j])
    <3> SUFFICES ASSUME NEW i \in DOMAIN s, NEW j \in DOMAIN s, i < j PROVE Before(s[i], s[j])
      OBVIOUS
    <3>1. i # Len(wire) + 1
      <4>1. \A k \in DOMAIN wire : ~(Len(wire) + 1 < k)
        BY <2>2 DEF Typed
      <4> QED BY <2>2, <4>1
    <3>2. i \in DOMAIN wire
      BY <2>2, <3>1
    <3>3. CASE j \in DOMAIN wire
      BY <2>2, <3>2, <3>3 DEF Ordered
    <3>4. CASE j = Len(wire) + 1
      BY <1>7, <2>2, <3>2, <3>4
    <3> QED BY <2>2, <3>3, <3>4
  <2> QED BY <1>1, <1>2, <1>4, <1>6, <1>8, <1>10, <2>1, <2>4, <2>5 DEF Ordered, Stamped
<1> QED BY <1>1, <1>9, <1>10
-----------------------------------------------------------------------------
(* What is counted.                                                        *)

\* The volume that versions sh of the windows of s add up to, and that of an open window.
Published(sh, s) ==
  SumFunctionOnSet([w \in Windows |-> IF SessionOf(w) = s /\ sh[w] # None THEN sh[w] ELSE 0],
                   Windows)
Open(b, s) == IF b.start # None /\ SessionOf(b.start) = s THEN b.volume ELSE 0

\* What is published and open is what the packets handled say, or less where one was late.
Balanced ==
  \A s \in Sessions :
    LET count == Published(shown, s) + Open(builder, s)
    IN /\ count <= seen[s].top - seen[s].base
       /\ s \notin late => count = seen[s].top - seen[s].base

\* The builder's session is the last seen, and its volume so far the one seen there; a
\* window that is opened again was late.
Reflected ==
  /\ builder.session # None =>
       builder.prev \in Nat \ {0} /\ seen[builder.session].top = builder.prev
  /\ \A s \in Sessions : seen[s] # Unseen => builder.session # None /\ s <= builder.session
  /\ builder.start # None /\ shown[builder.start] # None => SessionOf(builder.start) \in late
  /\ builder.start # None /\ buffer # <<>> => Last(buffer).ts <= builder.start

\* The terms of a sum of versions.
LEMMA PublishedIs ==
  ASSUME NEW sh \in [Windows -> Nat \cup {None}], NEW s
  PROVE  /\ Published(sh, s) \in Int
         /\ SumFunctionOnSet(sh, {w \in Windows : SessionOf(w) = s /\ sh[w] # None})
              = Published(sh, s)
<1> DEFINE g == [w \in Windows |-> IF SessionOf(w) = s /\ sh[w] # None THEN sh[w] ELSE 0]
           R == {w \in Windows : SessionOf(w) = s /\ sh[w] # None}
<1>1. IntOn(g, Windows) /\ IntOn(sh, R)
  BY DEF IntOn
<1>0. IsFiniteSet(Windows)
  BY WindowsAre
<1>2. R \in SUBSET Windows /\ (\A w \in R : g[w] = sh[w]) /\ \A w \in Windows \ R : g[w] = 0
  OBVIOUS
<1> HIDE DEF g, R
<1>3. SumFunctionOnSet(g, Windows) \in Int
  BY <1>0, <1>1, SumIsInt
<1>4. SumFunctionOnSet(sh, R) = SumFunctionOnSet(g, Windows)
  BY <1>0, <1>1, <1>2, SumFiltered
<1> QED BY <1>3, <1>4 DEF g, R, Published

\* One window gets a new version.
LEMMA PublishedMoves ==
  ASSUME NEW sh \in [Windows -> Nat \cup {None}], NEW w \in Windows, NEW v \in Nat, NEW s
  PROVE  Published([sh EXCEPT ![w] = v], s)
           = Published(sh, s) + (IF SessionOf(w) # s THEN 0
                                 ELSE IF sh[w] = None THEN v ELSE v - sh[w])
<1>0. PICK th : th = [sh EXCEPT ![w] = v]
  OBVIOUS
<1>1. th \in [Windows -> Nat \cup {None}] /\ th[w] = v /\ \A x \in Windows : x # w => th[x] = sh[x]
  BY <1>0
<1> DEFINE f == [x \in Windows |-> IF SessionOf(x) = s /\ sh[x] # None THEN sh[x] ELSE 0]
           g == [x \in Windows |-> IF SessionOf(x) = s /\ th[x] # None THEN th[x] ELSE 0]
<1>2. IntOn(f, Windows) /\ IntOn(g, Windows) /\ \A x \in Windows : x # w => f[x] = g[x]
  BY <1>1 DEF IntOn
<1>3. /\ f[w] = IF SessionOf(w) = s /\ sh[w] # None THEN sh[w] ELSE 0
      /\ g[w] = IF SessionOf(w) = s THEN v ELSE 0
  <2>1. v # None
    BY DEF None
  <2> QED BY <1>1, <2>1
<1> HIDE DEF f, g
<1>4. SumFunctionOnSet(g, Windows) = SumFunctionOnSet(f, Windows) + (g[w] - f[w])
  <2>1. IsFiniteSet(Windows)
    BY WindowsAre
  <2> QED BY <1>2, <2>1, SumChanges
<1>5. g[w] - f[w] = IF SessionOf(w) # s THEN 0 ELSE IF sh[w] = None THEN v ELSE v - sh[w]
  <2>1. sh[w] \in Nat \cup {None}
    OBVIOUS
  <2> QED BY <1>3, <2>1 DEF None
<1> QED BY <1>0, <1>4, <1>5 DEF f, g, Published

\* The newest bar of a window no older than those of the buffer is kept, and published.
LEMMA EmitPublishes ==
  ASSUME Typed, NEW task, NEW bar \in [ts: Windows, volume: Nat], Emit(task, bar),
         buffer # <<>> => Last(buffer).ts <= bar.ts
  PROVE  /\ buffer' \in Seq([ts: Windows, volume: Nat]) /\ buffer' # <<>>
         /\ Last(buffer') = bar
         /\ shown' = [shown EXCEPT ![bar.ts] = bar.volume]
<1> DEFINE S == [ts: Windows, volume: Nat]
<1>1. bar.ts \in Nat /\ buffer \in Seq(S)
  BY WindowsAre DEF Typed
<1>2. PICK b : b = buffer' /\ b = Keep(buffer, bar)
  BY DEF Emit
<1>3. b \in Seq(S) /\ b # <<>> /\ Last(b) = bar
  <2>1. CASE buffer = <<>> \/ bar.ts > Last(buffer).ts
    <3>1. PICK g : g = Append(buffer, bar)
      OBVIOUS
    <3>2. /\ g \in Seq(S) /\ Len(g) = Len(buffer) + 1 /\ Len(buffer) \in Nat
          /\ g[Len(g)] = bar /\ g # <<>>
      BY <1>1, <3>1
    <3>3. b = IF Len(g) > BufferSize THEN Tail(g) ELSE g
      BY <1>2, <2>1, <3>1 DEF Keep
    <3>4. CASE Len(g) > BufferSize
      <4>1. Len(g) > 1
        BY <3>2, <3>4, DataAssumption
      <4>2. /\ Tail(g) \in Seq(S) /\ Len(Tail(g)) = Len(g) - 1
            /\ Tail(g)[Len(g) - 1] = g[Len(g)] /\ Tail(g) # <<>>
        <5>1. /\ Tail(g) \in Seq(S) /\ Len(Tail(g)) = Len(g) - 1
              /\ \A i \in 1..Len(Tail(g)) : Tail(g)[i] = g[i + 1]
          BY <3>2, HeadTailProperties
        <5>2. Len(g) - 1 \in 1..Len(Tail(g))
          BY <3>2, <4>1, <5>1
        <5> QED BY <3>2, <4>1, <5>1, <5>2
      <4> QED BY <3>2, <3>3, <3>4, <4>2 DEF Last
    <3>5. CASE ~(Len(g) > BufferSize)
      BY <3>2, <3>3, <3>5 DEF Last
    <3> QED BY <3>4, <3>5
  <2>2. CASE ~(buffer = <<>> \/ bar.ts > Last(buffer).ts)
    <3>1. Last(buffer) \in S /\ Len(buffer) \in 1..Len(buffer)
      BY <1>1, <2>2, LastOf
    <3>2. Last(buffer).ts \in Nat
      BY <3>1, WindowsAre
    <3>3. bar.ts = Last(buffer).ts
      BY <1>1, <2>2, <3>2
    <3>4. b = [buffer EXCEPT ![Len(buffer)] = bar]
      BY <1>2, <2>2, <3>3 DEF Keep
    <3>5. b \in Seq(S) /\ Len(b) = Len(buffer) /\ b[Len(buffer)] = bar /\ b # <<>>
      BY <1>1, <3>1, <3>4
    <3> QED BY <3>5 DEF Last
  <2> QED BY <2>1, <2>2
<1>4. Last(buffer') = bar
  BY <1>2, <1>3
<1>5. shown' = [shown EXCEPT ![bar.ts] = bar.volume]
  BY <1>4 DEF Emit
<1> QED BY <1>2, <1>3, <1>5

\* Closing the open window publishes what it held, less an earlier version.
LEMMA ClosingCounts ==
  ASSUME Typed, Reflected, builder.start # None, NEW task,
         Emit(task, Bar(builder.start, builder.volume))
  PROVE  /\ buffer' \in Seq([ts: Windows, volume: Nat]) /\ buffer' # <<>>
         /\ Last(buffer').ts = builder.start
         /\ shown' = [shown EXCEPT ![builder.start] = builder.volume]
         /\ shown' \in [Windows -> Nat \cup {None}]
         /\ \A s : /\ Published(shown', s) <= Published(shown, s) + Open(builder, s)
                   /\ s \notin late =>
                        Published(shown', s) = Published(shown, s) + Open(builder, s)
<1>1. PICK w \in Windows, v \in Nat : w = builder.start /\ v = builder.volume
  BY DEF Typed
<1>2. PICK bar \in [ts: Windows, volume: Nat] :
        bar = Bar(w, v) /\ bar.ts = w /\ bar.volume = v
  <2>1. PICK x : x = [ts |-> w, volume |-> v]
    OBVIOUS
  <2>2. x \in [ts: Windows, volume: Nat] /\ x.ts = w /\ x.volume = v
    BY <2>1
  <2> QED BY <2>1, <2>2 DEF Bar
<1>3. Emit(task, bar) /\ (buffer # <<>> => Last(buffer).ts <= bar.ts)
  BY <1>1, <1>2 DEF Reflected
<1>4. /\ buffer' \in Seq([ts: Windows, volume: Nat]) /\ buffer' # <<>>
      /\ Last(buffer') = bar /\ shown' = [shown EXCEPT ![w] = v]
  BY <1>2, <1>3, EmitPublishes
<1>5. shown \in [Windows -> Nat \cup {None}]
  BY DEF Typed
<1>6. ASSUME NEW s
      PROVE  /\ Published(shown', s) <= Published(shown, s) + Open(builder, s)
             /\ s \notin late => Published(shown', s) = Published(shown, s) + Open(builder, s)
  <2>1. Published(shown', s)
          = Published(shown, s) + (IF SessionOf(w) # s THEN 0
                                   ELSE IF shown[w] = None THEN v ELSE v - shown[w])
    BY <1>4, <1>5, PublishedMoves
  <2>2. Open(builder, s) = IF SessionOf(w) = s THEN v ELSE 0
    BY <1>1 DEF Open
  <2>3. Published(shown, s) \in Int /\ shown[w] \in Nat \cup {None}
    BY <1>5, PublishedIs
  <2>4. shown[w] # None => SessionOf(w) \in late
    BY <1>1 DEF Reflected
  <2> QED BY <2>1, <2>2, <2>3, <2>4
<1>7. shown' \in [Windows -> Nat \cup {None}]
  BY <1>4, <1>5
<1> QED BY <1>1, <1>2, <1>4, <1>6, <1>7
-----------------------------------------------------------------------------
(* Steps of the exchange and of the feed.                                  *)

\* They leave the agent alone, and the packets in order.
LEMMA OutsideKeeps ==
  ASSUME Typed, Ordered, Reflected, Balanced, Exchange \/ Network \/ TimePasses
  PROVE  Typed' /\ Ordered' /\ Reflected' /\ Balanced'
<1> DEFINE FedRight ==
             /\ traded' \in [Windows -> Nat] /\ wire' \in Seq(Tick)
             /\ \/ last' = last
                \/ /\ last' \in Tick /\ last'.ts <= now' /\ last'.qty <= last'.cum
                   /\ last.ts # None => Before(last, last')
             /\ \/ wire' = wire \/ wire' = <<>>
                \/ last'.ts # None /\ wire' = Append(wire, last')
             /\ \A w \in Windows : traded'[w] > 0 =>
                  traded[w] > 0 \/ (last'.ts # None /\ w = Floor(last'.ts))
<1>1. UNCHANGED <<builder, buffer, busy, history>>
  BY DEF Exchange, Network, TimePasses, Trade, DepthChange, Disconnect, Connect
<1>2. Reflected' /\ Balanced'
  BY <1>1 DEF history, Reflected, Balanced
<1>3. /\ now \in 0..End /\ now \in Nat /\ now' \in 0..End /\ now' \in Nat /\ now <= now'
      /\ End \in Nat
  <2>1. now \in 0..End /\ End \in Nat
    BY DataAssumption DEF Typed
  <2>2. now' = now \/ (now < End /\ now' = now + 1)
    BY DEF Exchange, Network, TimePasses, Trade, DepthChange, Disconnect, Connect
  <2> QED BY <2>1, <2>2
<1>4. FedRight
  <2>1. traded \in [Windows -> Nat] /\ wire \in Seq(Tick) /\ (last.ts # None => last \in Tick)
    BY DEF Typed, Ordered, Stamped
  <2>2. ASSUME NEW q \in Quantities, Trade(q)
        PROVE  FedRight
    <3>1. PICK c : c = IF last.ts # None /\ SessionOf(last.ts) = SessionOf(now)
                       THEN last.cum + q ELSE q
      OBVIOUS
    <3>2. /\ now' = now /\ last' = [ts |-> now, qty |-> q, cum |-> c]
          /\ traded' = [traded EXCEPT ![Floor(now)] = @ + q]
          /\ wire' = IF connected THEN Append(wire, last') ELSE wire
      BY <2>2, <3>1 DEF Trade, Deliver
    <3>3. q \in Nat \ {0}
      BY DataAssumption
    <3>4. c \in Nat /\ q <= c
      <4>1. last.ts # None => last.cum \in Nat
        BY <2>1 DEF Tick
      <4> QED BY <3>1, <3>3, <4>1
    <3>5. /\ last' \in Tick /\ last'.ts = now /\ last'.qty = q /\ last'.cum = c
      BY <1>3, <3>2, <3>3, <3>4 DEF Tick
    <3>6. last.ts # None => Before(last, last')
      <4> SUFFICES ASSUME last.ts # None PROVE Before(last, last')
        OBVIOUS
      <4>1. last.ts <= now /\ last.cum \in Nat
        BY <2>1 DEF Ordered, Stamped, Tick
      <4>2. SessionOf(last.ts) = SessionOf(now) => last.cum <= c
        BY <3>1, <3>3, <4>1
      <4> QED BY <3>5, <4>1, <4>2 DEF Before
    <3>7. traded' \in [Windows -> Nat]
      <4>1. Floor(now) \in Windows
        BY <1>3, TimesFall
      <4>2. traded[Floor(now)] + q \in Nat
        BY <2>1, <3>3, <4>1
      <4> QED BY <2>1, <3>2, <4>1, <4>2
    <3>8. wire' \in Seq(Tick)
      BY <2>1, <3>2, <3>5
    <3>9. last'.ts # None
      BY <1>3, <3>5 DEF None
    <3>10. \A w \in Windows : traded'[w] > 0 => traded[w] > 0 \/ w = Floor(last'.ts)
      BY <2>1, <3>2, <3>5
    <3> QED BY <1>3, <3>2, <3>4, <3>5, <3>6, <3>7, <3>8, <3>9, <3>10
  <2>3. CASE DepthChange \/ Network \/ TimePasses
    <3>1. UNCHANGED <<last, traded>>
      BY <2>3 DEF DepthChange, Network, TimePasses, Disconnect, Connect, exchange
    <3>2. \/ wire' = wire \/ wire' = <<>>
          \/ last.ts # None /\ wire' = Append(wire, last)
      BY <2>3 DEF DepthChange, Network, TimePasses, Disconnect, Connect, feed
    <3>3. wire' \in Seq(Tick)
      <4>1. <<>> \in Seq(Tick)
        OBVIOUS
      <4>2. last.ts # None => Append(wire, last) \in Seq(Tick)
        BY <2>1
      <4> QED BY <2>1, <3>2, <4>1, <4>2
    <3> QED BY <2>1, <3>1, <3>2, <3>3
  <2> QED BY <2>2, <2>3 DEF Exchange
<1>5. Ordered'
  BY <1>1, <1>3, <1>4, FeedOrdered
<1>6. Typed'
  BY <1>1, <1>3, <1>4 DEF Typed, history
<1> QED BY <1>2, <1>5, <1>6
-----------------------------------------------------------------------------
(* Steps of the agent.                                                     *)

\* The volume of a packet is what it adds to the volume seen of its session.
LEMMA TickVolumeIs ==
  ASSUME Typed, Reflected, NEW tick \in Tick, tick.qty <= tick.cum, Behind(tick),
         NEW s, s = SessionOf(tick.ts), NEW base,
         base = IF seen[s] = Unseen THEN tick.cum - tick.qty ELSE seen[s].base
  PROVE  /\ s \in Nat /\ TickVolume(tick) \in Nat /\ tick.cum \in Nat \ {0}
         /\ s \in Sessions => /\ base \in Nat
                              /\ tick.cum - base = seen[s].top - seen[s].base + TickVolume(tick)
         /\ builder.session # None => builder.session <= s
<1>1. /\ tick.ts \in Nat /\ tick.qty \in Nat \ {0} /\ tick.cum \in Nat \ {0}
      /\ tick.cum - tick.qty \in Nat
  BY DEF Tick
<1>2. s \in Nat
  BY <1>1, SessionOfFloor
<1>3. builder.session \in Nat \cup {None}
  BY WindowsAre DEF Typed
<1>4. builder.session # None =>
        /\ builder.session <= s /\ builder.prev \in Nat \ {0}
        /\ builder.session = s => builder.prev <= tick.cum /\ seen[s].top = builder.prev
  BY DEF Behind, Reflected
<1>5. CASE builder.session = s
  <2>1. builder.session # None
    BY <1>2, <1>5 DEF None
  <2>2. TickVolume(tick) = tick.cum - builder.prev
    <3>1. ~(tick.cum < builder.prev) /\ builder.prev # None
      BY <1>1, <1>4, <1>5, <2>1 DEF None
    <3> QED BY <1>5, <3>1 DEF TickVolume
  <2>3. seen[s].top # 0 /\ seen[s].top = builder.prev
    BY <1>4, <1>5, <2>1
  <2>4. base = seen[s].base
    BY <2>3 DEF Unseen
  <2>5. s \in Sessions => base \in Nat
    BY <2>4 DEF Typed
  <2> QED BY <1>1, <1>2, <1>4, <1>5, <2>1, <2>2, <2>3, <2>4, <2>5
<1>6. CASE builder.session # s
  <2>1. TickVolume(tick) = tick.qty
    BY <1>6 DEF TickVolume
  <2>2. s \in Sessions => seen[s] = Unseen
    BY <1>2, <1>3, <1>4, <1>6 DEF Reflected
  <2>3. s \in Sessions => base = tick.cum - tick.qty /\ seen[s].top = 0 /\ seen[s].base = 0
    BY <2>2 DEF Unseen
  <2> QED BY <1>1, <1>2, <1>4, <2>1, <2>3
<1> QED BY <1>5, <1>6

\* A packet adds a natural number.
LEMMA TickVolumeCounts ==
  ASSUME Typed, Reflected, NEW tick \in Tick, tick.qty <= tick.cum, Behind(tick)
  PROVE  TickVolume(tick) \in Nat
<1>1. PICK s, base : /\ s = SessionOf(tick.ts)
                     /\ base = IF seen[s] = Unseen THEN tick.cum - tick.qty ELSE seen[s].base
  OBVIOUS
<1> QED BY <1>1, TickVolumeIs

\* What a packet does to the builder, the buffer and what is published and open.
LEMMA TickCounts ==
  ASSUME Typed, Ordered, Reflected, OnTick, NEW tick \in Tick, tick = Head(wire),
         tick.qty <= tick.cum, Behind(tick), SessionOf(tick.ts) \in Sessions,
         Floor(tick.ts) \in Windows
  PROVE  /\ buffer' \in Seq([ts: Windows, volume: Nat])
         /\ buffer' # <<>> => Last(buffer').ts <= Floor(tick.ts)
         /\ builder'.start = Floor(tick.ts) /\ builder'.prev = tick.cum
         /\ builder'.session = SessionOf(tick.ts)
         /\ builder' \in [start: Windows \cup {None}, volume: Nat, prev: Nat \cup {None},
                          session: Sessions \cup {None}]
         /\ shown' \in [Windows -> Nat \cup {None}]
         /\ shown'[Floor(tick.ts)] = shown[Floor(tick.ts)]
         /\ \A r : LET count == Published(shown, r) + Open(builder, r)
                       added == IF r = SessionOf(tick.ts) THEN TickVolume(tick) ELSE 0
                   IN /\ Published(shown', r) + Open(builder', r) <= count + added
                      /\ r \notin late =>
                           Published(shown', r) + Open(builder', r) = count + added
<1>1. PICK w \in Windows, s \in Sessions, delta \in Nat :
        w = Floor(tick.ts) /\ s = SessionOf(tick.ts) /\ delta = TickVolume(tick)
  BY TickVolumeCounts
<1>2. delta \in Nat /\ tick.cum \in Nat
  BY DEF Tick
<1>3. w \in Nat /\ s \in Nat /\ tick.ts \in Nat /\ SessionOf(w) = s /\ w # None
  <2>1. tick.ts \in Nat
    BY DEF Tick
  <2> QED BY <1>1, <2>1, WindowsAre, SessionOfFloor DEF None
<1>4. builder.start # None => builder.start \in Windows /\ builder.start \in Nat
  BY WindowsAre DEF Typed
<1>5. builder.start # None => builder.start <= w
  BY <1>1 DEF Behind
<1> DEFINE opened == [start |-> w, volume |-> delta, prev |-> tick.cum, session |-> s]
           Builders == [start: Windows \cup {None}, volume: Nat, prev: Nat \cup {None},
                        session: Sessions \cup {None}]
<1>6. /\ shown \in [Windows -> Nat \cup {None}] /\ buffer \in Seq([ts: Windows, volume: Nat])
      /\ builder \in Builders
  BY DEF Typed
<1>7. opened \in Builders
  BY <1>2
<1>8. IF builder.start = None
      THEN builder' = opened /\ UNCHANGED <<buffer, busy, shown>>
      ELSE IF w > builder.start
      THEN builder' = opened /\ Emit(Feed, Bar(builder.start, builder.volume))
      ELSE /\ builder' = IF w = builder.start
                         THEN [builder EXCEPT !.prev = tick.cum, !.session = s,
                                              !.volume = @ + delta]
                         ELSE [builder EXCEPT !.prev = tick.cum, !.session = s]
           /\ UNCHANGED <<buffer, busy, shown>>
  BY <1>1 DEF OnTick
<1>9. buffer # <<>> => Last(buffer).ts <= w
  BY <1>1 DEF Behind
<1>10. \A b : b.start = w => \A r : Open(b, r) = IF r = s THEN b.volume ELSE 0
  BY <1>3 DEF Open
<1>11. \A r : Published(shown, r) \in Int
  BY <1>6, PublishedIs
<1>12. CASE builder.start = None
  <2>1. builder' = opened /\ buffer' = buffer /\ shown' = shown
    BY <1>8, <1>12
  <2>2. \A r : Open(builder, r) = 0
    BY <1>12 DEF Open
  <2>3. \A r : Open(opened, r) = IF r = s THEN delta ELSE 0
    BY <1>10
  <2>4. ASSUME NEW r
        PROVE  Published(shown', r) + Open(builder', r)
                 = Published(shown, r) + Open(builder, r) + (IF r = s THEN delta ELSE 0)
    BY <1>2, <1>11, <2>1, <2>2, <2>3
  <2>5. \A r : Published(shown, r) + Open(builder, r) + (IF r = s THEN delta ELSE 0) \in Int
    BY <1>2, <1>11, <2>2
  <2> QED BY <1>1, <1>6, <1>7, <1>9, <2>1, <2>4, <2>5
<1>13. CASE builder.start # None /\ w > builder.start
  <2>1. builder' = opened /\ Emit(Feed, Bar(builder.start, builder.volume))
    BY <1>8, <1>13
  <2>2. /\ buffer' \in Seq([ts: Windows, volume: Nat]) /\ buffer' # <<>>
        /\ Last(buffer').ts = builder.start
        /\ shown' = [shown EXCEPT ![builder.start] = builder.volume]
        /\ shown' \in [Windows -> Nat \cup {None}]
        /\ \A r : /\ Published(shown', r) <= Published(shown, r) + Open(builder, r)
                  /\ r \notin late =>
                       Published(shown', r) = Published(shown, r) + Open(builder, r)
    BY <1>13, <2>1, ClosingCounts
  <2>3. \A r : Open(opened, r) = IF r = s THEN delta ELSE 0
    BY <1>10
  <2>4. shown'[w] = shown[w]
    BY <1>4, <1>6, <1>13, <2>2
  <2>5. \A r : Published(shown', r) \in Int /\ Open(builder, r) \in Int
    <3>1. PICK sh \in [Windows -> Nat \cup {None}] : sh = shown'
      BY <2>2
    <3>2. \A r : Published(sh, r) \in Int
      BY PublishedIs
    <3>3. \A r : Open(builder, r) \in Int
      BY <1>6 DEF Open
    <3> QED BY <3>1, <3>2, <3>3
  <2>6. ASSUME NEW r
        PROVE  LET added == IF r = s THEN delta ELSE 0
               IN /\ Published(shown', r) + Open(builder', r)
                       <= Published(shown, r) + Open(builder, r) + added
                  /\ r \notin late => Published(shown', r) + Open(builder', r)
                                        = Published(shown, r) + Open(builder, r) + added
    <3>1. PICK o \in Nat : o = Open(opened, r) /\ o = IF r = s THEN delta ELSE 0
      BY <1>2, <2>3
    <3>2. Open(builder', r) = o
      BY <2>1, <3>1
    <3>3. PICK p \in Int, q \in Int, n \in Int :
            p = Published(shown', r) /\ q = Published(shown, r) /\ n = Open(builder, r)
      BY <1>11, <2>5
    <3>4. p <= q + n /\ (r \notin late => p = q + n)
      BY <2>2, <3>3
    <3>5. p + o <= q + n + o /\ (r \notin late => p + o = q + n + o)
      BY <3>4
    <3> QED BY <3>1, <3>2, <3>3, <3>5
  <2>7. Last(buffer').ts <= w
    BY <1>3, <1>4, <1>13, <2>2
  <2> QED BY <1>1, <1>7, <2>1, <2>2, <2>4, <2>6, <2>7
<1>14. CASE builder.start # None /\ ~(w > builder.start)
  <2>1. w = builder.start
    BY <1>3, <1>4, <1>5, <1>14
  <2>2. buffer' = buffer /\ shown' = shown
    BY <1>8, <1>14
  <2>3. PICK b : /\ b = builder' /\ b \in Builders /\ b.start = w /\ b.prev = tick.cum
                 /\ b.session = s /\ b.volume = builder.volume + delta
    <3>1. builder' = [builder EXCEPT !.prev = tick.cum, !.session = s, !.volume = @ + delta]
      BY <1>8, <1>14, <2>1
    <3>2. PICK v \in Nat : v = builder.volume + delta
      BY <1>2, <1>6
    <3>3. PICK b : b = [builder EXCEPT !.prev = tick.cum, !.session = s, !.volume = v]
      OBVIOUS
    <3>4. b.start = w /\ b.prev = tick.cum /\ b.session = s /\ b.volume = v
      BY <1>6, <2>1, <3>3
    <3>5. b \in Builders
      BY <1>2, <1>6, <3>2, <3>3
    <3> QED BY <3>1, <3>2, <3>3, <3>4, <3>5
  <2>4. \A r : /\ Open(b, r) = IF r = s THEN builder.volume + delta ELSE 0
               /\ Open(builder, r) = IF r = s THEN builder.volume ELSE 0
    BY <1>10, <2>1, <2>3
  <2>5. builder.volume \in Nat
    BY <1>6
  <2>6. ASSUME NEW r
        PROVE  /\ Published(shown', r) + Open(builder', r)
                    = Published(shown, r) + Open(builder, r) + (IF r = s THEN delta ELSE 0)
               /\ Published(shown, r) + Open(builder, r) + (IF r = s THEN delta ELSE 0) \in Int
    <3>1. Open(builder', r) = Open(b, r)
      BY <2>3
    <3> QED BY <1>2, <1>11, <2>2, <2>4, <2>5, <3>1
  <2> QED BY <1>1, <1>6, <1>9, <2>2, <2>3, <2>6
<1> QED BY <1>12, <1>13, <1>14

\* The packets that are left come after the one handled.
LEMMA TickOrdered ==
  ASSUME Typed, Ordered, OnTick, NEW tick \in Tick, tick = Head(wire),
         \A b \in Tick : Before(tick, b) => Behind(b)'
  PROVE  Ordered' /\ wire' \in Seq(Tick)
<1>1. PICK s : s = wire' /\ s = Tail(wire) /\ wire # <<>>
  BY DEF OnTick
<1>2. /\ wire \in Seq(Tick) /\ tick = wire[1] /\ 1 \in DOMAIN wire
      /\ s \in Seq(Tick)
      /\ \A i \in DOMAIN s : s[i] = wire[i + 1] /\ i + 1 \in DOMAIN wire /\ 1 < i + 1
                             /\ i \in Int
  <2>1. wire \in Seq(Tick)
    BY DEF Typed
  <2>2. /\ Head(wire) = wire[1] /\ Len(wire) \in Nat \ {0} /\ DOMAIN wire = 1..Len(wire)
    BY <1>1, <2>1, EmptySeq, LenProperties
  <2>3. /\ s \in Seq(Tick) /\ Len(s) = Len(wire) - 1 /\ DOMAIN s = 1..Len(s)
        /\ \A i \in 1..Len(s) : s[i] = wire[i + 1]
    BY <1>1, <2>1, HeadTailProperties, LenProperties
  <2> QED BY <2>1, <2>2, <2>3
<1>3. UNCHANGED <<now, last, traded>> /\ last.ts # None
  BY <1>1 DEF OnTick, exchange, Ordered
<1>4. last \in Tick /\ Stamped(last) /\ Before(tick, last)
  BY <1>2, <1>3 DEF Ordered, Stamped
<1>5. ASSUME NEW i \in DOMAIN s
      PROVE  Stamped(s[i]) /\ Before(s[i], last) /\ Behind(s[i])'
  <2>1. PICK b \in Tick : b = s[i] /\ b = wire[i + 1] /\ i + 1 \in DOMAIN wire /\ 1 < i + 1
    BY <1>2, ElementOfSeq, LenProperties
  <2>2. Stamped(b) /\ Before(b, last) /\ Before(tick, b)
    BY <1>2, <2>1 DEF Ordered
  <2>3. Behind(b)'
    BY <2>2
  <2> QED BY <2>1, <2>2, <2>3
<1>6. \A i, j \in DOMAIN s : i < j => Before(s[i], s[j])
  <2> SUFFICES ASSUME NEW i \in DOMAIN s, NEW j \in DOMAIN s, i < j PROVE Before(s[i], s[j])
    OBVIOUS
  <2>1. i + 1 < j + 1
    BY <1>2
  <2> QED BY <1>2, <2>1 DEF Ordered
<1>7. Behind(last)'
  <2>1. PICK l \in Tick : l = last /\ l = last'
    BY <1>3, <1>4
  <2>2. Before(tick, l)
    BY <1>4, <2>1
  <2>3. Behind(l)'
    BY <2>2
  <2> QED BY <2>1, <2>3 DEF Behind
<1>8. \A w \in Windows : traded[w] > 0 => w <= Floor(last.ts)
  BY DEF Ordered
<1> QED BY <1>1, <1>2, <1>3, <1>4, <1>5, <1>6, <1>7, <1>8 DEF Ordered, Stamped

\* A packet handled.
LEMMA TickKeeps ==
  ASSUME Typed, Ordered, Reflected, Balanced, OnTick
  PROVE  Typed' /\ Ordered' /\ Reflected' /\ Balanced'
<1>1. PICK tick \in Tick : /\ tick = Head(wire) /\ tick.qty <= tick.cum /\ tick.ts <= now
                           /\ Behind(tick)
  <2>1. wire # <<>> /\ wire \in Seq(Tick)
    BY DEF OnTick, Typed
  <2>2. Head(wire) = wire[1] /\ 1 \in DOMAIN wire
    BY <2>1, EmptySeq, LenProperties
  <2> QED BY <2>2 DEF Ordered, Stamped
<1>2. tick.ts \in Nat /\ tick.ts \in 0..End
  BY <1>1, DataAssumption, SMTT(30) DEF Typed, Tick
<1>3. PICK w \in Windows, s \in Sessions, delta \in Nat :
        /\ w = Floor(tick.ts) /\ s = SessionOf(tick.ts) /\ delta = TickVolume(tick)
        /\ w \in Nat /\ s \in Nat /\ SessionOf(w) = s
  <2>1. Floor(tick.ts) \in Windows /\ SessionOf(tick.ts) \in Sessions
    BY <1>2, TimesFall
  <2>2. Floor(tick.ts) \in Nat /\ SessionOf(tick.ts) \in Nat
    BY <2>1, WindowsAre
  <2>3. SessionOf(Floor(tick.ts)) = SessionOf(tick.ts)
    BY <1>2, SessionOfFloor
  <2>4. TickVolume(tick) \in Nat
    BY <1>1, TickVolumeCounts
  <2> QED BY <2>1, <2>2, <2>3, <2>4
<1>4. PICK base : base = IF seen[s] = Unseen THEN tick.cum - tick.qty ELSE seen[s].base
  OBVIOUS
<1>5. /\ delta \in Nat /\ tick.cum \in Nat \ {0} /\ base \in Nat
      /\ tick.cum - base = seen[s].top - seen[s].base + delta
      /\ builder.session # None => builder.session <= s
  BY <1>1, <1>3, <1>4, TickVolumeIs
<1>6. /\ buffer' \in Seq([ts: Windows, volume: Nat])
      /\ buffer' # <<>> => Last(buffer').ts <= w
      /\ builder'.start = w /\ builder'.prev = tick.cum /\ builder'.session = s
      /\ builder' \in [start: Windows \cup {None}, volume: Nat, prev: Nat \cup {None},
                       session: Sessions \cup {None}]
      /\ shown' \in [Windows -> Nat \cup {None}] /\ shown'[w] = shown[w]
      /\ \A r : LET count == Published(shown, r) + Open(builder, r)
                    added == IF r = s THEN delta ELSE 0
                IN /\ Published(shown', r) + Open(builder', r) <= count + added
                   /\ r \notin late =>
                        Published(shown', r) + Open(builder', r) = count + added
  BY <1>1, <1>3, TickCounts, ZenonT(60)
<1>7. PICK rec \in [base: Nat, top: Nat] :
        rec = [base |-> base, top |-> tick.cum] /\ rec.base = base /\ rec.top = tick.cum
  <2>1. PICK k \in Nat : k = tick.cum
    BY <1>5
  <2>2. PICK rec : rec = [base |-> base, top |-> k]
    OBVIOUS
  <2>3. rec \in [base: Nat, top: Nat] /\ rec.base = base /\ rec.top = k
    BY <1>5, <2>2
  <2> QED BY <2>1, <2>2, <2>3
<1>8. /\ seen' = [seen EXCEPT ![s] = rec] /\ seen \in [Sessions -> [base: Nat, top: Nat]]
      /\ late' = IF shown[w] # None THEN late \cup {s} ELSE late
      /\ UNCHANGED <<now, traded>> /\ late \subseteq Sessions
  <2>1. seen' = [seen EXCEPT ![s] = [base |-> base, top |-> tick.cum]]
    BY <1>1, <1>3, <1>4 DEF OnTick, Typed
  <2> QED BY <1>1, <1>3, <1>7, <2>1 DEF OnTick, Typed, exchange
<1>9. /\ seen'[s] = rec /\ seen' \in [Sessions -> [base: Nat, top: Nat]]
      /\ \A r \in Sessions : r # s => seen'[r] = seen[r]
  BY <1>7, <1>8
<1>10. late' \subseteq Sessions /\ late \subseteq late' /\ (shown[w] # None => s \in late')
  BY <1>8
<1>11. ASSUME NEW b \in Tick, Before(tick, b) PROVE Behind(b)'
  <2>1. tick.ts <= b.ts /\ b.ts \in Nat /\ b.cum \in Nat
        /\ (s = SessionOf(b.ts) => tick.cum <= b.cum)
    BY <1>3, <1>11 DEF Before, Tick
  <2>2. w <= Floor(b.ts) /\ s <= SessionOf(b.ts) /\ Floor(b.ts) \in Nat
    BY <1>2, <1>3, <2>1, TimeGrows, FloorIs
  <2>3. buffer' # <<>> => Last(buffer').ts <= Floor(b.ts)
    <3> SUFFICES ASSUME buffer' # <<>> PROVE Last(buffer').ts <= Floor(b.ts)
      OBVIOUS
    <3>1. Last(buffer') \in [ts: Windows, volume: Nat]
      BY <1>6, LastOf
    <3>2. PICK l \in Nat : l = Last(buffer').ts
      BY <3>1, WindowsAre
    <3> QED BY <1>3, <1>6, <2>2, <3>2
  <2> QED BY <1>6, <2>1, <2>2, <2>3 DEF Behind
<1>12. Ordered' /\ wire' \in Seq(Tick)
  BY <1>1, <1>11, TickOrdered
<1>13. Typed'
  BY <1>6, <1>8, <1>9, <1>10, <1>12 DEF Typed
<1>14. Reflected'
  <2>1. builder'.session # None =>
          builder'.prev \in Nat \ {0} /\ seen'[builder'.session].top = builder'.prev
    BY <1>5, <1>6, <1>7, <1>9
  <2>2. ASSUME NEW r \in Sessions, seen'[r] # Unseen
        PROVE  builder'.session # None /\ r <= builder'.session
    <3>1. s # None /\ r \in Nat
      BY <1>3, WindowsAre DEF None
    <3>2. CASE r = s
      BY <1>3, <1>6, <3>1, <3>2
    <3>3. CASE r # s
      <4>1. builder.session # None /\ r <= builder.session
        BY <1>9, <2>2, <3>3 DEF Reflected
      <4>2. builder.session \in Nat
        BY <4>1, WindowsAre DEF Typed
      <4> QED BY <1>3, <1>5, <1>6, <3>1, <4>1, <4>2
    <3> QED BY <3>2, <3>3
  <2>3. builder'.start # None /\ shown'[builder'.start] # None
          => SessionOf(builder'.start) \in late'
    BY <1>3, <1>6, <1>10
  <2>4. builder'.start # None /\ buffer' # <<>> => Last(buffer').ts <= builder'.start
    BY <1>6
  <2> QED BY <2>1, <2>2, <2>3, <2>4 DEF Reflected
<1>15. Balanced'
  <2>1. ASSUME NEW r \in Sessions
        PROVE  /\ Published(shown', r) + Open(builder', r) <= seen'[r].top - seen'[r].base
               /\ r \notin late' => Published(shown', r) + Open(builder', r)
                                      = seen'[r].top - seen'[r].base
    <3>1. PICK count : count = Published(shown, r) + Open(builder, r)
      OBVIOUS
    <3>2. /\ count <= seen[r].top - seen[r].base
          /\ r \notin late => count = seen[r].top - seen[r].base
      BY <3>1 DEF Balanced
    <3>3. PICK count2 : count2 = Published(shown', r) + Open(builder', r)
      OBVIOUS
    <3>4. count \in Int /\ count2 \in Int
      <4>1. Published(shown, r) \in Int /\ Open(builder, r) \in Int
        <5>1. shown \in [Windows -> Nat \cup {None}] /\ builder.volume \in Nat
          BY DEF Typed
        <5>2. Published(shown, r) \in Int
          BY <5>1, PublishedIs
        <5>3. Open(builder, r) \in Int
          BY <5>1 DEF Open
        <5> QED BY <5>2, <5>3
      <4>2. PICK sh \in [Windows -> Nat \cup {None}] : sh = shown'
        BY <1>6
      <4>3. Published(sh, r) \in Int
        BY PublishedIs
      <4>4. Open(builder', r) \in Int
        BY <1>6 DEF Open
      <4> QED BY <3>1, <3>3, <4>1, <4>2, <4>3, <4>4
    <3>5. PICK added \in Nat : added = IF r = s THEN delta ELSE 0
      BY <1>5
    <3>6. count2 <= count + added /\ (r \notin late => count2 = count + added)
      BY <1>6, <3>1, <3>3, <3>5
    <3>7. PICK d \in Int, e \in Int :
            /\ d = seen[r].top - seen[r].base /\ e = seen'[r].top - seen'[r].base
            /\ e = d + added
      <4>1. seen[r].top - seen[r].base \in Int
        BY <1>8
      <4>2. CASE r = s
        BY <1>5, <1>7, <1>9, <3>5, <4>1, <4>2
      <4>3. CASE r # s
        BY <1>9, <3>5, <4>1, <4>3
      <4> QED BY <4>2, <4>3
    <3>8. r \notin late' => r \notin late
      BY <1>10
    <3>9. count2 <= e /\ (r \notin late => count2 = e)
      BY <3>2, <3>4, <3>6, <3>7
    <3> QED BY <3>3, <3>7, <3>8, <3>9
  <2> QED BY <2>1 DEF Balanced
<1> QED BY <1>12, <1>13, <1>14, <1>15
\* Closing a window by the clock.
LEMMA FlushKeeps ==
  ASSUME Typed, Ordered, Reflected, Balanced, Flush
  PROVE  Typed' /\ Ordered' /\ Reflected' /\ Balanced'
<1>1. /\ builder.start # None /\ Emit(Flusher, Bar(builder.start, builder.volume))
      /\ builder' = [builder EXCEPT !.start = None]
      /\ UNCHANGED <<now, last, traded, wire, seen, late>>
  BY DEF Flush, Due, exchange, feed
<1>2. /\ buffer' \in Seq([ts: Windows, volume: Nat]) /\ buffer' # <<>>
      /\ Last(buffer').ts = builder.start
      /\ shown' \in [Windows -> Nat \cup {None}]
      /\ \A s : /\ Published(shown', s) <= Published(shown, s) + Open(builder, s)
                /\ s \notin late =>
                     Published(shown', s) = Published(shown, s) + Open(builder, s)
  BY <1>1, ClosingCounts
<1>3. PICK b : /\ b = builder' /\ b.start = None /\ b.session = builder.session
               /\ b.prev = builder.prev
               /\ b \in [start: Windows \cup {None}, volume: Nat, prev: Nat \cup {None},
                         session: Sessions \cup {None}]
  <2>1. builder \in [start: Windows \cup {None}, volume: Nat, prev: Nat \cup {None},
                     session: Sessions \cup {None}]
    BY DEF Typed
  <2>2. PICK b : b = [builder EXCEPT !.start = None]
    OBVIOUS
  <2>3. /\ b.start = None /\ b.session = builder.session /\ b.prev = builder.prev
        /\ b \in [start: Windows \cup {None}, volume: Nat, prev: Nat \cup {None},
                  session: Sessions \cup {None}]
    BY <2>1, <2>2
  <2> QED BY <1>1, <2>2, <2>3
<1>4. Typed'
  BY <1>1, <1>2, <1>3 DEF Typed
<1>5. ASSUME NEW p, Behind(p) PROVE Behind(p)'
  BY <1>1, <1>2, <1>3, <1>5 DEF Behind
<1>6. Ordered'
  <2>1. last.ts # None
    BY <1>1 DEF Ordered, Fresh
  <2>2. PICK l, s : l = last /\ l = last' /\ s = wire /\ s = wire'
    BY <1>1
  <2>3. \A i \in DOMAIN s : Behind(s[i])
    BY <2>2 DEF Ordered
  <2>4. \A i \in DOMAIN s : Behind(s[i])'
    BY <1>5, <2>3
  <2>5. Behind(l)'
    BY <1>5, <2>1, <2>2 DEF Ordered
  <2> QED BY <1>1, <2>1, <2>2, <2>4, <2>5 DEF Ordered, Stamped
<1>7. Reflected'
  BY <1>1, <1>3 DEF Reflected
<1>8. Balanced'
  <2>1. ASSUME NEW s \in Sessions
        PROVE  /\ Published(shown', s) + Open(builder', s) <= seen[s].top - seen[s].base
               /\ s \notin late => Published(shown', s) + Open(builder', s)
                                     = seen[s].top - seen[s].base
    <3>1. Open(builder', s) = 0
      BY <1>3 DEF Open
    <3>2. PICK count : count = Published(shown, s) + Open(builder, s)
      OBVIOUS
    <3>3. PICK sh \in [Windows -> Nat \cup {None}] : sh = shown'
      BY <1>2
    <3>4. PICK p \in Int : p = Published(shown', s)
      BY <3>3, PublishedIs
    <3>5. count \in Int
      <4>1. shown \in [Windows -> Nat \cup {None}] /\ builder.volume \in Nat
        BY DEF Typed
      <4>2. Published(shown, s) \in Int
        BY <4>1, PublishedIs
      <4> QED BY <3>2, <4>1, <4>2 DEF Open
    <3>6. p <= count /\ (s \notin late => p = count)
      BY <1>2, <3>2, <3>4
    <3>7. PICK d \in Int : d = seen[s].top - seen[s].base
      BY DEF Typed
    <3>8. count <= d /\ (s \notin late => count = d)
      BY <3>2, <3>7 DEF Balanced
    <3> QED BY <3>1, <3>4, <3>5, <3>6, <3>7, <3>8
  <2> QED BY <1>1, <2>1 DEF Balanced
<1> QED BY <1>4, <1>6, <1>7, <1>8

\* A buffer that is read from the history ends no later than the last trade.
LEMMA WarmBuffersEnd ==
  ASSUME Typed, Ordered, NEW b \in {<<>>} \cup WarmBuffers
  PROVE  /\ b \in Seq([ts: Windows, volume: Nat])
         /\ b # <<>> => last.ts # None /\ Last(b).ts <= Floor(last.ts)
<1>1. CASE b = <<>>
  BY <1>1
<1>2. CASE b \in WarmBuffers
  <2> DEFINE known == {w \in Windows : traded[w] > 0}
             n == Min({Cardinality(known), BufferSize})
  <2>1. PICK q \in [1..n -> known] : b = [i \in 1..n |-> Bar(q[i], traded[q[i]])]
    BY <1>2 DEF WarmBuffers
  <2>2. n \in Nat
    <3>1. IsFiniteSet(known)
      BY WindowsAre, FS_Subset
    <3>2. PICK c \in Nat, k \in Nat : c = Cardinality(known) /\ k = BufferSize
      BY <3>1, FS_CardinalityType, DataAssumption
    <3>3. \E m \in {c, k} : \A y \in {c, k} : m <= y
      <4>1. c <= k \/ k <= c
        OBVIOUS
      <4> QED BY <4>1
    <3>4. Min({c, k}) \in {c, k}
      BY <3>3 DEF Min
    <3> QED BY <3>2, <3>4
  <2>3. ASSUME NEW i \in 1..n
        PROVE  /\ b[i] \in [ts: Windows, volume: Nat] /\ b[i].ts \in known
    <3>1. PICK w \in known : w = q[i]
      OBVIOUS
    <3>2. PICK x : x = [ts |-> w, volume |-> traded[w]]
      OBVIOUS
    <3>3. traded[w] \in Nat
      BY DEF Typed
    <3>4. x \in [ts: Windows, volume: Nat] /\ x.ts \in known
      BY <3>2, <3>3
    <3>5. b[i] = x
      BY <2>1, <3>1, <3>2 DEF Bar
    <3> QED BY <3>4, <3>5
  <2> HIDE DEF known, n
  <2>4. DOMAIN b = 1..n /\ b = [i \in 1..n |-> b[i]]
    BY <2>1
  <2>5. b \in Seq([ts: Windows, volume: Nat]) /\ Len(b) = n
    BY <2>2, <2>3, <2>4
  <2>6. b # <<>> => Last(b).ts \in known
    <3> SUFFICES ASSUME b # <<>> PROVE Last(b).ts \in known
      OBVIOUS
    <3>1. Len(b) \in 1..Len(b) /\ Last(b) = b[Len(b)]
      BY <2>5, LastOf
    <3> QED BY <2>3, <2>5, <3>1
  <2>7. \A w \in known : last.ts # None /\ w <= Floor(last.ts)
    BY DEF Ordered, known
  <2> QED BY <2>5, <2>6, <2>7
<1> QED BY <1>1, <1>2

\* A sum of no version.
LEMMA NothingPublished ==
  \A s : /\ Published([w \in Windows |-> None], s) = 0
         /\ Open(Fresh, s) = 0
<1>1. ASSUME NEW s PROVE Published([w \in Windows |-> None], s) = 0
  <2>1. PICK sh : sh = [w \in Windows |-> None]
    OBVIOUS
  <2> DEFINE g == [w \in Windows |-> IF SessionOf(w) = s /\ sh[w] # None THEN sh[w] ELSE 0]
  <2>2. \A w \in Windows : g[w] = 0
    BY <2>1
  <2>3. IsFiniteSet(Windows)
    BY WindowsAre
  <2> HIDE DEF g
  <2>4. SumFunctionOnSet(g, Windows) = 0
    BY <2>2, <2>3, SumOfZeros
  <2> QED BY <2>1, <2>4 DEF g, Published
<1> QED BY <1>1 DEF Open, Fresh

\* A system that starts has seen nothing.
LEMMA StartsBalanced ==
  ASSUME Init
  PROVE  Typed /\ Ordered /\ Reflected /\ Balanced
<1>0. /\ now \in 0..End /\ last.ts = None /\ buffer = <<>> /\ wire = <<>> /\ builder = Fresh
      /\ traded \in [Windows -> Nat] /\ \A w \in Windows : ~(traded[w] > 0)
      /\ shown = [w \in Windows |-> None] /\ seen = [s \in Sessions |-> Unseen] /\ late = {}
  BY DataAssumption DEF Init
<1>1. builder.start = None /\ builder.session = None
  BY <1>0 DEF Fresh
<1>2. Unseen \in [base: Nat, top: Nat] /\ Unseen.top = 0 /\ Unseen.base = 0
  BY DEF Unseen
<1>3. Typed
  <2>1. Fresh \in [start: Windows \cup {None}, volume: Nat, prev: Nat \cup {None},
                   session: Sessions \cup {None}]
    BY DEF Fresh
  <2>2. <<>> \in Seq([ts: Windows, volume: Nat]) /\ <<>> \in Seq(Tick)
    OBVIOUS
  <2> QED BY <1>0, <1>2, <2>1, <2>2 DEF Typed
<1>4. Ordered
  BY <1>0, <1>1 DEF Ordered, Behind
<1>5. Reflected
  BY <1>0, <1>1 DEF Reflected
<1>6. Balanced
  <2>1. \A s : Published(shown, s) = 0 /\ Open(builder, s) = 0
    BY <1>0, NothingPublished
  <2>2. \A s \in Sessions : seen[s].top = 0 /\ seen[s].base = 0
    BY <1>0, <1>2
  <2> QED BY <2>1, <2>2 DEF Balanced
<1> QED BY <1>3, <1>4, <1>5, <1>6

\* A restart keeps what the exchange did, and the counting starts again.
LEMMA RestartKeeps ==
  ASSUME Typed, Ordered, Restart
  PROVE  Typed' /\ Ordered' /\ Reflected' /\ Balanced'
<1>1. /\ UNCHANGED <<now, last, traded>> /\ wire' = <<>> /\ builder' = Fresh
      /\ shown' = [w \in Windows |-> None] /\ seen' = [s \in Sessions |-> Unseen]
      /\ late' = {} /\ buffer' \in {<<>>} \cup WarmBuffers
  BY DEF Restart, exchange
<1>2. PICK b \in {<<>>} \cup WarmBuffers : b = buffer'
  BY <1>1
<1>3. /\ b \in Seq([ts: Windows, volume: Nat])
      /\ b # <<>> => last.ts # None /\ Last(b).ts <= Floor(last.ts)
  BY WarmBuffersEnd
<1>4. Unseen \in [base: Nat, top: Nat] /\ Unseen.top = 0 /\ Unseen.base = 0
  BY DEF Unseen
<1>5. Typed'
  <2>1. Fresh \in [start: Windows \cup {None}, volume: Nat, prev: Nat \cup {None},
                   session: Sessions \cup {None}]
    BY DEF Fresh
  <2>2. <<>> \in Seq(Tick)
    OBVIOUS
  <2> QED BY <1>1, <1>2, <1>3, <1>4, <2>1, <2>2 DEF Typed
<1>6. Ordered'
  <2>1. last.ts # None => Stamped(last)
    BY DEF Ordered
  <2>2. \A w \in Windows : traded[w] > 0 => last.ts # None /\ w <= Floor(last.ts)
    BY DEF Ordered
  <2>3. Fresh.start = None /\ Fresh.session = None
    BY DEF Fresh
  <2> QED BY <1>1, <1>2, <1>3, <2>1, <2>2, <2>3 DEF Ordered, Behind, Stamped
<1>7. Reflected'
  BY <1>1 DEF Reflected, Fresh
<1>8. Balanced'
  <2>1. \A s : Published(shown', s) = 0 /\ Open(builder', s) = 0
    BY <1>1, NothingPublished
  <2>2. \A s \in Sessions : seen'[s].top = 0 /\ seen'[s].base = 0
    BY <1>1, <1>4
  <2> QED BY <2>1, <2>2 DEF Balanced
<1> QED BY <1>5, <1>6, <1>7, <1>8
-----------------------------------------------------------------------------
(* The theorem.                                                            *)

\* Volume is counted once (BarBuilder.on_tick, close_if_due and DataAgent.emit_bar):
\* whatever is lost, repeated or closed by the clock, and through restarts, the latest
\* versions of the bars of a session and the window that is open add up to what the
\* exchange traded from the first packet handled to the last, unless a packet of a
\* published window was handled, and then to less.
THEOREM VolumeIsCountedOnce == Spec => []CountedOnce
<1>1. Init => Typed /\ Ordered /\ Reflected /\ Balanced
  BY StartsBalanced
<1>2. Typed /\ Ordered /\ Reflected /\ Balanced /\ [Next]_vars
        => (Typed /\ Ordered /\ Reflected /\ Balanced)'
  <2> SUFFICES ASSUME Typed, Ordered, Reflected, Balanced, [Next]_vars
               PROVE  (Typed /\ Ordered /\ Reflected /\ Balanced)'
    OBVIOUS
  <2>1. CASE Exchange \/ Network \/ TimePasses
    BY <2>1, OutsideKeeps
  <2>2. CASE OnTick
    BY <2>2, TickKeeps
  <2>3. CASE Flush
    BY <2>3, FlushKeeps
  <2>4. CASE Restart
    BY <2>4, RestartKeeps
  <2>5. CASE vars' = vars \/ \E task \in {Feed, Flusher} : Done(task)
    <3>1. UNCHANGED <<now, last, traded, wire, builder, buffer, shown, seen, late>>
      BY <2>5 DEF vars, Done, exchange, feed, history
    <3> QED BY <3>1 DEF Typed, Ordered, Reflected, Balanced, Stamped, Behind
  <2> QED BY <2>1, <2>2, <2>3, <2>4, <2>5 DEF Next, Agent
<1>3. Typed /\ Ordered /\ Reflected /\ Balanced => CountedOnce
  <2> SUFFICES ASSUME Typed, Balanced, NEW s \in Sessions
               PROVE  /\ Counted(s) <= seen[s].top - seen[s].base
                      /\ s \notin late => Counted(s) = seen[s].top - seen[s].base
    BY DEF CountedOnce
  <2>1. Counted(s) = Published(shown, s) + Open(builder, s)
    <3>1. SumFunctionOnSet(shown, {w \in Windows : SessionOf(w) = s /\ shown[w] # None})
            = Published(shown, s)
      BY PublishedIs DEF Typed
    <3> QED BY <3>1 DEF Counted, Open
  <2> QED BY <2>1 DEF Balanced
<1> QED BY <1>1, <1>2, <1>3, PTL DEF Spec
===============================================================================
