---------------------------- MODULE MCPaperAccount ----------------------------
(* Instances of PaperAccount for TLC: a few prices and the orders that make    *)
(* one product's cash, holdings and stops meet the other's.                    *)
EXTENDS PaperAccount

Req(p, s, q, t, price, trigger) ==
  [product |-> p, side |-> s, qty |-> q, type |-> t, price |-> price, trigger |-> trigger]

Bar(o, h, l, c) == [open |-> o, high |-> h, low |-> l, last |-> c]

\* A tick that gaps down, and a bar that falls and recovers.
SomePrices == {1, 2, 3}
TickAndBar == {Tick(1), Bar(3, 3, 2, 3)}
OnlyTicks == {Tick(1), Tick(3)}

MixedRequests ==
  {Req("CNC", BUY, 1, "LIMIT", 2, None), Req("CNC", SELL, 1, "LIMIT", 3, None),
   Req("MIS", BUY, 2, "MARKET", None, None), Req("MIS", SELL, 2, "LIMIT", 2, None),
   Req("MIS", SELL, 1, "SL", 2, 2)}

\* A purchase, and the bracket stop that a gap jumps over.
StopRequests ==
  {Req("MIS", BUY, 1, "MARKET", None, None), Req("MIS", SELL, 1, "SL", 2, 2)}

\* Delivery orders before the first price is known.
DeliveryRequests ==
  {Req("CNC", BUY, 1, "LIMIT", 2, None), Req("CNC", SELL, 1, "MARKET", None, None)}
=============================================================================
