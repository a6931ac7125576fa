---------------------------- MODULE ApprovalGate ----------------------------
(***************************************************************************)
(* What the execution agent promises risk: an approval is acted on at most *)
(* once, and each of its slices reaches the broker at most once, whatever  *)
(* tasks, cancellations and duplicated updates do in between.  Orders that *)
(* were not approved (bracket stops, liquidations) are outside the gate.   *)
(***************************************************************************)
EXTENDS Integers

CONSTANTS Intent, Slices      \* Slices: Intent -> number of children allowed

VARIABLES
  accepted,   \* approvals acted on
  sent        \* children at the broker: [id, intent, slice]
gate == <<accepted, sent>>

GateInit == accepted = {} /\ sent = {}

Accept(i) ==
  /\ i \in Intent \ accepted
  /\ accepted' = accepted \cup {i}
  /\ UNCHANGED sent

\* c is an order that was not at the broker before.
Send(c) ==
  /\ c.intent \in accepted
  /\ c.slice \in 1..Slices[c.intent]
  /\ \A d \in sent : ~(d.intent = c.intent /\ d.slice = c.slice)
  /\ sent' = sent \cup {c}
  /\ UNCHANGED accepted

GateNext ==
  \/ \E i \in Intent : Accept(i)
  \/ \E c \in sent' \ sent : Send(c)

GateSpec == GateInit /\ [][GateNext]_gate
=============================================================================
