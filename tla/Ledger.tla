------------------------------- MODULE Ledger -------------------------------
(***************************************************************************)
(* What an account promises its owner: the cash and the holdings move by   *)
(* posting executions of booked orders and by nothing else, no order is    *)
(* executed beyond its quantity, and a purchase is paid from the cash that *)
(* is there.  A restart is not an event of the ledger.                     *)
(***************************************************************************)
EXTENDS Integers

CONSTANTS Product, Prices, Fee, Start

VARIABLES
  money,     \* cash
  holding,   \* Product -> signed quantity
  booked     \* order id -> what of the order matters to the account
ledger == <<money, holding, booked>>

LedgerInit ==
  /\ money = Start
  /\ holding = [p \in Product |-> 0]
  /\ booked = [o \in {} |-> 0]

\* A new order is booked with nothing executed.
BookOrder ==
  \E o \in DOMAIN booked' \ DOMAIN booked :
    /\ booked'[o].filled = 0
    /\ booked' = [x \in DOMAIN booked \cup {o} |->
                    IF x = o THEN booked'[o] ELSE booked[x]]
    /\ UNCHANGED <<money, holding>>

\* An execution of q at price p of order o is posted.
Post(o, q, p) ==
  /\ q \in 1..(booked[o].qty - booked[o].filled)
  /\ booked[o].side = 1 => q * p <= money
  /\ booked' = [booked EXCEPT ![o].filled = @ + q]
  /\ holding' = [holding EXCEPT ![booked[o].product] = @ + booked[o].side * q]
  /\ money' = money - booked[o].side * q * p - Fee

\* The owner wipes the account.
Wipe == money' = Start /\ holding' = [p \in Product |-> 0] /\ booked' = [o \in {} |-> 0]

LedgerNext ==
  \/ BookOrder
  \/ \E o \in DOMAIN booked, p \in Prices :
       \E q \in 1..(booked[o].qty - booked[o].filled) : Post(o, q, p)
  \/ Wipe

LedgerSpec == LedgerInit /\ [][LedgerNext]_ledger
=============================================================================
