----------------------------- MODULE MCOrderSaga -----------------------------
(***************************************************************************)
(* A finite instance of OrderSaga.  Order o1 has two order_created         *)
(* envelopes of one request and a conflicting one, contradictory replies   *)
(* from inventory and payments, a second reservation, and a second payment *)
(* of the wrong price; order o2 is there to be told apart.                 *)
(***************************************************************************)
EXTENDS OrderSaga, Integers

CONSTANTS o1, o2, p1, p2, b1, r1, r2, pay1, pay2

Created(o, id, price) ==
    [type |-> "order_created", id |-> id, source |-> "orders",
     order |-> o, price |-> price, basket |-> b1]
Reserved(o, id, r) ==
    [type |-> "inventory_reserved", id |-> id, source |-> "inventory",
     order |-> o, reservation_id |-> r]
Charged(o, id, pay, price) ==
    [type |-> "payment_charged", id |-> id, source |-> "payments",
     order |-> o, payment_id |-> pay, price |-> price]
Unreserved(o, id) ==
    [type |-> "inventory_reservation_failed", id |-> id,
     source |-> "inventory", order |-> o]
Declined(o, id) ==
    [type |-> "payment_failed", id |-> id, source |-> "payments",
     order |-> o]

MCOrders == {o1, o2}
MCMessageIds == 1..11
MCPrices == {p1, p2}
MCBaskets == {b1}
MCReservations == {r1, r2}
MCPayments == {pay1, pay2}
MCInbound ==
    {Created(o1, 1, p1), Created(o1, 2, p1), Created(o1, 3, p2),
     Reserved(o1, 4, r1), Reserved(o1, 5, r2), Unreserved(o1, 6),
     Charged(o1, 7, pay1, p1), Charged(o1, 8, pay2, p2), Declined(o1, 9),
     Created(o2, 10, p2), Unreserved(o2, 11)}
=============================================================================
