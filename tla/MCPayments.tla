----------------------------- MODULE MCPayments ------------------------------
(***************************************************************************)
(* A finite instance of Payments.  Order o1 is reserved under one key,     *)
(* with a conflicting amount and under a second key; o2 competes for the   *)
(* same customer's money and reuses a charge key of o1; o3 belongs to      *)
(* another customer.  Two requests carry a causation_id no envelope takes. *)
(* With MaxSafe = 3 the holds of o1 and o2 do not fit together, and        *)
(* credits reach the limit.                                                *)
(***************************************************************************)
EXTENDS Payments

CONSTANTS o1, o2, o3, c1, c2, k1, k2, k3, q1, q2

Reserving(o, c, amount, key, ok) ==
    [order |-> o, customer |-> c, amount |-> amount, key |-> key,
     causation_ok |-> ok]
Charging(o, key, ok) == [order |-> o, key |-> key, causation_ok |-> ok]

MCOrders == {o1, o2, o3}
MCCustomers == {c1, c2}
MCKeys == {k1, k2, k3, q1, q2}
MCCredits == {1, 2}
MCReserveRequests ==
    {Reserving(o1, c1, 2, k1, TRUE), Reserving(o1, c1, 1, k1, TRUE),
     Reserving(o1, c1, 2, k2, TRUE), Reserving(o2, c1, 2, k2, FALSE),
     Reserving(o2, c1, 2, k2, TRUE), Reserving(o3, c2, 3, k3, TRUE)}
MCChargeRequests ==
    {Charging(o1, q1, TRUE), Charging(o1, q2, FALSE),
     Charging(o2, q1, TRUE), Charging(o2, q2, TRUE)}
=============================================================================
