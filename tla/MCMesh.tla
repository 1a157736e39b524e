------------------------------- MODULE MCMesh --------------------------------
(***************************************************************************)
(* A finite instance of Mesh: one order of one unit at the price 1, which  *)
(* its customer may be asked to pay, or twice as much.                     *)
(***************************************************************************)
EXTENDS Mesh, TLC

CONSTANTS order, basket, stockId, payId, created, reserved, refused,
          charged, overcharged, declined, customer, key1, key2, key3

MCInbound ==
    {[type |-> "order_created", id |-> created, source |-> "orders",
      order |-> order, price |-> 1, basket |-> basket],
     [type |-> "inventory_reserved", id |-> reserved, source |-> "inventory",
      order |-> order, reservation_id |-> stockId],
     [type |-> "inventory_reservation_failed", id |-> refused,
      source |-> "inventory", order |-> order],
     [type |-> "payment_charged", id |-> charged, source |-> "payments",
      order |-> order, payment_id |-> payId, price |-> 1],
     [type |-> "payment_charged", id |-> overcharged, source |-> "payments",
      order |-> order, payment_id |-> payId, price |-> 2],
     [type |-> "payment_failed", id |-> declined, source |-> "payments",
      order |-> order]}

MCLots == {<<1, 1>>}
MCDemands == {1 :> 1}
MCDemandOf == basket :> (1 :> 1)

MCReserveRequests ==
    {[order |-> order, customer |-> customer, amount |-> 1, key |-> key1,
      causation_ok |-> TRUE],
     [order |-> order, customer |-> customer, amount |-> 2, key |-> key2,
      causation_ok |-> TRUE]}
MCChargeRequests == {[order |-> order, key |-> key3, causation_ok |-> TRUE]}
=============================================================================
