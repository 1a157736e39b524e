---------------------------- MODULE MCInventory -----------------------------
(***************************************************************************)
(* A finite instance of Inventory: two SKUs, one of them in two            *)
(* warehouses, an order of two lines and an order that needs a whole lot,  *)
(* each cancelled with and without release_inventory, and a conflicting    *)
(* request for the first order.                                            *)
(***************************************************************************)
EXTENDS Inventory, TLC

CONSTANTS o1, o2

Created(id, o, demand) ==
    [type |-> "order_created", id |-> id, order |-> o, demand |-> demand]
Cancelled(id, o, compensations) ==
    [type |-> "order_cancelled", id |-> id, order |-> o,
     compensations |-> compensations]

TwoLines == (1 :> 1) @@ (2 :> 1)
WholeLot == (1 :> 2)

MCOrders == {o1, o2}
MCMessageIds == 1..6
MCSkus == {1, 2}
MCWarehouses == {1, 2}
MCLots == {<<1, 1>>, <<1, 2>>, <<2, 1>>}
MCSeedSizes == {1, 2}
MCDemands == {TwoLines, WholeLot}
MCInbound ==
    {Created(1, o1, TwoLines), Created(2, o1, WholeLot),
     Created(3, o2, WholeLot),
     Cancelled(4, o1, {"release_inventory", "notify_customer"}),
     Cancelled(5, o1, {"notify_customer"}),
     Cancelled(6, o2, {"refund_payment", "release_inventory",
                       "notify_customer"})}
=============================================================================
