--------------------------------- MODULE Mesh ---------------------------------
(***************************************************************************)
(* The saga (extended), the inventory service and the payments service     *)
(* together, over the routes of CATALOG in src/src/contracts.ts: what one  *)
(* of them got out is delivered to the consumers the catalog names, in any *)
(* order and any number of times.  Only the orders service's order_created *)
(* and the requests to payments come from outside: the payments service    *)
(* has no handler for the events it is named a consumer of, its callers    *)
(* choose the order and the amount.                                        *)
(*                                                                         *)
(* A price is the amount that payments reserves and charges, one currency  *)
(* being enough, a basket stands for the demand on the stock, and a        *)
(* terminal event is a message under an id of its own.                     *)
(***************************************************************************)
EXTENDS OrderSaga, Integers

CONSTANTS
    Skus, Warehouses, Lots, SeedSizes, Demands,  \* as in Inventory
    DemandOf,                                    \* what a basket asks for
    Customers, Keys, MaxSafe, Credits,           \* as in Payments
    ReserveRequests, ChargeRequests

ASSUME PricesAreAmounts == \A p \in Prices : p \in 0..MaxSafe
ASSUME DemandOfTyped == DemandOf \in [Baskets -> Demands]

(* "one payment intent per order" and one reservation (README.md): ids     *)
(* that inventory and payments give out name their order.  An order is     *)
(* created by one event (OneEventPerOrder of Orders), and a message of the *)
(* payments service names the amount it charged.                           *)
ASSUME IdsNameOrders ==
    \A m, n \in Inbound :
        m.order = n.order =>
            /\ m.type = "order_created" /\ n.type = "order_created" => m = n
            /\ m.type = "inventory_reserved" /\ n.type = "inventory_reserved"
                 => m.reservation_id = n.reservation_id
            /\ m.type = "payment_charged" /\ n.type = "payment_charged"
                 => m.payment_id = n.payment_id
ASSUME SourcesAsInCatalog ==
    \A m \in Inbound :
        m.source = CASE m.type = "order_created" -> "orders"
                     [] m.type \in {"inventory_reserved",
                                    "inventory_reservation_failed"} -> "inventory"
                     [] m.type \in {"payment_charged", "payment_failed"} -> "payments"

VARIABLES
    lots, down, reservation, released, replies, reseeded,     \* of Inventory
    available, held, payment, byCharge, receipts, credited    \* of Payments

stockVars == <<lots, down, reservation, released, replies, reseeded>>
billingVars == <<available, held, payment, byCharge, receipts, credited>>
meshVars == <<vars, stockVars, billingVars>>

OrderPlaced(m) ==
    [type |-> "order_created", id |-> m.id, order |-> m.order,
     demand |-> DemandOf[m.basket]]
OrderCancelled(e) ==
    [type |-> "order_cancelled", id |-> e, order |-> e.order,
     compensations |-> e.compensations]

Placed == {m \in Inbound : m.type = "order_created"}

Stock == INSTANCE Inventory WITH
    MessageIds <- MessageIds \cup CancelledEvent,
    Inbound <- {OrderPlaced(m) : m \in Placed}
                 \cup {OrderCancelled(e) : e \in CancelledEvent},
    byOrder <- reservation, cancelled <- released, events <- replies

Billing == INSTANCE Payments WITH events <- receipts

(* What the two services assume of their constants.                        *)
ASSUME StockAssumptions ==
    /\ Stock!SkusAndWarehousesOrdered /\ Stock!LotsTyped
    /\ Stock!SeedSizesTyped /\ Stock!DemandsTyped /\ Stock!InboundTyped
    /\ Stock!UniqueIds /\ Stock!NoneIsNoRecord
ASSUME BillingAssumptions ==
    /\ Billing!MaxSafeIsNat /\ Billing!CreditsTyped /\ Billing!ReserveTyped
    /\ Billing!ChargeTyped /\ Billing!NoneIsNoValue

(* Whether a message for the saga is on the broker.                        *)
OnBroker(m) ==
    \/ m.type = "order_created"
    \/ \E e \in replies : e.type = m.type /\ e.order = m.order
    \/ \E e \in receipts :
         /\ e.type = m.type /\ e.order = m.order
         /\ m.type = "payment_charged" => e.amount = m.price

SagaHandles ==
    /\ \E m \in Inbound : OnBroker(m) /\ Handle(m)
    /\ UNCHANGED <<stockVars, billingVars>>

InventoryHandles ==
    /\ \/ \E m \in Placed : Stock!Handle(OrderPlaced(m))
       \/ \E e \in events : /\ e.type = "order_cancelled"
                            /\ Stock!Handle(OrderCancelled(e))
    /\ UNCHANGED <<vars, billingVars>>

StockChanges ==
    /\ \/ \E l \in Lots, n \in SeedSizes : Stock!Seed(l, n)
       \/ \E w \in Warehouses : Stock!MarkWarehouseDown(w)
    /\ UNCHANGED <<vars, billingVars>>

CustomerPays == Billing!Next /\ UNCHANGED <<vars, stockVars>>

MeshInit == Init /\ Stock!Init /\ Billing!Init

MeshNext == SagaHandles \/ InventoryHandles \/ StockChanges \/ CustomerPays

MeshSpec == MeshInit /\ [][MeshNext]_meshVars

(* A dispatcher delivers what is on the broker until the answer is neither *)
(* rejected nor publish_failed, and a publish that is repeated often       *)
(* enough succeeds.                                                        *)
Redelivery == WF_meshVars(SagaHandles) /\ WF_meshVars(InventoryHandles)

FairMeshSpec == MeshSpec /\ Redelivery

-----------------------------------------------------------------------------
(* Properties.                                                             *)

CancelledBySaga(o) == Started(o) /\ byOrder[o].status = "cancelled"
HoldsStock(o) == reservation[o] # None /\ reservation[o].status = "reserved"

(* An order announced as completed has its stock held and its price        *)
(* captured, whatever else was announced, repeated or overtaken: no        *)
(* cancellation ever reaches the stock of a completed order.               *)
CompletedIsBacked ==
    \A e \in events : e.type = "order_completed" =>
        /\ HoldsStock(e.order)
        /\ payment[e.order] # None /\ payment[e.order].status = "charged"
        /\ payment[e.order].amount = e.price

(* The saga never throws away an effect as a conflict: a charge or a       *)
(* reservation it was told of is the one it bound or parked, since the     *)
(* other services do one thing per order.                                  *)
EveryEffectCounts ==
    \A m \in Inbound : Handled(m) =>
        LET s == byOrder[m.order]
        IN  /\ m.type = "payment_charged" =>
                 \/ s.payment_id = m.payment_id
                 \/ ParkedIs(s, "charged") /\ s.parked.price = m.price
            /\ m.type = "inventory_reserved" =>
                 s.reservation_id = m.reservation_id

(* The stock a cancelled order holds is asked back by a cancellation that  *)
(* is out or will be published again; so one that asks for nothing back    *)
(* needs no tombstone.                                                     *)
HeldStockIsOwed ==
    \A o \in Orders :
        CancelledBySaga(o) /\ HoldsStock(o) =>
            \/ "release_inventory" \in Announced(o)
            \/ /\ ~byOrder[o].published
               /\ "release_inventory" \in byOrder[o].terminal.compensations

(* A cancelled order gives its stock back, unless seed() has made the lots *)
(* forget it.                                                              *)
StockComesBack ==
    \A o \in Orders : CancelledBySaga(o) ~> (~HoldsStock(o) \/ reseeded)

(* Once payments has answered for an order that was placed, or inventory   *)
(* has refused it, its verdict gets out.                                   *)
Answered(o) ==
    \/ \E e \in receipts : e.order = o
    \/ \E e \in replies : /\ e.order = o
                          /\ e.type = "inventory_reservation_failed"
VerdictGetsOut == \A o \in Orders : Answered(o) ~> Settled(o)
=============================================================================
