------------------------------ MODULE Inventory ------------------------------
(***************************************************************************)
(* The inventory service of src/src/inventory.ts: InventoryService over    *)
(* MemoryInventoryStore.  order_created holds stock for every line of the  *)
(* order or for none and answers with an event; an order_cancelled that    *)
(* asks for release_inventory gives the stock back, or leaves a tombstone  *)
(* when it overtakes the order_created.                                    *)
(*                                                                         *)
(* handle() runs under store.serialize and is one action.  seed() and      *)
(* markWarehouseDown() are plain store calls an operator may make between  *)
(* any two messages.  Messages of Inbound arrive in any order and any      *)
(* number of times, and the publisher may fail, with or without the event  *)
(* having reached the broker.                                              *)
(*                                                                         *)
(* Data abstractions.  An order's aggregated lines are a function from its *)
(* SKUs to quantities, which also stands for the request fingerprint.      *)
(* SKUs and warehouses are numbers: warehouses compare as localeCompare    *)
(* orders their ids, and an order lists its SKUs in increasing order.  The *)
(* reason and the SKUs of a failed reservation are left out.  byMessage is *)
(* not a variable: it holds each record under its own source_message_id,   *)
(* so it finds what byOrder finds, with the same fingerprint.  Ids are     *)
(* fresh uuids and SKU and warehouse ids are not empty, so createEnvelope  *)
(* succeeds.                                                               *)
(*                                                                         *)
(* A definition introduced by "Fault" is a variant of the one after it     *)
(* with a bug; no specification here uses it.                              *)
(***************************************************************************)
EXTENDS Integers, FiniteSets, FiniteSetsExt

CONSTANTS
    Orders,      \* order ids
    MessageIds,  \* message ids of inbound envelopes
    Skus,        \* stock keeping units
    Warehouses,  \* warehouse ids
    Lots,        \* the (sku, warehouse) pairs that may be stocked
    SeedSizes,   \* the on_hand quantities seed() is called with
    Demands,     \* the aggregated lines orders may have
    Inbound,     \* the envelopes the orders service may deliver
    None         \* an undefined value

OrderCreated ==
    [type : {"order_created"}, id : MessageIds, order : Orders,
     demand : Demands]
OrderCancelled ==
    [type : {"order_cancelled"}, id : MessageIds, order : Orders,
     compensations :
       SUBSET {"release_inventory", "refund_payment", "notify_customer"}]

ASSUME SkusAndWarehousesOrdered == Skus \subseteq Nat /\ Warehouses \subseteq Nat
ASSUME LotsTyped == Lots \subseteq Skus \X Warehouses
ASSUME SeedSizesTyped == SeedSizes \subseteq Nat
(* aggregateLines rejects an order with a quantity below 1; the schema one *)
(* without lines.                                                          *)
ASSUME DemandsTyped ==
    \A d \in Demands : /\ DOMAIN d \in (SUBSET Skus) \ {{}}
                       /\ \A k \in DOMAIN d : d[k] \in Nat \ {0}
ASSUME InboundTyped == Inbound \subseteq OrderCreated \cup OrderCancelled
ASSUME UniqueIds == \A m, n \in Inbound : m.id = n.id => m = n

Reply(type, order, cause) == [type |-> type, order |-> order, cause |-> cause]
ReplyEvent ==
    [type : {"inventory_reserved", "inventory_reservation_failed"},
     order : Orders, cause : MessageIds]

VARIABLES
    lots,       \* lot -> [on_hand, reserved], None before it is seeded
    down,       \* warehouses marked down
    byOrder,    \* order -> its RecordRow, None before the first message
    cancelled,  \* orders marked cancelled
    events,     \* replies that reached the broker
    reseeded    \* whether seed() ever replaced a lot that held stock

vars == <<lots, down, byOrder, cancelled, events, reseeded>>

(* items maps the SKUs that hold stock to their warehouse; demand carries  *)
(* the quantities.  A tombstone has no demand, no items and no event.      *)
RecordRow ==
    [status : {"reserved", "released", "failed"},
     demand : Demands \cup {None},
     items : UNION {[S -> Warehouses] : S \in SUBSET Skus},
     source : MessageIds, event : ReplyEvent \cup {None},
     published : BOOLEAN]
StockLot == [on_hand : Nat, reserved : Nat]

ASSUME NoneIsNoRecord ==
    None \notin RecordRow \cup StockLot \cup ReplyEvent \cup Demands

TypeOK ==
    /\ lots \in [Lots -> StockLot \cup {None}]
    /\ down \subseteq Warehouses
    /\ byOrder \in [Orders -> RecordRow \cup {None}]
    /\ cancelled \subseteq Orders
    /\ events \subseteq ReplyEvent
    /\ reseeded \in BOOLEAN

Init ==
    /\ lots = [l \in Lots |-> None]
    /\ down = {}
    /\ byOrder = [o \in Orders |-> None]
    /\ cancelled = {}
    /\ events = {}
    /\ reseeded = FALSE

-----------------------------------------------------------------------------
(* The stock.                                                              *)

Available(l) == lots[l].on_hand - lots[l].reserved

(* Fault: one unit too many fits.                                          *)
CanHoldOffByOne(l, quantity) ==
    /\ lots[l] # None /\ l[2] \notin down
    /\ Available(l) >= quantity - 1

(* hold(): a lot of an available warehouse with enough stock left.         *)
CanHold(l, quantity) ==
    /\ lots[l] # None /\ l[2] \notin down
    /\ Available(l) >= quantity

Holders(sku, quantity) ==
    {w \in Warehouses : <<sku, w>> \in Lots /\ CanHold(<<sku, w>>, quantity)}

(* Fault: the last units of a lot cannot be given back.                    *)
CanUnholdStrict(r, k) ==
    LET l == <<k, r.items[k]>>
    IN  lots[l] # None /\ lots[l].reserved > r.demand[k]

(* unhold() of a line: the lot still carries that many reserved.           *)
CanUnhold(r, k) ==
    LET l == <<k, r.items[k]>>
    IN  lots[l] # None /\ lots[l].reserved >= r.demand[k]

(* The lots after adding sign * quantity for the lines of these SKUs.      *)
Moved(demand, items, skus, sign) ==
    [l \in Lots |->
        IF l[1] \in skus /\ items[l[1]] = l[2]
        THEN [lots[l] EXCEPT !.reserved = @ + sign * demand[l[1]]]
        ELSE lots[l]]

(* seed(): on a lot that is already stocked, this forgets what is reserved.*)
Seed(l, n) ==
    /\ lots' = [lots EXCEPT ![l] = [on_hand |-> n, reserved |-> 0]]
    /\ reseeded' = (reseeded \/ (lots[l] # None /\ lots[l].reserved > 0))
    /\ UNCHANGED <<down, byOrder, cancelled, events>>

MarkWarehouseDown(w) ==
    /\ down' = down \cup {w}
    /\ UNCHANGED <<lots, byOrder, cancelled, events, reseeded>>

-----------------------------------------------------------------------------
(* Publishing.                                                             *)

(* tryPublish of the record's event, stored with the outcome.              *)
TryPublish(o, r) ==
    \E result \in {"ok", "lost", "unconfirmed"} :
        /\ byOrder' = [byOrder EXCEPT ![o] =
                          [r EXCEPT !.published = (result = "ok")]]
        /\ events' = IF result = "lost" THEN events
                                        ELSE events \cup {r.event}

(* Fault: the record's status is not looked at again.                      *)
FinishWhateverStatus(o) ==
    LET r == byOrder[o]
    IN  IF r.event = None \/ r.published THEN UNCHANGED <<byOrder, events>>
                                         ELSE TryPublish(o, r)

(* finishExisting: publish the reply again unless it is known to be out,   *)
(* or the stock has been given back meanwhile.                             *)
FinishExisting(o) ==
    LET r == byOrder[o]
    IN  IF r.status = "released" \/ r.event = None \/ r.published
        THEN UNCHANGED <<byOrder, events>>
        ELSE TryPublish(o, r)

-----------------------------------------------------------------------------
(* reserveLocked.  A different request for a known order is a conflict,    *)
(* one for a tombstone a duplicate, and neither changes anything.  The     *)
(* tombstone branch of reserveLocked is never taken: by                    *)
(* CancelledHoldsNothing, a cancelled order already has a record.          *)

First(m) ==
    /\ m.type = "order_created"
    /\ byOrder[m.order] = None
    /\ m.order \notin cancelled
    /\ UNCHANGED <<down, cancelled, reseeded>>

(* persistOutcome: the record and its event are stored before publishing.  *)
PersistOutcome(m, status, type, items) ==
    TryPublish(m.order,
        [status |-> status, demand |-> m.demand, items |-> items,
         source |-> m.id, event |-> Reply(type, m.order, m.id),
         published |-> FALSE])

(* Every line finds a holder, the first one in warehouse order.            *)
ReserveStock(m) ==
    /\ First(m)
    /\ \A k \in DOMAIN m.demand : Holders(k, m.demand[k]) # {}
    /\ LET items == [k \in DOMAIN m.demand |-> Min(Holders(k, m.demand[k]))]
       IN  /\ lots' = Moved(m.demand, items, DOMAIN items, 1)
           /\ PersistOutcome(m, "reserved", "inventory_reserved", items)

NoLines == [k \in {} |-> 0]

(* Fault: the lines held before the one that failed stay held.             *)
RefuseStockKeepingHolds(m) ==
    /\ First(m)
    /\ \E bad \in DOMAIN m.demand :
         /\ Holders(bad, m.demand[bad]) = {}
         /\ LET items == [k \in {j \in DOMAIN m.demand :
                                   j < bad /\ Holders(j, m.demand[j]) # {}}
                            |-> Min(Holders(k, m.demand[k]))]
            IN  lots' = Moved(m.demand, items, DOMAIN items, 1)
    /\ PersistOutcome(m, "failed", "inventory_reservation_failed", NoLines)

(* A line finds none: the lines held before it are given back at once.     *)
RefuseStock(m) ==
    /\ First(m)
    /\ \E k \in DOMAIN m.demand : Holders(k, m.demand[k]) = {}
    /\ PersistOutcome(m, "failed", "inventory_reservation_failed", NoLines)
    /\ UNCHANGED lots

(* Fault: an unpublished order is reserved afresh on redelivery.           *)
ReserveRetry(m) ==
    /\ m.type = "order_created"
    /\ byOrder[m.order] # None /\ byOrder[m.order].demand = m.demand
    /\ IF ~byOrder[m.order].published
            /\ \A k \in DOMAIN m.demand : Holders(k, m.demand[k]) # {}
       THEN LET items ==
                  [k \in DOMAIN m.demand |-> Min(Holders(k, m.demand[k]))]
            IN  /\ lots' = Moved(m.demand, items, DOMAIN items, 1)
                /\ PersistOutcome(m, "reserved", "inventory_reserved", items)
       ELSE UNCHANGED lots /\ FinishExisting(m.order)
    /\ UNCHANGED <<down, cancelled, reseeded>>

ReserveAgain(m) ==
    /\ m.type = "order_created"
    /\ byOrder[m.order] # None
    /\ byOrder[m.order].demand = m.demand
    /\ FinishExisting(m.order)
    /\ UNCHANGED <<lots, down, cancelled, reseeded>>

-----------------------------------------------------------------------------
(* releaseLocked.  A cancellation that does not ask for release_inventory, *)
(* and one for a record that is already released, change nothing.          *)

AsksRelease(m) ==
    /\ m.type = "order_cancelled"
    /\ "release_inventory" \in m.compensations
    /\ UNCHANGED <<down, reseeded>>

(* Fault: an unknown order is ignored.                                     *)
NoTombstone(m) ==
    /\ AsksRelease(m) /\ byOrder[m.order] = None
    /\ cancelled' = cancelled \cup {m.order}
    /\ UNCHANGED <<lots, byOrder, events>>

(* The order is unknown: it is marked, and its late order_created will     *)
(* find a released record.                                                 *)
Tombstone(m) ==
    /\ AsksRelease(m) /\ byOrder[m.order] = None
    /\ cancelled' = cancelled \cup {m.order}
    /\ byOrder' = [byOrder EXCEPT ![m.order] =
          [status |-> "released", demand |-> None, items |-> NoLines,
           source |-> m.id, event |-> None, published |-> TRUE]]
    /\ UNCHANGED <<lots, events>>

(* Every line can be given back.  A failed reservation has none.           *)
Release(m) ==
    /\ AsksRelease(m) /\ byOrder[m.order] # None
    /\ LET r == byOrder[m.order]
       IN  /\ r.status # "released"
           /\ \A k \in DOMAIN r.items : CanUnhold(r, k)
           /\ lots' = Moved(r.demand, r.items, DOMAIN r.items, -1)
           /\ byOrder' = [byOrder EXCEPT ![m.order].status = "released"]
    /\ cancelled' = cancelled \cup {m.order}
    /\ UNCHANGED events

(* A line's hold is missing: the lines before it have been given back, and *)
(* the record stays reserved.                                              *)
ReleaseFails(m) ==
    /\ AsksRelease(m) /\ byOrder[m.order] # None
    /\ LET r == byOrder[m.order]
       IN  /\ r.status = "reserved"
           /\ \E bad \in DOMAIN r.items :
                LET before == {k \in DOMAIN r.items : k < bad}
                IN  /\ ~CanUnhold(r, bad)
                    /\ \A k \in before : CanUnhold(r, k)
                    /\ lots' = Moved(r.demand, r.items, before, -1)
    /\ UNCHANGED <<byOrder, cancelled, events>>

Handle(m) ==
    \/ ReserveStock(m)
    \/ RefuseStock(m)
    \/ ReserveAgain(m)
    \/ Tombstone(m)
    \/ Release(m)
    \/ ReleaseFails(m)

Next ==
    \/ \E m \in Inbound : Handle(m)
    \/ \E l \in Lots, n \in SeedSizes : Seed(l, n)
    \/ \E w \in Warehouses : MarkWarehouseDown(w)

Spec == Init /\ [][Next]_vars

-----------------------------------------------------------------------------
(* Properties.                                                             *)

HoldsOf(l) ==
    {o \in Orders : /\ byOrder[o] # None /\ byOrder[o].status = "reserved"
                    /\ l[1] \in DOMAIN byOrder[o].items
                    /\ byOrder[o].items[l[1]] = l[2]}
(* The units they hold: to count them is to sum over the orders.           *)
UnitsIn(l) ==
    UNION {{o} \X (1 .. byOrder[o].demand[l[1]]) : o \in HoldsOf(l)}
HeldIn(l) == Cardinality(UnitsIn(l))
ReservedIn(l) == IF lots[l] = None THEN 0 ELSE lots[l].reserved

(* A lot carries exactly what the live reservations hold in it, across     *)
(* failed reservations, releases, tombstones and repeated messages.  Once  *)
(* seed() has replaced a lot that held stock, it still never carries more. *)
StockConserved ==
    \A l \in Lots : /\ ReservedIn(l) <= HeldIn(l)
                    /\ ~reseeded => ReservedIn(l) = HeldIn(l)

(* "on_hand vs reserved, never reserved > on_hand", over all orders.       *)
NeverOversold ==
    \A l \in Lots : lots[l] # None => lots[l].reserved <= lots[l].on_hand

(* A compensated order holds no stock and never will: the late             *)
(* order_created meets a released record.                                  *)
CancelledHoldsNothing ==
    \A o \in cancelled : byOrder[o] # None /\ byOrder[o].status = "released"

(* An order gets one answer, and it is what was done: a published          *)
(* reservation has a holder for every line of the order, and a published   *)
(* failure holds nothing.                                                  *)
AnswerMatchesRecord ==
    /\ \A d, e \in events : d.order = e.order => d = e
    /\ \A e \in events :
         LET r == byOrder[e.order]
         IN  /\ r # None /\ r.event = e
             /\ IF e.type = "inventory_reserved"
                THEN /\ r.status \in {"reserved", "released"}
                     /\ DOMAIN r.items = DOMAIN r.demand
                ELSE /\ r.status \in {"failed", "released"}
                     /\ r.items = NoLines

(* A reply that reaches the broker is never about a reservation that has   *)
(* been released, however late it is published again.                      *)
NoStaleReply ==
    [][\A e \in events' \ events : byOrder'[e.order].status # "released"]_vars

(* A record only ever moves to released, and keeps the lines it holds.     *)
RecordLifecycle ==
    [][\A o \in Orders : byOrder[o] # None =>
         LET r == byOrder[o]
             q == byOrder'[o]
         IN  /\ q.status # r.status => q.status = "released"
             /\ q.items = r.items /\ q.demand = r.demand
             /\ q.event = r.event]_vars
=============================================================================
