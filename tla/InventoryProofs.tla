--------------------------- MODULE InventoryProofs ---------------------------
(***************************************************************************)
(* Proofs about Inventory for every set of orders, lots, demands and       *)
(* messages.  The inductive invariant adds to the checked properties what  *)
(* a record implies about its lines and its event (RecordsSound), what a   *)
(* published event implies about its record (EventsSound), and that what   *)
(* is held can be counted (HoldsFinite).                                   *)
(***************************************************************************)
EXTENDS Inventory, FiniteSetTheorems, WellFoundedInduction, TLAPS

(* A nonempty set of numbers has a least one: the warehouse hold() takes.  *)
LEMMA MinIsLeast ==
    ASSUME NEW S \in SUBSET Nat, S # {}
    PROVE  Min(S) \in S /\ \A y \in S : Min(S) <= y
<1>1. PICK x \in S : \A y \in S : ~(<<y, x>> \in OpToRel(<, Nat))
  BY NatLessThanWellFounded, WFMin
<1>2. OpToRel(<, Nat) = {ss \in Nat \X Nat : ss[1] < ss[2]}
  BY Zenon DEF OpToRel
<1>3. \A y \in S : x <= y
  <2>1. SUFFICES ASSUME NEW y \in S PROVE x <= y
    OBVIOUS
  <2>2. ~(<<y, x>> \in {ss \in Nat \X Nat : ss[1] < ss[2]})
    BY <1>1, <1>2
  <2> QED
    BY <2>2
<1> QED
  BY <1>3 DEF Min

-----------------------------------------------------------------------------
(* The inductive invariant.                                                *)

(* What the record of order o implies: it holds stock for no line or for   *)
(* every line of its order, and its event says which.                      *)
RecordSound(o, r) ==
    /\ r.items = NoLines \/ (r.demand # None /\ DOMAIN r.items = DOMAIN r.demand)
    /\ \A k \in DOMAIN r.items : <<k, r.items[k]>> \in Lots
    /\ r.status = "failed" => r.items = NoLines
    /\ r.event # None =>
         /\ r.event.order = o
         /\ IF r.event.type = "inventory_reserved"
            THEN r.status # "failed" /\ DOMAIN r.items = DOMAIN r.demand
            ELSE r.status # "reserved" /\ r.items = NoLines

RecordsSound ==
    \A o \in Orders : byOrder[o] # None => RecordSound(o, byOrder[o])

EventsSound ==
    \A e \in events : byOrder[e.order] # None /\ byOrder[e.order].event = e

(* Finitely many units are held in a lot, so that they can be counted.     *)
HoldsFinite == \A l \in Lots : IsFiniteSet(UnitsIn(l))

IInv ==
    /\ TypeOK
    /\ NeverOversold
    /\ HoldsFinite
    /\ StockConserved
    /\ CancelledHoldsNothing
    /\ RecordsSound
    /\ EventsSound

-----------------------------------------------------------------------------
(* Records.                                                                *)

(* A record without lines and one with all lines have well-typed items.    *)
LEMMA NoLinesTyped == NoLines \in UNION {[S -> Warehouses] : S \in SUBSET Skus}
<1>1. NoLines \in [{} -> Warehouses]
  BY DEF NoLines
<1> QED
  BY <1>1

LEMMA ItemsTyped ==
    ASSUME NEW d \in Demands, NEW items \in [DOMAIN d -> Warehouses]
    PROVE  items \in UNION {[S -> Warehouses] : S \in SUBSET Skus}
<1>1. DOMAIN d \in SUBSET Skus
  BY DemandsTyped
<1> QED
  BY <1>1

(* Publishing a sound record of an order that had none, or the same event, *)
(* keeps records and events sound.                                         *)
LEMMA TryPublishSound ==
    ASSUME TypeOK, RecordsSound, EventsSound,
           NEW o \in Orders, NEW r \in RecordRow,
           r.event # None, RecordSound(o, r),
           byOrder[o] # None => byOrder[o].event = r.event,
           TryPublish(o, r)
    PROVE  /\ byOrder' \in [Orders -> RecordRow \cup {None}]
           /\ events' \subseteq ReplyEvent
           /\ RecordsSound'
           /\ EventsSound'
           /\ \A p \in Orders \ {o} : byOrder'[p] = byOrder[p]
           /\ byOrder'[o] # None /\ byOrder'[o].status = r.status
           /\ byOrder'[o].items = r.items /\ byOrder'[o].demand = r.demand
           /\ byOrder'[o].event = r.event
           /\ events' \subseteq events \cup {r.event}
<1>1. PICK b \in BOOLEAN :
         /\ byOrder' = [byOrder EXCEPT ![o] = [r EXCEPT !.published = b]]
         /\ events' \subseteq events \cup {r.event}
  BY DEF TryPublish
<1> DEFINE q == [r EXCEPT !.published = b]
<1>2. q \in RecordRow /\ q # None
  <2>1. q \in RecordRow
    BY DEF RecordRow
  <2> QED
    BY <2>1, NoneIsNoRecord
<1>3. /\ q.status = r.status /\ q.items = r.items /\ q.demand = r.demand
      /\ q.event = r.event
  BY DEF RecordRow
<1>4. RecordSound(o, q)
  BY <1>3 DEF RecordSound
<1> HIDE DEF q
<1>5. byOrder' = [byOrder EXCEPT ![o] = q]
  BY <1>1 DEF q
<1>6. byOrder \in [Orders -> RecordRow \cup {None}]
  BY DEF TypeOK
<1>7. byOrder'[o] = q /\ \A p \in Orders \ {o} : byOrder'[p] = byOrder[p]
  BY <1>5, <1>6
<1>8. byOrder' \in [Orders -> RecordRow \cup {None}]
  BY <1>2, <1>5, <1>6
<1>9. r.event \in ReplyEvent /\ r.event.order = o
  BY DEF RecordRow, RecordSound
<1>10. events' \subseteq ReplyEvent
  BY <1>1, <1>9 DEF TypeOK
<1>11. RecordsSound'
  <2>1. SUFFICES ASSUME NEW p \in Orders, byOrder'[p] # None
                 PROVE  RecordSound(p, byOrder'[p])
    BY DEF RecordsSound, RecordSound
  <2>2. CASE p = o
    BY <1>4, <1>7, <2>2, Zenon
  <2>3. CASE p # o
    BY <1>7, <2>1, <2>3, Zenon DEF RecordsSound
  <2> QED
    BY <2>2, <2>3
<1>12. EventsSound'
  <2>1. SUFFICES ASSUME NEW e \in events'
                 PROVE  byOrder'[e.order] # None /\ byOrder'[e.order].event = e
    BY DEF EventsSound
  <2>2. e.order \in Orders
    BY <1>10 DEF ReplyEvent
  <2>3. CASE e = r.event
    BY <1>2, <1>3, <1>7, <1>9, <2>3
  <2>4. CASE e \in events
    BY <1>2, <1>3, <1>7, <2>2, <2>4 DEF EventsSound
  <2> QED
    BY <1>1, <2>3, <2>4
<1> QED
  BY <1>1, <1>2, <1>3, <1>7, <1>8, <1>10, <1>11, <1>12

(* finishExisting keeps records and events sound; only the published flag  *)
(* of the record may change, and a new event is that of an unreleased      *)
(* record.                                                                 *)
LEMMA FinishExistingSound ==
    ASSUME TypeOK, RecordsSound, EventsSound,
           NEW o \in Orders, byOrder[o] # None, FinishExisting(o)
    PROVE  /\ byOrder' \in [Orders -> RecordRow \cup {None}]
           /\ events' \subseteq ReplyEvent
           /\ RecordsSound'
           /\ EventsSound'
           /\ \A p \in Orders \ {o} : byOrder'[p] = byOrder[p]
           /\ byOrder'[o] # None
           /\ byOrder'[o].status = byOrder[o].status
           /\ byOrder'[o].items = byOrder[o].items
           /\ byOrder'[o].demand = byOrder[o].demand
           /\ byOrder'[o].event = byOrder[o].event
           /\ events' \subseteq events
                \/ /\ byOrder[o].status # "released"
                   /\ events' \subseteq events \cup {byOrder[o].event}
<1> DEFINE r == byOrder[o]
<1>1. CASE UNCHANGED <<byOrder, events>>
  BY <1>1 DEF TypeOK, RecordsSound, RecordSound, EventsSound
<1>2. CASE r.status # "released" /\ r.event # None /\ TryPublish(o, r)
  <2>1. r \in RecordRow
    BY DEF TypeOK
  <2>2. RecordSound(o, r)
    BY DEF RecordsSound
  <2> QED
    BY <1>2, <2>1, <2>2, TryPublishSound
<1> QED
  BY <1>1, <1>2 DEF FinishExisting

-----------------------------------------------------------------------------
(* What live reservations hold.                                            *)

(* How many units of lot l a record holds.                                 *)
Quantity(r, l) ==
    IF /\ r # None /\ r.status = "reserved"
       /\ l[1] \in DOMAIN r.items /\ r.items[l[1]] = l[2]
    THEN r.demand[l[1]] ELSE 0

(* The units of UnitsIn(l) that the orders of O hold under the records b.  *)
Units(b, O, l) == UNION {{o} \X (1 .. Quantity(b[o], l)) : o \in O}

LEMMA UnitsInIsUnits ==
    ASSUME NEW l
    PROVE  /\ UnitsIn(l) = Units(byOrder, Orders, l)
           /\ UnitsIn(l)' = Units(byOrder', Orders, l)
<1>1. UnitsIn(l) \subseteq Units(byOrder, Orders, l)
  BY DEF UnitsIn, Units, HoldsOf, Quantity
<1>2. Units(byOrder, Orders, l) \subseteq UnitsIn(l)
  <2>1. SUFFICES ASSUME NEW o \in Orders, NEW u \in {o} \X (1 .. Quantity(byOrder[o], l))
                 PROVE  u \in UnitsIn(l)
    BY DEF Units
  <2>2. o \in HoldsOf(l) /\ Quantity(byOrder[o], l) = byOrder[o].demand[l[1]]
    BY <2>1 DEF HoldsOf, Quantity
  <2> QED
    BY <2>1, <2>2 DEF UnitsIn
<1>3. UnitsIn(l)' \subseteq Units(byOrder', Orders, l)
  BY DEF UnitsIn, Units, HoldsOf, Quantity
<1>4. Units(byOrder', Orders, l) \subseteq UnitsIn(l)'
  <2>1. SUFFICES ASSUME NEW o \in Orders, NEW u \in {o} \X (1 .. Quantity(byOrder'[o], l))
                 PROVE  u \in UnitsIn(l)'
    BY DEF Units
  <2>2. o \in HoldsOf(l)' /\ Quantity(byOrder'[o], l) = byOrder'[o].demand[l[1]]
    BY <2>1 DEF HoldsOf, Quantity
  <2> QED
    BY <2>1, <2>2 DEF UnitsIn
<1> QED
  BY <1>1, <1>2, <1>3, <1>4

(* The units of a lot are those of one order and those of the others.      *)
LEMMA UnitsSplit ==
    ASSUME NEW b, NEW o \in Orders, NEW l, Quantity(b[o], l) \in Nat,
           IsFiniteSet(Units(b, Orders \ {o}, l))
    PROVE  /\ IsFiniteSet(Units(b, Orders, l))
           /\ Cardinality(Units(b, Orders \ {o}, l)) \in Nat
           /\ Cardinality(Units(b, Orders, l))
                = Cardinality(Units(b, Orders \ {o}, l)) + Quantity(b[o], l)
<1> DEFINE own == {o} \X (1 .. Quantity(b[o], l))
           rest == Units(b, Orders \ {o}, l)
<1>1. Units(b, Orders, l) = rest \cup own
  BY DEF Units
<1>2. rest \cap own = {}
  BY DEF Units
<1>3. IsFiniteSet(own) /\ Cardinality(own) = Quantity(b[o], l)
  <2>1. /\ IsFiniteSet(1 .. Quantity(b[o], l))
        /\ Cardinality(1 .. Quantity(b[o], l)) = Quantity(b[o], l)
    BY FS_Interval
  <2>2. IsFiniteSet({o}) /\ Cardinality({o}) = 1
    BY FS_Singleton
  <2>3. /\ IsFiniteSet(own)
        /\ Cardinality(own) = 1 * Quantity(b[o], l)
    BY <2>1, <2>2, FS_Product
  <2> QED
    BY <2>3
<1> HIDE DEF own, rest
<1>4. /\ IsFiniteSet(rest \cup own) /\ Cardinality(rest) \in Nat
      /\ Cardinality(rest \cup own)
           = Cardinality(rest) + Cardinality(own) - Cardinality(rest \cap own)
  BY <1>3, FS_Union, FS_CardinalityType DEF rest
<1>5. Cardinality(rest \cap own) = 0
  BY <1>2, FS_EmptySet
<1> QED
  BY <1>1, <1>3, <1>4, <1>5 DEF rest

LEMMA QuantityIsNat ==
    ASSUME NEW o, NEW r \in RecordRow \cup {None}, r # None => RecordSound(o, r),
           NEW l
    PROVE  Quantity(r, l) \in Nat
<1>1. CASE /\ r # None /\ r.status = "reserved" /\ l[1] \in DOMAIN r.items
  <2>1. r.items # NoLines
    BY <1>1 DEF NoLines
  <2>2. r.demand \in Demands /\ l[1] \in DOMAIN r.demand
    BY <1>1, <2>1 DEF RecordSound, RecordRow
  <2>3. r.demand[l[1]] \in Nat
    BY <2>2, DemandsTyped
  <2> QED
    BY <2>3 DEF Quantity
<1> QED
  BY <1>1 DEF Quantity

(* When only the record of o changes, so does what is held, by what the    *)
(* record holds.                                                           *)
LEMMA OneRecordCounts ==
    ASSUME TypeOK, RecordsSound, HoldsFinite,
           TypeOK', RecordsSound',
           NEW o \in Orders, \A p \in Orders \ {o} : byOrder'[p] = byOrder[p],
           NEW l \in Lots
    PROVE  /\ IsFiniteSet(UnitsIn(l))'
           /\ HeldIn(l) \in Nat /\ HeldIn(l)' \in Nat
           /\ Quantity(byOrder[o], l) \in 0 .. HeldIn(l)
           /\ Quantity(byOrder'[o], l) \in Nat
           /\ HeldIn(l)' = HeldIn(l) + Quantity(byOrder'[o], l)
                                    - Quantity(byOrder[o], l)
<1> DEFINE others == Units(byOrder, Orders \ {o}, l)
<1>1. Quantity(byOrder[o], l) \in Nat
  BY QuantityIsNat DEF TypeOK, RecordsSound
<1>2. Quantity(byOrder'[o], l) \in Nat
  <2>1. /\ byOrder'[o] \in RecordRow \cup {None}
        /\ byOrder'[o] # None => RecordSound(o, byOrder'[o])
    BY DEF TypeOK, RecordsSound, RecordSound
  <2> QED
    BY <2>1, QuantityIsNat
<1>3. others = Units(byOrder', Orders \ {o}, l)
  BY DEF Units
<1>4. IsFiniteSet(others)
  <2>1. others \subseteq UnitsIn(l)
    BY UnitsInIsUnits DEF Units
  <2> QED
    BY <2>1, FS_Subset DEF HoldsFinite
<1>5. /\ Cardinality(others) \in Nat
      /\ HeldIn(l) = Cardinality(others) + Quantity(byOrder[o], l)
  BY <1>1, <1>4, UnitsSplit, UnitsInIsUnits DEF HeldIn
<1>6. /\ IsFiniteSet(UnitsIn(l)')
      /\ Cardinality(UnitsIn(l)') = Cardinality(others) + Quantity(byOrder'[o], l)
  BY <1>2, <1>3, <1>4, UnitsSplit, UnitsInIsUnits
<1>7. HeldIn(l)' = Cardinality(UnitsIn(l)')
  BY DEF HeldIn
<1> HIDE DEF others
<1> QED
  BY <1>1, <1>2, <1>5, <1>6, <1>7

-----------------------------------------------------------------------------
(* Stock.                                                                  *)

(* Holding every line of an order in lots that can hold it oversells none. *)
LEMMA HoldingKeepsStock ==
    ASSUME TypeOK, NeverOversold,
           NEW d \in Demands, NEW items \in [DOMAIN d -> Warehouses],
           \A k \in DOMAIN d : /\ <<k, items[k]>> \in Lots
                               /\ CanHold(<<k, items[k]>>, d[k]),
           lots' = Moved(d, items, DOMAIN items, 1)
    PROVE  lots' \in [Lots -> StockLot \cup {None}] /\ NeverOversold'
<1>1. SUFFICES ASSUME NEW l \in Lots
               PROVE  /\ lots'[l] \in StockLot \cup {None}
                      /\ lots'[l] # None =>
                           lots'[l].reserved <= lots'[l].on_hand
  BY DEF Moved, NeverOversold
<1>2. lots[l] \in StockLot \cup {None} /\ l = <<l[1], l[2]>>
  BY LotsTyped DEF TypeOK
<1>3. CASE l[1] \in DOMAIN items /\ items[l[1]] = l[2]
  <2>1. CanHold(l, d[l[1]]) /\ d[l[1]] \in Nat
    BY <1>2, <1>3, DemandsTyped
  <2>2. /\ lots[l] \in StockLot
        /\ lots[l].reserved + d[l[1]] <= lots[l].on_hand
    BY <1>2, <2>1 DEF CanHold, Available, StockLot
  <2>3. lots'[l] = [lots[l] EXCEPT !.reserved = @ + 1 * d[l[1]]]
    BY <1>3 DEF Moved
  <2> QED
    BY <2>1, <2>2, <2>3 DEF StockLot
<1>4. CASE ~(l[1] \in DOMAIN items /\ items[l[1]] = l[2])
  BY <1>2, <1>4 DEF Moved, NeverOversold
<1> QED
  BY <1>3, <1>4

(* Giving back lines that are still reserved oversells none.               *)
LEMMA UnholdingKeepsStock ==
    ASSUME TypeOK, NeverOversold, RecordsSound,
           NEW o \in Orders, byOrder[o] # None,
           NEW skus \in SUBSET DOMAIN byOrder[o].items,
           \A k \in skus : CanUnhold(byOrder[o], k),
           lots' = Moved(byOrder[o].demand, byOrder[o].items, skus, -1)
    PROVE  lots' \in [Lots -> StockLot \cup {None}] /\ NeverOversold'
<1> DEFINE r == byOrder[o]
<1>1. SUFFICES ASSUME NEW l \in Lots
               PROVE  /\ lots'[l] \in StockLot \cup {None}
                      /\ lots'[l] # None =>
                           lots'[l].reserved <= lots'[l].on_hand
  BY DEF Moved, NeverOversold
<1>2. lots[l] \in StockLot \cup {None} /\ l = <<l[1], l[2]>>
  BY LotsTyped DEF TypeOK
<1>3. CASE l[1] \in skus /\ r.items[l[1]] = l[2]
  <2>1. r \in RecordRow /\ RecordSound(o, r)
    BY DEF TypeOK, RecordsSound
  <2>2. r.items # NoLines
    BY <1>3 DEF NoLines
  <2>3. r.demand \in Demands /\ l[1] \in DOMAIN r.demand
    BY <1>3, <2>1, <2>2 DEF RecordRow, RecordSound
  <2>4. r.demand[l[1]] \in Nat
    BY <2>3, DemandsTyped
  <2>5. /\ lots[l] \in StockLot
        /\ r.demand[l[1]] <= lots[l].reserved
    BY <1>2, <1>3 DEF CanUnhold
  <2>6. lots'[l] = [lots[l] EXCEPT !.reserved = @ + (-1) * r.demand[l[1]]]
    BY <1>3 DEF Moved
  <2>7. lots[l].reserved <= lots[l].on_hand
    BY <2>5, NoneIsNoRecord DEF NeverOversold
  <2> HIDE DEF r
  <2> QED
    BY <2>4, <2>5, <2>6, <2>7 DEF StockLot
<1>4. CASE ~(l[1] \in skus /\ r.items[l[1]] = l[2])
  BY <1>2, <1>4 DEF Moved, NeverOversold
<1> QED
  BY <1>3, <1>4

(* A lot that moves by what the record of o starts or stops to hold still  *)
(* carries what is held in it.                                             *)
LEMMA StockFollowsRecord ==
    ASSUME IInv, TypeOK', RecordsSound',
           NEW o \in Orders, \A p \in Orders \ {o} : byOrder'[p] = byOrder[p],
           \A l \in Lots : ReservedIn(l)' = ReservedIn(l)
               + Quantity(byOrder'[o], l) - Quantity(byOrder[o], l),
           UNCHANGED reseeded
    PROVE  HoldsFinite' /\ StockConserved'
<1>1. ASSUME NEW l \in Lots
      PROVE  /\ IsFiniteSet(UnitsIn(l))'
             /\ (ReservedIn(l) <= HeldIn(l))'
             /\ ~reseeded => (ReservedIn(l) = HeldIn(l))'
  <2>1. ReservedIn(l) \in Nat
    BY DEF IInv, TypeOK, ReservedIn, StockLot
  <2>2. /\ IsFiniteSet(UnitsIn(l))'
        /\ HeldIn(l) \in Nat /\ HeldIn(l)' \in Nat
        /\ Quantity(byOrder[o], l) \in 0 .. HeldIn(l)
        /\ Quantity(byOrder'[o], l) \in Nat
        /\ HeldIn(l)' = HeldIn(l) + Quantity(byOrder'[o], l)
                                 - Quantity(byOrder[o], l)
    BY OneRecordCounts DEF IInv
  <2>3. /\ ReservedIn(l) <= HeldIn(l)
        /\ ~reseeded => ReservedIn(l) = HeldIn(l)
    BY DEF IInv, StockConserved
  <2>4. ReservedIn(l)' = ReservedIn(l)
               + Quantity(byOrder'[o], l) - Quantity(byOrder[o], l)
    OBVIOUS
  <2> QED
    BY <2>1, <2>2, <2>3, <2>4
<1> QED
  BY <1>1 DEF HoldsFinite, StockConserved

(* A record that holds the same lines of the same order holds the same.    *)
LEMMA SameRecordHoldsSame ==
    ASSUME IInv, TypeOK', RecordsSound',
           NEW o \in Orders, \A p \in Orders \ {o} : byOrder'[p] = byOrder[p],
           \A l \in Lots : Quantity(byOrder'[o], l) = Quantity(byOrder[o], l),
           UNCHANGED <<lots, reseeded>>
    PROVE  HoldsFinite' /\ StockConserved'
<1>1. ASSUME NEW l \in Lots
      PROVE  ReservedIn(l)' = ReservedIn(l)
               + Quantity(byOrder'[o], l) - Quantity(byOrder[o], l)
  <2>1. ReservedIn(l)' = ReservedIn(l) /\ ReservedIn(l) \in Nat
    BY DEF IInv, TypeOK, ReservedIn, StockLot
  <2>2. Quantity(byOrder[o], l) \in Nat
    BY QuantityIsNat DEF IInv, TypeOK, RecordsSound
  <2> QED
    BY <2>1, <2>2
<1> QED
  BY <1>1, StockFollowsRecord

(* The stock may move or be seeded, when the records do not.               *)
LEMMA SameRecordsHoldSame ==
    ASSUME IInv, UNCHANGED byOrder, NEW l \in Lots
    PROVE  /\ UnitsIn(l)' = UnitsIn(l) /\ IsFiniteSet(UnitsIn(l)')
           /\ HeldIn(l)' = HeldIn(l) /\ HeldIn(l) \in Nat
<1>1. UnitsIn(l)' = UnitsIn(l)
  BY DEF UnitsIn, HoldsOf
<1>2. IsFiniteSet(UnitsIn(l))
  BY DEF IInv, HoldsFinite
<1> QED
  BY <1>1, <1>2, FS_CardinalityType DEF HeldIn

-----------------------------------------------------------------------------
(* Every step keeps the invariant.                                         *)

LEMMA ReserveStockKeeps ==
    ASSUME IInv, NEW m \in Inbound, ReserveStock(m)
    PROVE  IInv'
<1> USE DEF IInv
<1>1. m \in OrderCreated /\ byOrder[m.order] = None /\ m.order \notin cancelled
  BY InboundTyped DEF ReserveStock, First, OrderCreated, OrderCancelled
<1> DEFINE d == m.demand
           items == [k \in DOMAIN d |-> Min(Holders(k, d[k]))]
           r == [status |-> "reserved", demand |-> d, items |-> items,
                 source |-> m.id,
                 event |-> Reply("inventory_reserved", m.order, m.id),
                 published |-> FALSE]
<1>2. d \in Demands
  BY <1>1 DEF OrderCreated
<1>3. ASSUME NEW k \in DOMAIN d
      PROVE  items[k] \in Holders(k, d[k])
  <2>1. Holders(k, d[k]) # {} /\ Holders(k, d[k]) \subseteq Nat
    BY SkusAndWarehousesOrdered DEF ReserveStock, Holders
  <2> QED
    BY <2>1, MinIsLeast
<1>4. items \in [DOMAIN d -> Warehouses]
  BY <1>3 DEF Holders
<1>5. \A k \in DOMAIN d : /\ <<k, items[k]>> \in Lots
                          /\ CanHold(<<k, items[k]>>, d[k])
  BY <1>3 DEF Holders
<1>6. lots' = Moved(d, items, DOMAIN items, 1) /\ TryPublish(m.order, r)
  BY DEF ReserveStock, PersistOutcome
<1>7. r.event \in ReplyEvent
  BY <1>1 DEF Reply, ReplyEvent, OrderCreated
<1> HIDE DEF items
<1>8. r \in RecordRow
  BY <1>1, <1>2, <1>4, <1>7, ItemsTyped DEF RecordRow, OrderCreated
<1>9. r.event # None /\ RecordSound(m.order, r)
  BY <1>2, <1>4, <1>5, <1>7, NoneIsNoRecord DEF RecordSound, Reply
<1>10. m.order \in Orders
  BY <1>1 DEF OrderCreated
<1> HIDE DEF r
<1>11. /\ byOrder' \in [Orders -> RecordRow \cup {None}]
       /\ events' \subseteq ReplyEvent
       /\ RecordsSound' /\ EventsSound'
       /\ \A p \in Orders \ {m.order} : byOrder'[p] = byOrder[p]
       /\ byOrder'[m.order] # None /\ byOrder'[m.order].status = r.status
       /\ byOrder'[m.order].items = r.items
       /\ byOrder'[m.order].demand = r.demand
  BY <1>1, <1>6, <1>8, <1>9, <1>10, TryPublishSound
<1>12. lots' \in [Lots -> StockLot \cup {None}] /\ NeverOversold'
  BY <1>2, <1>4, <1>5, <1>6, HoldingKeepsStock
<1>13. UNCHANGED <<down, cancelled, reseeded>>
  BY DEF ReserveStock, First
<1>14. TypeOK'
  BY <1>11, <1>12, <1>13 DEF TypeOK
<1>15. CancelledHoldsNothing'
  BY <1>1, <1>11, <1>13 DEF CancelledHoldsNothing, TypeOK
<1>16. ASSUME NEW l \in Lots
       PROVE  ReservedIn(l)' = ReservedIn(l)
                + Quantity(byOrder'[m.order], l) - Quantity(byOrder[m.order], l)
  <2>1. Quantity(byOrder[m.order], l) = 0
    BY <1>1 DEF Quantity
  <2>2. byOrder'[m.order].status = "reserved"
        /\ byOrder'[m.order].items = items /\ byOrder'[m.order].demand = d
    BY <1>11 DEF r
  <2>3. lots[l] \in StockLot \cup {None} /\ l = <<l[1], l[2]>>
    BY LotsTyped DEF TypeOK
  <2>4. CASE l[1] \in DOMAIN items /\ items[l[1]] = l[2]
    <3>1. CanHold(l, d[l[1]]) /\ d[l[1]] \in Nat
      BY <1>2, <1>4, <1>5, <2>3, <2>4, DemandsTyped
    <3>2. lots[l] \in StockLot /\ lots[l] # None
      BY <2>3, <3>1 DEF CanHold
    <3>3. lots'[l] = [lots[l] EXCEPT !.reserved = @ + 1 * d[l[1]]]
      BY <1>6, <2>4 DEF Moved
    <3>4. lots'[l] # None
      BY <1>12, <3>1, <3>2, <3>3, NoneIsNoRecord DEF StockLot
    <3>5. Quantity(byOrder'[m.order], l) = d[l[1]]
      BY <1>11, <2>2, <2>4 DEF Quantity
    <3> QED
      BY <2>1, <3>1, <3>2, <3>3, <3>4, <3>5 DEF ReservedIn, StockLot
  <2>5. CASE ~(l[1] \in DOMAIN items /\ items[l[1]] = l[2])
    <3>1. lots'[l] = lots[l]
      BY <1>6, <2>5 DEF Moved
    <3>2. Quantity(byOrder'[m.order], l) = 0
      BY <2>2, <2>5 DEF Quantity
    <3> QED
      BY <2>1, <2>3, <3>1, <3>2 DEF ReservedIn, StockLot
  <2> QED
    BY <2>4, <2>5
<1>17. HoldsFinite' /\ StockConserved'
  BY <1>10, <1>11, <1>13, <1>14, <1>16, StockFollowsRecord
<1> QED
  BY <1>11, <1>12, <1>14, <1>15, <1>17

LEMMA RefuseStockKeeps ==
    ASSUME IInv, NEW m \in Inbound, RefuseStock(m)
    PROVE  IInv'
<1> USE DEF IInv
<1>1. m \in OrderCreated /\ byOrder[m.order] = None /\ m.order \notin cancelled
  BY InboundTyped DEF RefuseStock, First, OrderCreated, OrderCancelled
<1> DEFINE r == [status |-> "failed", demand |-> m.demand, items |-> NoLines,
                 source |-> m.id,
                 event |-> Reply("inventory_reservation_failed", m.order, m.id),
                 published |-> FALSE]
<1>2. TryPublish(m.order, r)
  BY DEF RefuseStock, PersistOutcome
<1>3. r.event \in ReplyEvent
  BY <1>1 DEF Reply, ReplyEvent, OrderCreated
<1>4. r \in RecordRow
  BY <1>1, <1>3, NoLinesTyped DEF RecordRow, OrderCreated
<1>5. r.event # None /\ RecordSound(m.order, r)
  BY <1>3, NoneIsNoRecord DEF RecordSound, Reply, NoLines
<1>6. m.order \in Orders
  BY <1>1 DEF OrderCreated
<1> HIDE DEF r
<1>7. /\ byOrder' \in [Orders -> RecordRow \cup {None}]
      /\ events' \subseteq ReplyEvent
      /\ RecordsSound' /\ EventsSound'
      /\ \A p \in Orders \ {m.order} : byOrder'[p] = byOrder[p]
      /\ byOrder'[m.order].status = r.status
  BY <1>1, <1>2, <1>4, <1>5, <1>6, TryPublishSound
<1>8. UNCHANGED <<lots, down, cancelled, reseeded>>
  BY DEF RefuseStock, First
<1>9. TypeOK' /\ NeverOversold'
  BY <1>7, <1>8 DEF TypeOK, NeverOversold
<1>10. CancelledHoldsNothing'
  BY <1>1, <1>7, <1>8 DEF CancelledHoldsNothing, TypeOK
<1>11. HoldsFinite' /\ StockConserved'
  <2>1. byOrder'[m.order].status = "failed"
    BY <1>7 DEF r
  <2>2. \A l \in Lots : Quantity(byOrder'[m.order], l)
                        = Quantity(byOrder[m.order], l)
    BY <1>1, <2>1 DEF Quantity
  <2> QED
    BY <1>6, <1>7, <1>8, <1>9, <2>2, SameRecordHoldsSame
<1> QED
  BY <1>7, <1>9, <1>10, <1>11

LEMMA ReserveAgainKeeps ==
    ASSUME IInv, NEW m \in Inbound, ReserveAgain(m)
    PROVE  IInv'
<1> USE DEF IInv
<1>1. m.order \in Orders /\ byOrder[m.order] # None /\ FinishExisting(m.order)
  BY InboundTyped DEF ReserveAgain, OrderCreated, OrderCancelled
<1>2. /\ byOrder' \in [Orders -> RecordRow \cup {None}]
      /\ events' \subseteq ReplyEvent
      /\ RecordsSound' /\ EventsSound'
      /\ \A p \in Orders \ {m.order} : byOrder'[p] = byOrder[p]
      /\ byOrder'[m.order] # None
      /\ byOrder'[m.order].status = byOrder[m.order].status
      /\ byOrder'[m.order].items = byOrder[m.order].items
      /\ byOrder'[m.order].demand = byOrder[m.order].demand
  BY <1>1, FinishExistingSound
<1>3. UNCHANGED <<lots, down, cancelled, reseeded>>
  BY DEF ReserveAgain
<1>4. TypeOK' /\ NeverOversold'
  BY <1>2, <1>3 DEF TypeOK, NeverOversold
<1>5. CancelledHoldsNothing'
  BY <1>1, <1>2, <1>3 DEF CancelledHoldsNothing, TypeOK
<1>6. HoldsFinite' /\ StockConserved'
  <2>1. \A l \in Lots : Quantity(byOrder'[m.order], l)
                        = Quantity(byOrder[m.order], l)
    BY <1>1, <1>2 DEF Quantity
  <2> QED
    BY <1>1, <1>2, <1>3, <1>4, <2>1, SameRecordHoldsSame
<1> QED
  BY <1>2, <1>4, <1>5, <1>6

LEMMA TombstoneKeeps ==
    ASSUME IInv, NEW m \in Inbound, Tombstone(m)
    PROVE  IInv'
<1> USE DEF IInv
<1> DEFINE o == m.order
           t == [status |-> "released", demand |-> None, items |-> NoLines,
                 source |-> m.id, event |-> None, published |-> TRUE]
<1>1. m \in OrderCancelled /\ byOrder[o] = None
  BY InboundTyped DEF Tombstone, AsksRelease, OrderCreated, OrderCancelled
<1>2. /\ byOrder' = [byOrder EXCEPT ![o] = t]
      /\ cancelled' = cancelled \cup {o}
      /\ UNCHANGED <<lots, down, events, reseeded>>
  BY DEF Tombstone, AsksRelease
<1>3. o \in Orders
  BY <1>1 DEF OrderCancelled
<1>4. t \in RecordRow
  BY <1>1, NoLinesTyped DEF RecordRow, OrderCancelled
<1>5. t # None /\ t.status = "released" /\ RecordSound(o, t)
  BY <1>4, NoneIsNoRecord DEF RecordSound, NoLines
<1> HIDE DEF t, o
<1>6. byOrder'[o] = t /\ \A p \in Orders \ {o} : byOrder'[p] = byOrder[p]
  BY <1>2, <1>3 DEF TypeOK
<1>7. TypeOK' /\ NeverOversold'
  BY <1>2, <1>3, <1>4 DEF TypeOK, NeverOversold
<1>8. CancelledHoldsNothing'
  BY <1>2, <1>5, <1>6 DEF CancelledHoldsNothing, TypeOK
<1>9. RecordsSound'
  <2>1. SUFFICES ASSUME NEW p \in Orders, byOrder'[p] # None
                 PROVE  RecordSound(p, byOrder'[p])
    BY DEF RecordsSound, RecordSound
  <2>2. CASE p = o
    BY <1>5, <1>6, <2>2, Zenon
  <2>3. CASE p # o
    BY <1>6, <2>1, <2>3, Zenon DEF RecordsSound
  <2> QED
    BY <2>2, <2>3
<1>10. EventsSound'
  <2>1. \A e \in events : e.order \in Orders /\ e.order # o
    BY <1>1 DEF EventsSound, TypeOK, ReplyEvent, o
  <2> QED
    BY <1>2, <1>6, <2>1 DEF EventsSound
<1>11. HoldsFinite' /\ StockConserved'
  <2>1. \A l \in Lots : Quantity(byOrder'[o], l) = Quantity(byOrder[o], l)
    BY <1>1, <1>5, <1>6 DEF Quantity
  <2> QED
    BY <1>2, <1>3, <1>6, <1>7, <1>9, <2>1, SameRecordHoldsSame
<1> QED
  BY <1>7, <1>8, <1>9, <1>10, <1>11

LEMMA ReleaseKeeps ==
    ASSUME IInv, NEW m \in Inbound, Release(m)
    PROVE  IInv'
<1> USE DEF IInv
<1> DEFINE o == m.order
           r == byOrder[o]
           q == [r EXCEPT !.status = "released"]
<1>1. m \in OrderCancelled /\ r # None
  BY InboundTyped DEF Release, AsksRelease, OrderCreated, OrderCancelled
<1>2. /\ byOrder' = [byOrder EXCEPT ![o].status = "released"]
      /\ cancelled' = cancelled \cup {o}
      /\ \A k \in DOMAIN r.items : CanUnhold(r, k)
      /\ lots' = Moved(r.demand, r.items, DOMAIN r.items, -1)
      /\ UNCHANGED <<down, events, reseeded>>
  BY DEF Release, AsksRelease
<1>3. o \in Orders
  BY <1>1 DEF OrderCancelled
<1>4. r \in RecordRow /\ RecordSound(o, r)
  BY <1>1, <1>3 DEF TypeOK, RecordsSound
<1>5. /\ q \in RecordRow /\ q.status = "released" /\ q.event = r.event
      /\ q.items = r.items /\ q.demand = r.demand
  BY <1>4 DEF RecordRow
<1>6. q # None
  BY <1>5, NoneIsNoRecord
<1>7. RecordSound(o, q)
  BY <1>4, <1>5 DEF RecordSound
<1>8. lots' \in [Lots -> StockLot \cup {None}] /\ NeverOversold'
  BY <1>1, <1>2, <1>3, UnholdingKeepsStock
<1>9. byOrder' = [byOrder EXCEPT ![o] = q]
  BY <1>2, <1>3 DEF TypeOK
<1> HIDE DEF q
<1>10. byOrder'[o] = q /\ \A p \in Orders \ {o} : byOrder'[p] = byOrder[p]
  BY <1>3, <1>9 DEF TypeOK
<1>11. TypeOK'
  BY <1>2, <1>3, <1>5, <1>8, <1>9 DEF TypeOK
<1>12. CancelledHoldsNothing'
  BY <1>2, <1>5, <1>6, <1>10 DEF CancelledHoldsNothing, TypeOK
<1>13. RecordsSound'
  <2>1. SUFFICES ASSUME NEW p \in Orders, byOrder'[p] # None
                 PROVE  RecordSound(p, byOrder'[p])
    BY DEF RecordsSound, RecordSound
  <2>2. CASE p = o
    BY <1>7, <1>10, <2>2, Zenon
  <2>3. CASE p # o
    BY <1>10, <2>1, <2>3, Zenon DEF RecordsSound
  <2> QED
    BY <2>2, <2>3
<1>14. EventsSound'
  <2>1. SUFFICES ASSUME NEW e \in events
                 PROVE  byOrder'[e.order] # None /\ byOrder'[e.order].event = e
    BY <1>2 DEF EventsSound
  <2>2. /\ e.order \in Orders
        /\ byOrder[e.order] # None /\ byOrder[e.order].event = e
    BY DEF EventsSound, TypeOK, ReplyEvent
  <2> QED
    BY <1>5, <1>6, <1>10, <2>2
<1>15. r.status # "released"
  BY DEF Release
<1>16. ASSUME NEW l \in Lots
       PROVE  ReservedIn(l)' = ReservedIn(l)
                + Quantity(byOrder'[o], l) - Quantity(r, l)
  <2>1. Quantity(byOrder'[o], l) = 0
    BY <1>5, <1>10 DEF Quantity
  <2>2. lots[l] \in StockLot \cup {None} /\ l = <<l[1], l[2]>>
    BY LotsTyped DEF TypeOK
  <2>3. CASE l[1] \in DOMAIN r.items /\ r.items[l[1]] = l[2]
    <3>1. r.status = "reserved"
      BY <1>4, <1>15, <2>3 DEF RecordSound, RecordRow, NoLines
    <3>2. Quantity(r, l) = r.demand[l[1]] /\ Quantity(r, l) \in Nat
      BY <1>1, <1>4, <2>3, <3>1, QuantityIsNat DEF Quantity
    <3>3. lots[l] # None /\ lots[l] \in StockLot
      BY <1>2, <2>2, <2>3 DEF CanUnhold
    <3>4. lots'[l] = [lots[l] EXCEPT !.reserved = @ + (-1) * r.demand[l[1]]]
      BY <1>2, <2>3 DEF Moved
    <3>5. lots'[l] # None
      <4>1. DOMAIN lots'[l] = {"on_hand", "reserved"}
        BY <3>3, <3>4 DEF StockLot
      <4>2. lots'[l] \in StockLot
        <5>1. r.demand[l[1]] <= lots[l].reserved
          BY <1>2, <2>2, <2>3 DEF CanUnhold
        <5> HIDE DEF r
        <5> QED
          BY <3>2, <3>3, <3>4, <5>1 DEF StockLot
      <4> QED
        BY <4>2, NoneIsNoRecord
    <3> HIDE DEF r
    <3> QED
      BY <2>1, <3>2, <3>3, <3>4, <3>5 DEF ReservedIn, StockLot
  <2>4. CASE ~(l[1] \in DOMAIN r.items /\ r.items[l[1]] = l[2])
    <3>1. lots'[l] = lots[l]
      BY <1>2, <2>4 DEF Moved
    <3>2. Quantity(r, l) = 0
      BY <2>4 DEF Quantity
    <3> QED
      BY <2>1, <2>2, <3>1, <3>2 DEF ReservedIn, StockLot
  <2> QED
    BY <2>3, <2>4
<1>17. HoldsFinite' /\ StockConserved'
  BY <1>2, <1>3, <1>10, <1>11, <1>13, <1>16, StockFollowsRecord
<1> QED
  BY <1>8, <1>11, <1>12, <1>13, <1>14, <1>17

(* Unless a stocked lot was seeded again, a release finds every line of a  *)
(* reservation in its lot.                                                 *)
LEMMA HoldIsThere ==
    ASSUME IInv, ~reseeded,
           NEW o \in Orders, byOrder[o] # None, byOrder[o].status = "reserved",
           NEW k \in DOMAIN byOrder[o].items
    PROVE  CanUnhold(byOrder[o], k)
<1> DEFINE r == byOrder[o]
           l == <<k, r.items[k]>>
<1>1. r \in RecordRow /\ RecordSound(o, r)
  BY DEF IInv, TypeOK, RecordsSound
<1>2. l \in Lots
  BY <1>1 DEF RecordSound
<1>3. r.items # NoLines
  BY DEF NoLines
<1>4. r.demand \in Demands /\ k \in DOMAIN r.demand
  BY <1>1, <1>3 DEF RecordSound, RecordRow
<1>5. r.demand[k] \in Nat \ {0} /\ Quantity(r, l) = r.demand[k]
  BY <1>4, DemandsTyped DEF Quantity
<1>6. Quantity(r, l) <= HeldIn(l) /\ HeldIn(l) \in Nat
  <2>1. UnitsIn(l) = Units(byOrder, Orders, l) /\ IsFiniteSet(UnitsIn(l))
    BY <1>2, UnitsInIsUnits DEF IInv, HoldsFinite
  <2>2. IsFiniteSet(Units(byOrder, Orders \ {o}, l))
    <3>1. Units(byOrder, Orders \ {o}, l) \subseteq UnitsIn(l)
      BY <2>1 DEF Units
    <3> QED
      BY <2>1, <3>1, FS_Subset
  <2>3. Quantity(byOrder[o], l) \in Nat
    BY <1>5
  <2>4. /\ Cardinality(Units(byOrder, Orders \ {o}, l)) \in Nat
        /\ HeldIn(l) = Cardinality(Units(byOrder, Orders \ {o}, l))
                      + Quantity(byOrder[o], l)
    BY <2>1, <2>2, <2>3, UnitsSplit DEF HeldIn
  <2> QED
    BY <2>3, <2>4
<1>7. ReservedIn(l) = HeldIn(l)
  BY <1>2 DEF IInv, StockConserved
<1>8. lots[l] \in StockLot \cup {None}
  BY <1>2 DEF IInv, TypeOK
<1>9. lots[l] # None /\ lots[l].reserved = HeldIn(l)
  BY <1>5, <1>6, <1>7 DEF ReservedIn
<1> HIDE DEF l
<1>10. lots[l].reserved >= r.demand[k]
  BY <1>5, <1>6, <1>9
<1> QED
  BY <1>9, <1>10 DEF CanUnhold, l

LEMMA ReleaseFailsKeeps ==
    ASSUME IInv, NEW m \in Inbound, ReleaseFails(m)
    PROVE  IInv'
<1> USE DEF IInv
<1> DEFINE r == byOrder[m.order]
<1>1. m.order \in Orders /\ r # None
  BY InboundTyped DEF ReleaseFails, OrderCreated, OrderCancelled
<1>2. PICK bad \in DOMAIN r.items :
        LET before == {k \in DOMAIN r.items : k < bad}
        IN  /\ ~CanUnhold(r, bad)
            /\ \A k \in before : CanUnhold(r, k)
            /\ lots' = Moved(r.demand, r.items, before, -1)
  BY DEF ReleaseFails
<1>3. {k \in DOMAIN r.items : k < bad} \in SUBSET DOMAIN r.items
  OBVIOUS
<1>4. lots' \in [Lots -> StockLot \cup {None}] /\ NeverOversold'
  BY <1>1, <1>2, <1>3, UnholdingKeepsStock
<1>5. UNCHANGED <<down, byOrder, cancelled, events, reseeded>>
  BY DEF ReleaseFails, AsksRelease
<1>6. /\ r.status = "reserved" /\ r \in RecordRow /\ RecordSound(m.order, r)
      /\ ~CanUnhold(r, bad)
  BY <1>1, <1>2 DEF ReleaseFails, TypeOK, RecordsSound
<1>7. reseeded
  BY <1>1, <1>2, <1>6, HoldIsThere
<1>8. ASSUME NEW l \in Lots
      PROVE  ReservedIn(l)' <= ReservedIn(l)
  <2>1. lots[l] \in StockLot \cup {None} /\ l = <<l[1], l[2]>>
    BY LotsTyped DEF TypeOK
  <2>2. CASE l[1] \in {k \in DOMAIN r.items : k < bad} /\ r.items[l[1]] = l[2]
    <3>1. Quantity(r, l) = r.demand[l[1]] /\ Quantity(r, l) \in Nat
      BY <1>1, <1>6, <2>2, QuantityIsNat DEF Quantity
    <3>2. lots[l] # None /\ lots[l] \in StockLot
      BY <1>2, <2>1, <2>2 DEF CanUnhold
    <3>3. lots'[l] = [lots[l] EXCEPT !.reserved = @ + (-1) * r.demand[l[1]]]
      BY <1>2, <2>2 DEF Moved
    <3> HIDE DEF r
    <3> QED
      BY <3>1, <3>2, <3>3 DEF ReservedIn, StockLot
  <2>3. CASE ~(l[1] \in {k \in DOMAIN r.items : k < bad} /\ r.items[l[1]] = l[2])
    <3>1. lots'[l] = lots[l]
      BY <1>2, <2>3 DEF Moved
    <3> QED
      BY <2>1, <3>1 DEF ReservedIn, StockLot
  <2> QED
    BY <2>2, <2>3
<1>9. ASSUME NEW l \in Lots PROVE (ReservedIn(l) <= HeldIn(l))'
  <2>1. ReservedIn(l) \in Nat /\ ReservedIn(l) <= HeldIn(l)
    BY DEF TypeOK, ReservedIn, StockLot, StockConserved
  <2>2. ReservedIn(l)' \in Nat
    BY <1>4 DEF ReservedIn, StockLot
  <2>3. HeldIn(l)' = HeldIn(l) /\ HeldIn(l) \in Nat
    BY <1>5, SameRecordsHoldSame
  <2> QED
    BY <1>8, <2>1, <2>2, <2>3
<1>10. StockConserved'
  BY <1>5, <1>7, <1>9 DEF StockConserved
<1>11. HoldsFinite'
  BY <1>5, SameRecordsHoldSame DEF HoldsFinite
<1> QED
  BY <1>4, <1>5, <1>10, <1>11
  DEF TypeOK, CancelledHoldsNothing, RecordsSound, RecordSound, EventsSound

LEMMA SeedKeeps ==
    ASSUME IInv, NEW l \in Lots, NEW n \in SeedSizes, Seed(l, n)
    PROVE  IInv'
<1> USE DEF IInv
<1>1. [on_hand |-> n, reserved |-> 0] \in StockLot
  BY SeedSizesTyped DEF StockLot
<1>2. UNCHANGED <<down, byOrder, cancelled, events>>
  BY DEF Seed
<1>3. reseeded' \in BOOLEAN
  BY DEF Seed, TypeOK
<1>4. lots' \in [Lots -> StockLot \cup {None}] /\ NeverOversold'
  BY <1>1, SeedSizesTyped DEF Seed, TypeOK, NeverOversold
<1>5. ASSUME NEW x \in Lots
      PROVE  /\ (ReservedIn(x) <= HeldIn(x))'
             /\ ~reseeded' => (ReservedIn(x) = HeldIn(x))'
  <2>1. HeldIn(x)' = HeldIn(x) /\ HeldIn(x) \in Nat
    BY <1>2, SameRecordsHoldSame
  <2>2. lots[x] \in StockLot \cup {None} /\ ReservedIn(x) \in Nat
    BY DEF TypeOK, ReservedIn, StockLot
  <2>3. /\ ReservedIn(x) <= HeldIn(x)
        /\ ~reseeded => ReservedIn(x) = HeldIn(x)
    BY DEF StockConserved
  <2>4. CASE x = l
    <3>1. ReservedIn(x)' = 0
      BY <1>1, <2>4, NoneIsNoRecord DEF Seed, TypeOK, ReservedIn
    <3>2. ~reseeded' => ~reseeded /\ ReservedIn(x) = 0
      <4>1. ~reseeded' => ~reseeded /\ ~(lots[x] # None /\ lots[x].reserved > 0)
        BY <2>4, Zenon DEF Seed
      <4>2. ~(lots[x] # None /\ lots[x].reserved > 0) => ReservedIn(x) = 0
        BY <2>2 DEF ReservedIn, StockLot
      <4> QED
        BY <4>1, <4>2
    <3> QED
      BY <2>1, <2>3, <3>1, <3>2
  <2>5. CASE x # l
    <3>1. ReservedIn(x)' = ReservedIn(x)
      BY <2>5 DEF Seed, TypeOK, ReservedIn
    <3>2. reseeded => reseeded'
      BY DEF Seed
    <3> QED
      BY <2>1, <2>3, <3>1, <3>2
  <2> QED
    BY <2>4, <2>5
<1>6. StockConserved' /\ HoldsFinite'
  BY <1>2, <1>5, SameRecordsHoldSame DEF StockConserved, HoldsFinite
<1> QED
  BY <1>2, <1>3, <1>4, <1>6 DEF TypeOK, CancelledHoldsNothing, RecordsSound,
                                RecordSound, EventsSound

LEMMA InitEstablishes == Init => IInv
<1> SUFFICES ASSUME Init PROVE IInv
  OBVIOUS
<1>1. /\ TypeOK /\ NeverOversold /\ CancelledHoldsNothing
      /\ RecordsSound /\ EventsSound
  BY DEF Init, TypeOK, NeverOversold, CancelledHoldsNothing, RecordsSound,
         EventsSound
<1>2. ASSUME NEW l \in Lots PROVE UnitsIn(l) = {} /\ ReservedIn(l) = 0
  BY DEF Init, UnitsIn, HoldsOf, ReservedIn
<1>3. HoldsFinite /\ StockConserved
  BY <1>2, FS_EmptySet DEF HoldsFinite, StockConserved, HeldIn
<1> QED
  BY <1>1, <1>3 DEF IInv

(* Which warehouses are down says nothing of the stock they hold.          *)
LEMMA SameStockKeeps ==
    ASSUME IInv, UNCHANGED <<lots, byOrder, cancelled, events, reseeded>>,
           down' \subseteq Warehouses
    PROVE  IInv'
<1>1. /\ TypeOK' /\ NeverOversold' /\ CancelledHoldsNothing'
      /\ RecordsSound' /\ EventsSound'
  BY DEF IInv, TypeOK, NeverOversold, CancelledHoldsNothing, RecordsSound,
         RecordSound, EventsSound
<1>2. ASSUME NEW l \in Lots
      PROVE  /\ IsFiniteSet(UnitsIn(l))' /\ HeldIn(l)' = HeldIn(l)
             /\ ReservedIn(l)' = ReservedIn(l)
  BY SameRecordsHoldSame DEF ReservedIn
<1>3. HoldsFinite' /\ StockConserved'
  BY <1>2 DEF IInv, HoldsFinite, StockConserved
<1> QED
  BY <1>1, <1>3 DEF IInv

LEMMA StepKeeps == IInv /\ [Next]_vars => IInv'
<1> SUFFICES ASSUME IInv, [Next]_vars PROVE IInv'
  OBVIOUS
<1>1. ASSUME NEW m \in Inbound, Handle(m) PROVE IInv'
  BY <1>1, ReserveStockKeeps, RefuseStockKeeps, ReserveAgainKeeps,
     TombstoneKeeps, ReleaseKeeps, ReleaseFailsKeeps DEF Handle
<1>2. ASSUME NEW l \in Lots, NEW n \in SeedSizes, Seed(l, n) PROVE IInv'
  BY <1>2, SeedKeeps
<1>3. ASSUME NEW w \in Warehouses, MarkWarehouseDown(w) PROVE IInv'
  <2>1. /\ UNCHANGED <<lots, byOrder, cancelled, events, reseeded>>
        /\ down' = down \cup {w}
    BY <1>3 DEF MarkWarehouseDown
  <2> QED
    BY <2>1, SameStockKeeps DEF IInv, TypeOK
<1>4. CASE UNCHANGED vars
  BY <1>4, SameStockKeeps DEF vars, IInv, TypeOK
<1> QED
  BY <1>1, <1>2, <1>3, <1>4 DEF Next

-----------------------------------------------------------------------------
(* The theorems.                                                           *)

(* The inductive invariant holds in every reachable state.                 *)
THEOREM Invariance == Spec => []IInv
BY InitEstablishes, StepKeeps, PTL DEF Spec

(* Stock, records, tombstones and replies keep their types: no release     *)
(* drives a reserved quantity below zero.                                  *)
THEOREM TypeCorrect == Spec => []TypeOK
<1>1. IInv => TypeOK
  BY DEF IInv
<1> QED
  BY <1>1, Invariance, PTL

(* However orders, cancellations, seeds and outages interleave, no lot     *)
(* ever has more reserved than it has on hand (hold, unhold and seed of    *)
(* MemoryInventoryStore).                                                  *)
THEOREM StockIsNeverOversold == Spec => []NeverOversold
<1>1. IInv => NeverOversold
  BY DEF IInv
<1> QED
  BY <1>1, Invariance, PTL

(* A lot carries exactly what live reservations hold in it, after any mix  *)
(* of reservations, refusals, releases, tombstones and repeated messages,  *)
(* and never more once seed() replaced a lot that held stock (hold,        *)
(* unhold, reserveLocked and releaseLocked).                               *)
THEOREM StockIsConserved == Spec => []StockConserved
<1>1. IInv => StockConserved
  BY DEF IInv
<1> QED
  BY <1>1, Invariance, PTL

(* Every line of a reservation can be given back.                          *)
HoldsBacked ==
    \A o \in Orders :
        byOrder[o] # None /\ byOrder[o].status = "reserved" =>
            \A k \in DOMAIN byOrder[o].items : CanUnhold(byOrder[o], k)

(* Unless seed() replaced a lot that held stock, a release finds all it    *)
(* gives back: releaseLocked never stops between two lines.                *)
THEOREM ReleasesFindTheirHolds == Spec => [](~reseeded => HoldsBacked)
<1>1. IInv => (~reseeded => HoldsBacked)
  BY HoldIsThere DEF HoldsBacked
<1> QED
  BY <1>1, Invariance, PTL

(* An order marked cancelled has a released record from then on, so its    *)
(* late order_created can reserve nothing (tombstone and releaseLocked).   *)
THEOREM CancelledOrdersHoldNothing == Spec => []CancelledHoldsNothing
<1>1. IInv => CancelledHoldsNothing
  BY DEF IInv
<1> QED
  BY <1>1, Invariance, PTL

(* Each order is answered at most one way on the broker, and its record    *)
(* holds the lines the answer says (persistOutcome and finishExisting).    *)
THEOREM AnswersMatchRecords == Spec => []AnswerMatchesRecord
<1>1. IInv => AnswerMatchesRecord
  <2> SUFFICES ASSUME IInv PROVE AnswerMatchesRecord
    OBVIOUS
  <2>1. ASSUME NEW e \in events
        PROVE  /\ e.order \in Orders /\ byOrder[e.order] # None
               /\ byOrder[e.order] \in RecordRow
               /\ byOrder[e.order].event = e
               /\ RecordSound(e.order, byOrder[e.order])
               /\ e # None
    BY NoneIsNoRecord DEF IInv, TypeOK, EventsSound, RecordsSound, ReplyEvent
  <2>2. \A d, e \in events : d.order = e.order => d = e
    BY <2>1
  <2>3. ASSUME NEW e \in events
        PROVE  LET r == byOrder[e.order]
               IN  IF e.type = "inventory_reserved"
                   THEN /\ r.status \in {"reserved", "released"}
                        /\ DOMAIN r.items = DOMAIN r.demand
                   ELSE /\ r.status \in {"failed", "released"}
                        /\ r.items = NoLines
    BY <2>1 DEF RecordSound, RecordRow
  <2> QED
    BY <2>1, <2>2, <2>3 DEF AnswerMatchesRecord
<1> QED
  BY <1>1, Invariance, PTL

(* What a step does to records and replies: a record only becomes          *)
(* released, and a new reply is about an unreleased record.                *)
LEMMA StepKeepsRecords ==
    ASSUME IInv, Next
    PROVE  /\ \A e \in events' \ events : byOrder'[e.order].status # "released"
           /\ \A o \in Orders : byOrder[o] # None =>
                LET r == byOrder[o]
                    q == byOrder'[o]
                IN  /\ q.status # r.status => q.status = "released"
                    /\ q.items = r.items /\ q.demand = r.demand
                    /\ q.event = r.event
<1> DEFINE Goal ==
      /\ \A e \in events' \ events : byOrder'[e.order].status # "released"
      /\ \A o \in Orders : byOrder[o] # None =>
           LET r == byOrder[o]
               q == byOrder'[o]
           IN  /\ q.status # r.status => q.status = "released"
               /\ q.items = r.items /\ q.demand = r.demand
               /\ q.event = r.event
<1>1. CASE UNCHANGED <<byOrder, events>>
  BY <1>1
<1>2. ASSUME NEW m \in Inbound, ReserveAgain(m) PROVE Goal
  <2> DEFINE o == m.order
  <2>1. o \in Orders /\ byOrder[o] # None /\ FinishExisting(o)
    BY <1>2, InboundTyped DEF ReserveAgain, OrderCreated, OrderCancelled
  <2>2. /\ \A p \in Orders \ {o} : byOrder'[p] = byOrder[p]
        /\ byOrder'[o].status = byOrder[o].status
        /\ byOrder'[o].items = byOrder[o].items
        /\ byOrder'[o].demand = byOrder[o].demand
        /\ byOrder'[o].event = byOrder[o].event
        /\ events' \subseteq ReplyEvent
        /\ EventsSound'
        /\ events' \subseteq events
             \/ /\ byOrder[o].status # "released"
                /\ events' \subseteq events \cup {byOrder[o].event}
    BY <2>1, FinishExistingSound DEF IInv
  <2>3. ASSUME NEW e \in events' \ events
        PROVE  byOrder'[e.order].status # "released"
    <3>1. e = byOrder[o].event /\ byOrder[o].status # "released"
      BY <2>2
    <3>2. e.order = o
      BY <2>1, <3>1, <2>2, NoneIsNoRecord DEF IInv, RecordsSound, RecordSound
    <3> QED
      BY <2>2, <3>1, <3>2
  <2> QED
    BY <2>2, <2>3
<1>3. ASSUME NEW m \in Inbound, ReserveStock(m) \/ RefuseStock(m) PROVE Goal
  <2> DEFINE o == m.order
  <2>1. o \in Orders /\ byOrder[o] = None
    BY <1>3, InboundTyped
    DEF ReserveStock, RefuseStock, First, OrderCreated, OrderCancelled
  <2>2. PICK r : /\ TryPublish(o, r)
                 /\ "status" \in DOMAIN r /\ r.status # "released"
                 /\ r.event.order = o
    <3>1. CASE ReserveStock(m)
      <4> DEFINE items ==
                   [k \in DOMAIN m.demand |-> Min(Holders(k, m.demand[k]))]
                 r == [status |-> "reserved", demand |-> m.demand,
                       items |-> items, source |-> m.id,
                       event |-> Reply("inventory_reserved", o, m.id),
                       published |-> FALSE]
      <4>1. TryPublish(o, r)
        BY <3>1 DEF ReserveStock, PersistOutcome
      <4>2. /\ "status" \in DOMAIN r /\ r.status # "released"
            /\ r.event.order = o
        BY DEF Reply
      <4> HIDE DEF r
      <4> QED
        BY <4>1, <4>2
    <3>2. CASE RefuseStock(m)
      <4> DEFINE r == [status |-> "failed", demand |-> m.demand,
                       items |-> NoLines, source |-> m.id,
                       event |-> Reply("inventory_reservation_failed", o, m.id),
                       published |-> FALSE]
      <4>1. TryPublish(o, r)
        BY <3>2 DEF RefuseStock, PersistOutcome
      <4>2. /\ "status" \in DOMAIN r /\ r.status # "released"
            /\ r.event.order = o
        BY DEF Reply
      <4> HIDE DEF r
      <4> QED
        BY <4>1, <4>2
    <3> QED
      BY <1>3, <3>1, <3>2
  <2>3. PICK b \in BOOLEAN :
          /\ byOrder' = [byOrder EXCEPT ![o] = [r EXCEPT !.published = b]]
          /\ events' \subseteq events \cup {r.event}
    BY <2>2 DEF TryPublish
  <2>4. byOrder'[o].status # "released"
    BY <2>1, <2>2, <2>3 DEF IInv, TypeOK
  <2>5. \A p \in Orders \ {o} : byOrder'[p] = byOrder[p]
    BY <2>3 DEF IInv, TypeOK
  <2>6. \A e \in events' \ events : e.order = o
    BY <2>2, <2>3
  <2> QED
    BY <2>1, <2>4, <2>5, <2>6
<1>4. ASSUME NEW m \in Inbound, Tombstone(m) PROVE Goal
  BY <1>4 DEF Tombstone, IInv, TypeOK
<1>5. ASSUME NEW m \in Inbound, Release(m) PROVE Goal
  <2>1. byOrder' = [byOrder EXCEPT ![m.order].status = "released"]
    BY <1>5 DEF Release
  <2>2. events' = events
    BY <1>5 DEF Release
  <2>3. \A o \in Orders : byOrder[o] # None => byOrder[o] \in RecordRow
    BY DEF IInv, TypeOK
  <2> QED
    BY <2>1, <2>2, <2>3 DEF IInv, TypeOK, RecordRow
<1> QED
  <2>1. ASSUME NEW m \in Inbound, Handle(m) PROVE Goal
    BY <1>1, <1>2, <1>3, <1>4, <1>5, <2>1 DEF Handle, ReleaseFails
  <2>2. ASSUME NEW l \in Lots, NEW n \in SeedSizes, Seed(l, n) PROVE Goal
    BY <1>1, <2>2 DEF Seed
  <2>3. ASSUME NEW w \in Warehouses, MarkWarehouseDown(w) PROVE Goal
    BY <1>1, <2>3 DEF MarkWarehouseDown
  <2> QED
    BY <2>1, <2>2, <2>3 DEF Next

(* A reply published late is never about stock that was given back         *)
(* (finishExisting looks at the status again).                             *)
THEOREM NoReplyIsStale == Spec => NoStaleReply
<1>1. IInv /\ [Next]_vars =>
        [\A e \in events' \ events : byOrder'[e.order].status # "released"]_vars
  BY StepKeepsRecords
<1> QED
  BY <1>1, Invariance, PTL DEF Spec, NoStaleReply

(* A record keeps its lines and its answer, and changes only to released.  *)
THEOREM RecordsOnlyGetReleased == Spec => RecordLifecycle
<1>1. IInv /\ [Next]_vars =>
        [\A o \in Orders : byOrder[o] # None =>
           LET r == byOrder[o]
               q == byOrder'[o]
           IN  /\ q.status # r.status => q.status = "released"
               /\ q.items = r.items /\ q.demand = r.demand
               /\ q.event = r.event]_vars
  BY StepKeepsRecords
<1> QED
  BY <1>1, Invariance, PTL DEF Spec, RecordLifecycle
=============================================================================
