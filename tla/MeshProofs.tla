------------------------------ MODULE MeshProofs ------------------------------
(***************************************************************************)
(* Proofs about OrderSaga, and about Mesh, which joins it to the services  *)
(* it commands, for every set of orders, messages and values.              *)
(*                                                                         *)
(* The saga.  Every handler rewrites the saga of one order and adds at     *)
(* most that saga's terminal to the events.  So the inductive invariant is *)
(* stated per order, as a relation between a saga and the events about its *)
(* order (Coherent), plus what the message index implies about the sagas   *)
(* (Indexed).  Each action is shown to be a CoherentStep of one order, and *)
(* CoherentStep is shown once to keep the invariant.  A second invariant,  *)
(* Sourced, says where the fields of a saga come from: each action LeadsTo *)
(* a saga of one order that is founded on what was reported and sticks to  *)
(* what it was.  Both together give the refinement.                        *)
(*                                                                         *)
(* The mesh.  Each of the three services, as they are composed, is a       *)
(* behaviour of its own module, so what is proved of it alone holds here   *)
(* too.  Linked says what holds between them, and with the invariants of   *)
(* the three it shows that a completed order is backed.                    *)
(***************************************************************************)
EXTENDS Mesh, TLAPS

EventsAbout(o, evs) == {e \in evs : e.order = o}
Carried(evs) == UNION {e.compensations : e \in evs}
OwedBy(s) == CompensationsFor(s.reservation_id # None, s.payment_id # None)
ChargeKnown(s) == s.payment_id # None \/ ParkedIs(s, "charged")

OpenOK(s, evs) ==
    /\ evs = {} /\ s.terminal = None /\ s.published = FALSE
    /\ s.payment_id = None /\ s.cancel_reason = None
    /\ s.status = "awaiting_inventory" <=> s.reservation_id = None
    /\ s.status = "awaiting_payment" => s.parked = None

CompletedOK(s, evs) ==
    /\ s.terminal # None /\ s.terminal.type = "order_completed"
    /\ evs \subseteq {s.terminal}
    /\ s.payment_id # None /\ s.reservation_id # None /\ s.parked = None

CancelledOK(s, evs) ==
    /\ s.terminal # None /\ s.cancel_reason # None /\ s.parked = None
    /\ \A e \in evs \cup {s.terminal} :
         /\ e.type = "order_cancelled" /\ e.reason = s.cancel_reason
         /\ e.compensations \subseteq OwedBy(s)
    /\ OwedBy(s) \subseteq
         Carried(evs) \cup (IF s.published THEN {}
                            ELSE s.terminal.compensations)
    /\ evs # {} => "notify_customer" \in Carried(evs)

(* A saga and the events the broker carries about its order fit together.  *)
Coherent(s, evs) ==
    /\ Open(s) => OpenOK(s, evs)
    /\ s.status = "completed" => CompletedOK(s, evs)
    /\ s.status = "cancelled" => CancelledOK(s, evs)

SagasCoherent ==
    \A o \in Orders :
        IF Started(o) THEN /\ Coherent(byOrder[o], EventsAbout(o, events))
                           /\ byOrder[o].terminal # None
                                => byOrder[o].terminal.order = o
                      ELSE EventsAbout(o, events) = {}

(* A message is indexed under its own order, and its effect is known.      *)
Indexed ==
    \A m \in Inbound : Seen(m) =>
        /\ byMessage[m.id] = m.order
        /\ Started(m.order)
        /\ m.type = "payment_charged" => ChargeKnown(byOrder[m.order])
        /\ m.type = "inventory_reserved"
             => byOrder[m.order].reservation_id # None

(* The inductive invariant.                                                *)
IInv == TypeOK /\ SagasCoherent /\ Indexed

(* One order's saga becomes t, and at most t's terminal is published.      *)
CoherentStep(o, t) ==
    /\ t \in SagaInstance
    /\ t.terminal # None => t.terminal.order = o
    /\ byOrder' = [byOrder EXCEPT ![o] = t]
    /\ \/ events' = events
       \/ t.terminal # None /\ events' = events \cup {t.terminal}
    /\ Coherent(t, EventsAbout(o, events'))

(* Effects already known stay known.                                       *)
Grows(o, t) ==
    Started(o) => /\ ChargeKnown(byOrder[o]) => ChargeKnown(t)
                  /\ byOrder[o].reservation_id # None
                       => t.reservation_id # None

-----------------------------------------------------------------------------
LEMMA MessageFields ==
    ASSUME NEW m \in Inbound
    PROVE  /\ m.order \in Orders /\ m.id \in MessageIds
           /\ m.type = "order_created" => m.price \in Prices
                                         /\ m.basket \in Baskets
           /\ m.type = "inventory_reserved"
                => m.reservation_id \in Reservations
           /\ m.type = "payment_charged" => m.payment_id \in Payments
                                           /\ m.price \in Prices
BY InboundTyped DEF Envelope, OrderCreated, InventoryReserved,
   InventoryFailed, PaymentCharged, PaymentFailed

(* A step of one order leaves the others coherent.                         *)
LEMMA StepKeepsSagas ==
    ASSUME TypeOK, SagasCoherent, NEW o \in Orders, NEW t, CoherentStep(o, t)
    PROVE  /\ byOrder' \in [Orders -> SagaInstance \cup {None}]
           /\ events' \subseteq TerminalEvent
           /\ SagasCoherent'
<1>1. t \in SagaInstance /\ t # None
  BY NoneIsNoRecord DEF CoherentStep
<1>2. byOrder' \in [Orders -> SagaInstance \cup {None}]
  BY <1>1 DEF CoherentStep, TypeOK
<1>3. t.terminal # None => t.terminal \in TerminalEvent
  BY <1>1 DEF SagaInstance
<1>4. events' \subseteq TerminalEvent
  BY <1>3 DEF CoherentStep, TypeOK
<1>5. SagasCoherent'
  <2> SUFFICES ASSUME NEW p \in Orders
               PROVE  IF Started(p)'
                      THEN /\ Coherent(byOrder'[p], EventsAbout(p, events'))
                           /\ byOrder'[p].terminal # None
                                => byOrder'[p].terminal.order = p
                      ELSE EventsAbout(p, events') = {}
    BY DEF SagasCoherent, Started, Coherent, OpenOK, CompletedOK,
           CancelledOK, Open, OwedBy, CompensationsFor
  <2>1. CASE p = o
    <3>1. byOrder'[p] = t
      BY <2>1 DEF CoherentStep, TypeOK
    <3> QED
      BY <1>1, <2>1, <3>1 DEF CoherentStep, Started
  <2>2. CASE p # o
    <3>1. byOrder'[p] = byOrder[p]
      BY <2>2 DEF CoherentStep, TypeOK
    <3>2. EventsAbout(p, events') = EventsAbout(p, events)
      BY <2>2 DEF CoherentStep, EventsAbout
    <3> QED
      BY <3>1, <3>2 DEF SagasCoherent, Started
  <2> QED
    BY <2>1, <2>2
<1> QED
  BY <1>2, <1>4, <1>5

(* Publishing a coherent, unpublished saga: whatever the publisher         *)
(* answers, what is owed is either carried or still in the terminal.       *)
LEMMA PublishKeepsCoherent ==
    ASSUME NEW s \in SagaInstance, NEW evs \in SUBSET TerminalEvent,
           s.terminal # None, s.published = FALSE, Coherent(s, evs),
           NEW b \in BOOLEAN
    PROVE  Coherent([s EXCEPT !.published = b], evs \cup {s.terminal})
<1> DEFINE t == [s EXCEPT !.published = b]
           all == evs \cup {s.terminal}
<1>1. /\ t.status = s.status /\ t.terminal = s.terminal
      /\ t.cancel_reason = s.cancel_reason /\ t.parked = s.parked
      /\ t.payment_id = s.payment_id
      /\ t.reservation_id = s.reservation_id /\ t.published = b
  BY DEF SagaInstance
<1>2. OwedBy(t) = OwedBy(s)
  BY <1>1 DEF OwedBy
<1>3. ~Open(s)
  BY DEF Coherent, OpenOK
<1>4. s.status = "completed" => CompletedOK(t, all)
  BY <1>1 DEF Coherent, CompletedOK
<1>5. ASSUME s.status = "cancelled"
      PROVE  CancelledOK(t, all)
  <2>1. CancelledOK(s, evs)
    BY <1>5 DEF Coherent
  <2>2. Carried(all) = Carried(evs) \cup s.terminal.compensations
    BY DEF Carried
  <2>3. OwedBy(s) \subseteq Carried(all)
    BY <2>1, <2>2 DEF CancelledOK
  <2>4. "notify_customer" \in OwedBy(s)
    BY DEF OwedBy, CompensationsFor, Compensations
  <2>5. all \cup {t.terminal} = all /\ evs \cup {s.terminal} = all
    BY <1>1
  <2>6. \A e \in all \cup {t.terminal} :
          /\ e.type = "order_cancelled" /\ e.reason = t.cancel_reason
          /\ e.compensations \subseteq OwedBy(t)
    BY <1>1, <1>2, <2>1, <2>5 DEF CancelledOK
  <2> QED
    BY <1>1, <1>2, <2>1, <2>3, <2>4, <2>6 DEF CancelledOK
<1> QED
  BY <1>1, <1>3, <1>4, <1>5 DEF Coherent, Open

-----------------------------------------------------------------------------
(* The two ways a handler ends: it stores a saga, or it publishes one.     *)

(* s becomes the order's saga, up to whether it is published.              *)
Becomes(o, s) ==
    \E t : /\ CoherentStep(o, t)
           /\ t.payment_id = s.payment_id
           /\ t.reservation_id = s.reservation_id
           /\ t.parked = s.parked

LEMMA SaveStep ==
    ASSUME NEW o \in Orders, NEW s \in SagaInstance, Save(o, s),
           s.terminal # None => s.terminal.order = o,
           Coherent(s, EventsAbout(o, events))
    PROVE  CoherentStep(o, s)
BY DEF CoherentStep, Save

LEMMA TryPublishStep ==
    ASSUME TypeOK, NEW o \in Orders, NEW s \in SagaInstance,
           s.terminal # None, s.terminal.order = o, s.published = FALSE,
           Coherent(s, EventsAbout(o, events)), TryPublish(o, s)
    PROVE  Becomes(o, s)
<1> DEFINE evs == EventsAbout(o, events)
<1>1. PICK result \in {"ok", "lost", "unconfirmed"} :
        /\ byOrder' = [byOrder EXCEPT ![o] =
                          [s EXCEPT !.published = (result = "ok")]]
        /\ events' = IF result = "lost" THEN events
                                        ELSE events \cup {s.terminal}
  BY DEF TryPublish
<1>2. PICK b \in BOOLEAN : b = (result = "ok")
  OBVIOUS
<1> DEFINE t == [s EXCEPT !.published = b]
<1>3. /\ t \in SagaInstance /\ t.terminal = s.terminal
      /\ t.payment_id = s.payment_id /\ t.parked = s.parked
      /\ t.reservation_id = s.reservation_id
  BY DEF SagaInstance
<1>4. byOrder' = [byOrder EXCEPT ![o] = t]
  BY <1>1, <1>2
<1>5. evs \in SUBSET TerminalEvent
  BY DEF EventsAbout, TypeOK
<1>6. Coherent(t, EventsAbout(o, events'))
  <2>1. CASE result = "lost"
    <3>1. t = s
      BY <1>2, <2>1 DEF SagaInstance
    <3> QED
      BY <1>1, <2>1, <3>1
  <2>2. CASE result # "lost"
    <3>1. EventsAbout(o, events') = evs \cup {s.terminal}
      BY <1>1, <2>2 DEF EventsAbout
    <3>2. Coherent(t, evs \cup {s.terminal})
      BY <1>5, PublishKeepsCoherent
    <3> QED
      BY <3>1, <3>2
  <2> QED
    BY <2>1, <2>2
<1>7. CoherentStep(o, t)
  BY <1>1, <1>3, <1>4, <1>6 DEF CoherentStep
<1> QED
  BY <1>3, <1>7 DEF Becomes

(* emitCancel: allowed when every event about the order is a cancellation  *)
(* for this reason that announced no more than what s owes, and the first  *)
(* of them told the customer.                                              *)
LEMMA EmitCancelStep ==
    ASSUME TypeOK, NEW m \in Inbound, NEW s \in SagaInstance,
           NEW reason \in CancelReasons, EmitCancel(s, m, reason),
           \A e \in EventsAbout(m.order, events) :
              /\ e.type = "order_cancelled" /\ e.reason = reason
              /\ e.compensations \subseteq OwedBy(s),
           EventsAbout(m.order, events) # {} =>
              "notify_customer" \in Carried(EventsAbout(m.order, events))
    PROVE  Becomes(m.order, [s EXCEPT !.parked = None])
<1> DEFINE owed == OwedBy(s)
           event == CancelEvent(m, reason, owed)
           c == [s EXCEPT !.status = "cancelled", !.cancel_reason = reason,
                          !.parked = None, !.compensations = owed]
           r == [c EXCEPT !.terminal = event, !.published = FALSE]
<1>1. m.order \in Orders /\ m.id \in MessageIds
  BY MessageFields
<1>2. owed \in SUBSET Compensations
  BY DEF OwedBy, CompensationsFor
<1>3. /\ event \in CancelledEvent /\ event \in TerminalEvent
      /\ event # None
      /\ event.order = m.order /\ event.type = "order_cancelled"
      /\ event.reason = reason /\ event.compensations = owed
  BY <1>1, <1>2, NoneIsNoRecord DEF CancelEvent, CancelledEvent, TerminalEvent
<1>4. c \in SagaInstance
  BY <1>2 DEF SagaInstance, Statuses
<1>5. /\ r \in SagaInstance /\ r.status = "cancelled"
      /\ r.cancel_reason = reason /\ r.parked = None
      /\ r.terminal = event /\ r.published = FALSE
      /\ r.payment_id = s.payment_id /\ r.reservation_id = s.reservation_id
  BY <1>2, <1>3, <1>4 DEF SagaInstance
<1>6. OwedBy(r) = owed
  BY <1>5 DEF OwedBy
<1>7. reason # None
  BY NoneIsNoValue
<1>8. Coherent(r, EventsAbout(m.order, events))
  BY <1>3, <1>5, <1>6, <1>7 DEF Coherent, CancelledOK, Open
<1>9. TryPublish(m.order, r)
  BY DEF EmitCancel, PublishTerminal, OwedBy
<1>10. Becomes(m.order, r)
  BY <1>1, <1>3, <1>5, <1>8, <1>9, TryPublishStep
<1>11. /\ [s EXCEPT !.parked = None].payment_id = s.payment_id
       /\ [s EXCEPT !.parked = None].reservation_id = s.reservation_id
       /\ [s EXCEPT !.parked = None].parked = None
  BY DEF SagaInstance
<1> QED
  BY <1>5, <1>10, <1>11 DEF Becomes

(* emitComplete: allowed when the order has no event yet.                  *)
LEMMA EmitCompleteStep ==
    ASSUME TypeOK, NEW m \in Inbound, NEW s \in SagaInstance,
           EmitComplete(s, m), EventsAbout(m.order, events) = {},
           s.payment_id # None, s.reservation_id # None, s.parked = None
    PROVE  Becomes(m.order, s)
<1> DEFINE event == [type |-> "order_completed", order |-> m.order,
                     cause |-> m.id, payment_id |-> s.payment_id,
                     reservation_id |-> s.reservation_id,
                     price |-> s.price]
           c == [s EXCEPT !.status = "completed", !.compensations = {}]
           r == [c EXCEPT !.terminal = event, !.published = FALSE]
<1>1. m.order \in Orders /\ m.id \in MessageIds
  BY MessageFields
<1>2. event \in CompletedEvent
  BY <1>1 DEF CompletedEvent, SagaInstance
<1>3. /\ event \in TerminalEvent /\ event # None
      /\ event.order = m.order /\ event.type = "order_completed"
  BY <1>2, NoneIsNoRecord DEF TerminalEvent
<1>4. c \in SagaInstance
  BY DEF SagaInstance, Statuses
<1>5. /\ r \in SagaInstance /\ r.status = "completed"
      /\ r.parked = None /\ r.terminal = event /\ r.published = FALSE
      /\ r.payment_id = s.payment_id /\ r.reservation_id = s.reservation_id
  BY <1>3, <1>4 DEF SagaInstance
<1>6. Coherent(r, EventsAbout(m.order, events))
  BY <1>3, <1>5 DEF Coherent, CompletedOK, Open
<1>7. TryPublish(m.order, r)
  BY DEF EmitComplete, PublishTerminal
<1>8. Becomes(m.order, r)
  BY <1>1, <1>3, <1>5, <1>6, <1>7, TryPublishStep
<1> QED
  BY <1>5, <1>8 DEF Becomes

(* settleCharge: both outcomes bind the payment.                           *)
LEMMA SettleChargeStep ==
    ASSUME TypeOK, NEW m \in Inbound, NEW s \in SagaInstance,
           NEW payment_id \in Payments, NEW price \in Prices,
           SettleCharge(s, m, payment_id, price),
           EventsAbout(m.order, events) = {}, s.reservation_id # None
    PROVE  Becomes(m.order, [s EXCEPT !.payment_id = payment_id,
                                      !.parked = None])
<1> DEFINE paid == [s EXCEPT !.payment_id = payment_id, !.parked = None]
<1>1. /\ paid \in SagaInstance /\ paid.payment_id = payment_id
      /\ paid.reservation_id = s.reservation_id /\ paid.parked = None
      /\ paid.price = s.price
  BY DEF SagaInstance
<1>2. payment_id # None
  BY NoneIsNoValue
<1>3. CASE price # s.price
  <2>1. EmitCancel(paid, m, "payment_failed")
    BY <1>3 DEF SettleCharge
  <2>2. Becomes(m.order, [paid EXCEPT !.parked = None])
    BY <1>1, <2>1, EmitCancelStep DEF CancelReasons
  <2>3. [paid EXCEPT !.parked = None] = paid
    BY <1>1 DEF SagaInstance
  <2> QED
    BY <2>2, <2>3
<1>4. CASE price = s.price
  <2>1. EmitComplete(paid, m)
    BY <1>4 DEF SettleCharge
  <2> QED
    BY <1>1, <1>2, <2>1, EmitCompleteStep
<1> QED
  BY <1>3, <1>4

(* emitLateWork: s is the cancelled saga before with one more effect, and  *)
(* step is the compensation that effect adds.                              *)
LEMMA EmitLateWorkStep ==
    ASSUME TypeOK, SagasCoherent, NEW m \in Inbound, Started(m.order),
           byOrder[m.order].status = "cancelled",
           NEW s \in SagaInstance, NEW step \in Compensations,
           s.status = "cancelled", s.parked = None,
           s.cancel_reason = byOrder[m.order].cancel_reason,
           s.terminal = byOrder[m.order].terminal,
           s.published = byOrder[m.order].published,
           OwedBy(s) = OwedBy(byOrder[m.order]) \cup {step},
           EmitLateWork(s, m, step)
    PROVE  Becomes(m.order, s)
<1> DEFINE evs == EventsAbout(m.order, events)
           old == byOrder[m.order]
           event == CancelEvent(m, s.cancel_reason, {step})
           c == [s EXCEPT !.compensations = {step}]
           r == [c EXCEPT !.terminal = event, !.published = FALSE]
<1>1. m.order \in Orders /\ m.id \in MessageIds
  BY MessageFields
<1>2. CancelledOK(old, evs)
  BY <1>1 DEF SagasCoherent, Coherent
<1>3. s.cancel_reason \in CancelReasons /\ s.cancel_reason # None
  BY <1>2 DEF CancelledOK, SagaInstance
<1>4. \A e \in evs : /\ e.type = "order_cancelled"
                     /\ e.reason = s.cancel_reason
                     /\ e.compensations \subseteq OwedBy(s)
  BY <1>2 DEF CancelledOK
<1>5. evs # {} => "notify_customer" \in Carried(evs)
  BY <1>2 DEF CancelledOK
<1>6. s.terminal # None
  BY <1>2 DEF CancelledOK
<1>7. CASE s.published = FALSE
  <2>1. EmitCancel(s, m, s.cancel_reason)
    BY <1>3, <1>7 DEF EmitLateWork
  <2>2. Becomes(m.order, [s EXCEPT !.parked = None])
    BY <1>3, <1>4, <1>5, <2>1, EmitCancelStep
  <2>3. [s EXCEPT !.parked = None] = s
    BY DEF SagaInstance
  <2> QED
    BY <2>2, <2>3
<1>8. CASE s.published = TRUE
  <2>1. /\ event \in TerminalEvent /\ event # None
        /\ event.order = m.order /\ event.type = "order_cancelled"
        /\ event.reason = s.cancel_reason /\ event.compensations = {step}
    BY <1>1, <1>3, NoneIsNoRecord
       DEF CancelEvent, CancelledEvent, TerminalEvent
  <2>2. c \in SagaInstance
    BY DEF SagaInstance
  <2>3. /\ r \in SagaInstance /\ r.status = "cancelled"
        /\ r.cancel_reason = s.cancel_reason /\ r.parked = None
        /\ r.terminal = event /\ r.published = FALSE
        /\ r.payment_id = s.payment_id
        /\ r.reservation_id = s.reservation_id
    BY <2>1, <2>2 DEF SagaInstance
  <2>4. OwedBy(r) = OwedBy(s)
    BY <2>3 DEF OwedBy
  <2>5. OwedBy(old) \subseteq Carried(evs)
    BY <1>2, <1>8 DEF CancelledOK
  <2>6. CancelledOK(r, evs)
    BY <1>3, <1>4, <1>5, <2>1, <2>3, <2>4, <2>5 DEF CancelledOK
  <2>7. Coherent(r, evs)
    BY <2>3, <2>6 DEF Coherent, Open
  <2>8. TryPublish(m.order, r)
    BY <1>3, <1>6, <1>8 DEF EmitLateWork, PublishTerminal
  <2>9. Becomes(m.order, r)
    BY <1>1, <2>1, <2>3, <2>7, <2>8, TryPublishStep
  <2> QED
    BY <2>3, <2>9 DEF Becomes
<1> QED
  BY <1>7, <1>8 DEF SagaInstance

-----------------------------------------------------------------------------
(* The handlers.                                                           *)

(* The effect a message reports is known afterwards.                       *)
Learns(m, t) ==
    /\ m.type = "payment_charged" => ChargeKnown(t)
    /\ m.type = "inventory_reserved" => t.reservation_id # None

(* What every first delivery does.                                         *)
Handles(m) ==
    \E t : /\ CoherentStep(m.order, t) /\ Grows(m.order, t)
           /\ Learns(m, t) /\ Index(m)

LEMMA StartedSaga ==
    ASSUME TypeOK, SagasCoherent, NEW o \in Orders, Started(o)
    PROVE  /\ byOrder[o] \in SagaInstance
           /\ Coherent(byOrder[o], EventsAbout(o, events))
           /\ byOrder[o].terminal # None => byOrder[o].terminal.order = o
BY DEF TypeOK, SagasCoherent, Started

LEMMA BecomesGrows ==
    ASSUME NEW o \in Orders, NEW s, Becomes(o, s), Grows(o, s)
    PROVE  \E t : /\ CoherentStep(o, t) /\ Grows(o, t)
                  /\ ChargeKnown(s) => ChargeKnown(t)
                  /\ s.reservation_id # None => t.reservation_id # None
BY DEF Becomes, Grows, ChargeKnown, ParkedIs

LEMMA BecomesHandles ==
    ASSUME NEW m \in Inbound, NEW s, Becomes(m.order, s),
           Grows(m.order, s), Learns(m, s), Index(m)
    PROVE  Handles(m)
BY MessageFields, BecomesGrows DEF Handles, Learns

LEMMA SaveHandles ==
    ASSUME NEW m \in Inbound, NEW s \in SagaInstance, Save(m.order, s),
           s.terminal # None => s.terminal.order = m.order,
           Coherent(s, EventsAbout(m.order, events)),
           Grows(m.order, s), Learns(m, s), Index(m)
    PROVE  Handles(m)
BY MessageFields, SaveStep DEF Handles

LEMMA FinishExistingStep ==
    ASSUME TypeOK, SagasCoherent, NEW o \in Orders, Started(o),
           FinishExisting(o)
    PROVE  Becomes(o, byOrder[o])
<1> DEFINE s == byOrder[o]
<1>1. /\ s \in SagaInstance /\ Coherent(s, EventsAbout(o, events))
      /\ s.terminal # None => s.terminal.order = o
  BY StartedSaga
<1>2. CASE s.terminal = None \/ s.published = TRUE
  <2>1. Save(o, s)
    BY <1>2 DEF FinishExisting
  <2> QED
    BY <1>1, <2>1, SaveStep DEF Becomes
<1>3. CASE s.terminal # None /\ s.published = FALSE
  <2>1. TryPublish(o, s)
    BY <1>3 DEF FinishExisting
  <2> QED
    BY <1>1, <1>3, <2>1, TryPublishStep
<1> QED
  BY <1>1, <1>2, <1>3 DEF SagaInstance

LEMMA StartHandles ==
    ASSUME IInv, NEW m \in Inbound, Start(m)
    PROVE  Handles(m)
<1> DEFINE s == NewSaga(m)
<1>1. s \in SagaInstance
  BY MessageFields DEF Start, NewSaga, RequestHash, SagaInstance, Statuses
<1>2. EventsAbout(m.order, events) = {}
  BY MessageFields DEF IInv, SagasCoherent, Start
<1>3. Coherent(s, EventsAbout(m.order, events))
  BY <1>2 DEF NewSaga, Coherent, OpenOK, Open
<1>4. s.terminal = None
  BY DEF NewSaga
<1> QED
  BY <1>1, <1>3, <1>4, SaveHandles DEF Start, Grows, Learns

LEMMA StartAgainHandles ==
    ASSUME IInv, NEW m \in Inbound, StartAgain(m)
    PROVE  Handles(m)
<1>1. Becomes(m.order, byOrder[m.order])
  BY MessageFields, FinishExistingStep DEF IInv, StartAgain
<1> QED
  BY <1>1, BecomesHandles DEF StartAgain, Grows, Learns

(* A reply that leaves the saga as it is.                                  *)
LEMMA UnchangedHandles ==
    ASSUME IInv, NEW m \in Inbound, Started(m.order), Index(m),
           Save(m.order, byOrder[m.order]), Learns(m, byOrder[m.order])
    PROVE  Handles(m)
BY MessageFields, StartedSaga, SaveHandles DEF IInv, Grows

LEMMA IgnoredHandles ==
    ASSUME IInv, NEW m \in Inbound,
           InventoryConflict(m) \/ PaymentIgnored(m) \/ LateNothing(m)
    PROVE  Handles(m)
<1> DEFINE s == byOrder[m.order]
<1>1. Started(m.order) /\ Index(m) /\ Save(m.order, s)
  BY DEF InventoryConflict, PaymentIgnored, LateNothing, InventoryReply,
         PaymentReply, Reply
<1>2. s \in SagaInstance /\ Coherent(s, EventsAbout(m.order, events))
  BY <1>1, MessageFields, StartedSaga DEF IInv
<1>3. Learns(m, s)
  <2>1. CASE InventoryConflict(m)
    <3>1. m.type # "payment_charged"
      BY <2>1 DEF InventoryConflict, InventoryReply, Reply
    <3>2. s.status = "completed" => s.reservation_id # None
      BY <1>2 DEF Coherent, CompletedOK
    <3>3. Open(s) /\ InventoryAnswered(s) => s.reservation_id # None
      BY <1>2, NoneIsNoValue
         DEF Coherent, OpenOK, InventoryAnswered, CancelReasons
    <3> QED
      BY <2>1, <3>1, <3>2, <3>3 DEF InventoryConflict, Learns
  <2>2. CASE PaymentIgnored(m)
    <3>1. m.type # "inventory_reserved"
      BY <2>2 DEF PaymentIgnored, PaymentReply, Reply
    <3>2. s.status = "completed" => s.payment_id # None
      BY <1>2 DEF Coherent, CompletedOK
    <3> QED
      BY <2>2, <3>1, <3>2 DEF PaymentIgnored, Learns, ChargeKnown
  <2>3. CASE LateNothing(m)
    BY <2>3 DEF LateNothing, Learns, ChargeKnown
  <2> QED
    BY <2>1, <2>2, <2>3
<1> QED
  BY <1>1, <1>3, UnchangedHandles

LEMMA InventoryRefusesHandles ==
    ASSUME IInv, NEW m \in Inbound, InventoryRefuses(m)
    PROVE  Handles(m)
<1> DEFINE s == byOrder[m.order]
           c == IF ParkedIs(s, "charged")
                THEN [s EXCEPT !.payment_id = s.parked.payment_id] ELSE s
<1>1. /\ Started(m.order) /\ Index(m) /\ Open(s)
      /\ EmitCancel(c, m, "inventory_failed")
      /\ m.type = "inventory_reservation_failed"
  BY DEF InventoryRefuses, InventoryReply, Reply
<1>2. s \in SagaInstance /\ EventsAbout(m.order, events) = {}
  BY <1>1, MessageFields, StartedSaga DEF IInv, Coherent, OpenOK
<1>3. ParkedIs(s, "charged") => s.parked.payment_id \in Payments
  BY <1>2 DEF ParkedIs, SagaInstance, ParkedCharge, ParkedFailure
<1>4. /\ c \in SagaInstance /\ c.reservation_id = s.reservation_id
      /\ ChargeKnown(s) => c.payment_id # None
  BY <1>2, <1>3, NoneIsNoValue DEF SagaInstance, ChargeKnown
<1>5. Becomes(m.order, [c EXCEPT !.parked = None])
  BY <1>1, <1>2, <1>4, EmitCancelStep DEF IInv, CancelReasons
<1>6. /\ [c EXCEPT !.parked = None].payment_id = c.payment_id
      /\ [c EXCEPT !.parked = None].reservation_id = c.reservation_id
  BY <1>4 DEF SagaInstance
<1>7. Grows(m.order, [c EXCEPT !.parked = None])
  BY <1>4, <1>6 DEF Grows, ChargeKnown
<1> QED
  BY <1>1, <1>5, <1>7, BecomesHandles DEF Learns

LEMMA InventoryReservesHandles ==
    ASSUME IInv, NEW m \in Inbound, InventoryReserves(m)
    PROVE  Handles(m)
<1> DEFINE s == byOrder[m.order]
           kept == [s EXCEPT !.reservation_id = m.reservation_id]
           evs == EventsAbout(m.order, events)
<1>1. /\ Started(m.order) /\ Index(m) /\ Open(s)
      /\ m.type = "inventory_reserved" /\ ~InventoryAnswered(s)
  BY DEF InventoryReserves, InventoryReply, Reply
<1>2. s \in SagaInstance /\ OpenOK(s, evs)
  BY <1>1, MessageFields, StartedSaga DEF IInv, Coherent
<1>3. m.reservation_id \in Reservations /\ m.reservation_id # None
  BY <1>1, MessageFields, NoneIsNoValue
<1>4. /\ kept \in SagaInstance /\ kept.reservation_id = m.reservation_id
      /\ kept.payment_id = s.payment_id /\ kept.parked = s.parked
      /\ kept.terminal = s.terminal /\ kept.published = s.published
      /\ kept.cancel_reason = s.cancel_reason /\ kept.status = s.status
  BY <1>2, <1>3 DEF SagaInstance
<1>5. CASE ParkedIs(s, "charged")
  <2> DEFINE paid == [kept EXCEPT !.payment_id = s.parked.payment_id,
                                  !.parked = None]
  <2>1. s.parked.payment_id \in Payments /\ s.parked.price \in Prices
    BY <1>2, <1>5 DEF ParkedIs, SagaInstance, ParkedCharge, ParkedFailure
  <2>2. SettleCharge(kept, m, s.parked.payment_id, s.parked.price)
    BY <1>5 DEF InventoryReserves, ParkedIs
  <2>3. Becomes(m.order, paid)
    BY <1>2, <1>3, <1>4, <2>1, <2>2, SettleChargeStep DEF IInv, OpenOK
  <2>4. /\ paid.payment_id # None
        /\ paid.reservation_id = m.reservation_id
    BY <1>4, <2>1, NoneIsNoValue DEF SagaInstance
  <2> QED
    BY <1>1, <1>3, <2>3, <2>4, BecomesHandles
       DEF Grows, Learns, ChargeKnown
<1>6. CASE ParkedIs(s, "failed")
  <2>1. EmitCancel(kept, m, "payment_failed")
    BY <1>6 DEF InventoryReserves, ParkedIs
  <2>2. Becomes(m.order, [kept EXCEPT !.parked = None])
    BY <1>2, <1>4, <2>1, EmitCancelStep DEF IInv, OpenOK, CancelReasons
  <2>3. /\ [kept EXCEPT !.parked = None].payment_id = s.payment_id
        /\ [kept EXCEPT !.parked = None].reservation_id = m.reservation_id
    BY <1>4 DEF SagaInstance
  <2>4. Grows(m.order, [kept EXCEPT !.parked = None])
    BY <1>3, <1>6, <2>3 DEF Grows, ChargeKnown, ParkedIs
  <2> QED
    BY <1>1, <1>3, <2>2, <2>3, <2>4, BecomesHandles DEF Learns
<1>7. CASE ~ParkedIs(s, "charged") /\ ~ParkedIs(s, "failed")
  <2> DEFINE t == [kept EXCEPT !.status = "awaiting_payment"]
  <2>1. Save(m.order, t)
    BY <1>7 DEF InventoryReserves
  <2>2. s.parked = None
    BY <1>2, <1>7 DEF ParkedIs, SagaInstance, ParkedCharge, ParkedFailure
  <2>3. /\ t \in SagaInstance /\ t.reservation_id = m.reservation_id
        /\ t.payment_id = s.payment_id /\ t.parked = None
        /\ t.terminal = s.terminal /\ t.published = s.published
        /\ t.cancel_reason = s.cancel_reason
        /\ t.status = "awaiting_payment"
    BY <1>4, <2>2 DEF SagaInstance, Statuses
  <2>4. Coherent(t, evs)
    BY <1>2, <1>3, <2>3 DEF Coherent, OpenOK, Open
  <2>5. Grows(m.order, t) /\ Learns(m, t)
    BY <1>1, <1>3, <2>2, <2>3 DEF Grows, Learns, ChargeKnown, ParkedIs
  <2> QED
    BY <1>1, <1>2, <2>1, <2>3, <2>4, <2>5, SaveHandles DEF OpenOK
<1> QED
  BY <1>5, <1>6, <1>7

LEMMA PaymentDeclinedHandles ==
    ASSUME IInv, NEW m \in Inbound, PaymentDeclined(m)
    PROVE  Handles(m)
<1> DEFINE s == byOrder[m.order]
           evs == EventsAbout(m.order, events)
<1>1. /\ Started(m.order) /\ Index(m) /\ Open(s) /\ s.parked = None
      /\ m.type = "payment_failed"
  BY DEF PaymentDeclined, PaymentReply, Reply
<1>2. s \in SagaInstance /\ OpenOK(s, evs)
  BY <1>1, MessageFields, StartedSaga DEF IInv, Coherent
<1>3. CASE s.status = "awaiting_inventory"
  <2> DEFINE t == [s EXCEPT !.parked = [outcome |-> "failed"]]
  <2>1. Save(m.order, t)
    BY <1>3 DEF PaymentDeclined
  <2>2. /\ t \in SagaInstance /\ t.reservation_id = s.reservation_id
        /\ t.payment_id = s.payment_id /\ t.terminal = s.terminal
        /\ t.published = s.published /\ t.status = s.status
        /\ t.cancel_reason = s.cancel_reason
    BY <1>2 DEF SagaInstance, ParkedFailure
  <2>3. Coherent(t, evs)
    BY <1>2, <1>3, <2>2 DEF Coherent, OpenOK, Open
  <2>4. Grows(m.order, t) /\ Learns(m, t)
    BY <1>1, <2>2 DEF Grows, Learns, ChargeKnown, ParkedIs
  <2> QED
    BY <1>1, <1>2, <2>1, <2>2, <2>3, <2>4, SaveHandles DEF OpenOK
<1>4. CASE s.status # "awaiting_inventory"
  <2>1. EmitCancel(s, m, "payment_failed")
    BY <1>4 DEF PaymentDeclined
  <2>2. Becomes(m.order, [s EXCEPT !.parked = None])
    BY <1>2, <2>1, EmitCancelStep DEF IInv, OpenOK, CancelReasons
  <2>3. [s EXCEPT !.parked = None] = s
    BY <1>1, <1>2 DEF SagaInstance
  <2> QED
    BY <1>1, <2>2, <2>3, BecomesHandles DEF Grows, Learns
<1> QED
  BY <1>3, <1>4

LEMMA PaymentTakenHandles ==
    ASSUME IInv, NEW m \in Inbound, PaymentTaken(m)
    PROVE  Handles(m)
<1> DEFINE s == byOrder[m.order]
           evs == EventsAbout(m.order, events)
<1>1. /\ Started(m.order) /\ Index(m) /\ Open(s)
      /\ ~ParkedIs(s, "charged") /\ m.type = "payment_charged"
  BY DEF PaymentTaken, PaymentReply, Reply
<1>2. s \in SagaInstance /\ OpenOK(s, evs)
  BY <1>1, MessageFields, StartedSaga DEF IInv, Coherent
<1>3. /\ m.payment_id \in Payments /\ m.price \in Prices
      /\ m.payment_id # None
  BY <1>1, MessageFields, NoneIsNoValue
<1>4. CASE s.status = "awaiting_inventory"
  <2> DEFINE charge == [outcome |-> "charged", payment_id |-> m.payment_id,
                        price |-> m.price]
             t == [s EXCEPT !.parked = charge]
  <2>1. Save(m.order, t)
    BY <1>4 DEF PaymentTaken
  <2>2. /\ charge \in ParkedCharge /\ charge # None
        /\ charge.outcome = "charged"
    BY <1>3, NoneIsNoRecord DEF ParkedCharge
  <2>3. /\ t \in SagaInstance /\ t.reservation_id = s.reservation_id
        /\ t.payment_id = s.payment_id /\ t.terminal = s.terminal
        /\ t.published = s.published /\ t.status = s.status
        /\ t.cancel_reason = s.cancel_reason /\ t.parked = charge
    BY <1>2, <2>2 DEF SagaInstance
  <2>4. Coherent(t, evs)
    BY <1>2, <1>4, <2>3 DEF Coherent, OpenOK, Open
  <2>5. ChargeKnown(t)
    BY <2>2, <2>3 DEF ChargeKnown, ParkedIs
  <2>6. Grows(m.order, t) /\ Learns(m, t)
    BY <1>1, <2>3, <2>5 DEF Grows, Learns
  <2> QED
    BY <1>1, <1>2, <2>1, <2>3, <2>4, <2>6, SaveHandles DEF OpenOK
<1>5. CASE s.status # "awaiting_inventory"
  <2> DEFINE paid == [s EXCEPT !.payment_id = m.payment_id,
                               !.parked = None]
  <2>1. SettleCharge(s, m, m.payment_id, m.price)
    BY <1>5 DEF PaymentTaken
  <2>2. s.reservation_id # None
    BY <1>1, <1>2, <1>5 DEF OpenOK, Open
  <2>3. Becomes(m.order, paid)
    BY <1>2, <1>3, <2>1, <2>2, SettleChargeStep DEF IInv, OpenOK
  <2>4. /\ paid.payment_id = m.payment_id
        /\ paid.reservation_id = s.reservation_id
    BY <1>2 DEF SagaInstance
  <2> QED
    BY <1>1, <1>3, <2>3, <2>4, BecomesHandles
       DEF Grows, Learns, ChargeKnown
<1> QED
  BY <1>4, <1>5

LEMMA LateChargeHandles ==
    ASSUME IInv, NEW m \in Inbound, LateCharge(m)
    PROVE  Handles(m)
<1> DEFINE s == byOrder[m.order]
           t == [s EXCEPT !.payment_id = m.payment_id, !.parked = None]
<1>1. /\ Started(m.order) /\ Index(m) /\ s.status = "cancelled"
      /\ s.payment_id = None /\ m.type = "payment_charged"
      /\ EmitLateWork(t, m, "refund_payment")
  BY DEF LateCharge, PaymentReply, Reply
<1>2. s \in SagaInstance
  BY <1>1, MessageFields, StartedSaga DEF IInv
<1>3. m.payment_id \in Payments /\ m.payment_id # None
  BY <1>1, MessageFields, NoneIsNoValue
<1>4. /\ t \in SagaInstance /\ t.status = s.status /\ t.parked = None
      /\ t.payment_id = m.payment_id
      /\ t.reservation_id = s.reservation_id /\ t.terminal = s.terminal
      /\ t.published = s.published /\ t.cancel_reason = s.cancel_reason
  BY <1>2, <1>3 DEF SagaInstance
<1>5. OwedBy(t) = OwedBy(s) \cup {"refund_payment"}
  BY <1>1, <1>3, <1>4 DEF OwedBy, CompensationsFor, Compensations
<1>6. Becomes(m.order, t)
  BY <1>1, <1>4, <1>5, EmitLateWorkStep DEF IInv, Compensations
<1> QED
  BY <1>1, <1>3, <1>4, <1>6, BecomesHandles DEF Grows, Learns, ChargeKnown

LEMMA LateReservationHandles ==
    ASSUME IInv, NEW m \in Inbound, LateReservation(m)
    PROVE  Handles(m)
<1> DEFINE s == byOrder[m.order]
           t == [s EXCEPT !.reservation_id = m.reservation_id]
<1>1. /\ Started(m.order) /\ Index(m) /\ s.status = "cancelled"
      /\ s.reservation_id = None /\ m.type = "inventory_reserved"
      /\ EmitLateWork(t, m, "release_inventory")
  BY DEF LateReservation, InventoryReply, Reply
<1>2. s \in SagaInstance /\ s.parked = None
  BY <1>1, MessageFields, StartedSaga DEF IInv, Coherent, CancelledOK
<1>3. m.reservation_id \in Reservations /\ m.reservation_id # None
  BY <1>1, MessageFields, NoneIsNoValue
<1>4. /\ t \in SagaInstance /\ t.status = s.status /\ t.parked = None
      /\ t.reservation_id = m.reservation_id
      /\ t.payment_id = s.payment_id /\ t.terminal = s.terminal
      /\ t.published = s.published /\ t.cancel_reason = s.cancel_reason
  BY <1>2, <1>3 DEF SagaInstance
<1>5. OwedBy(t) = OwedBy(s) \cup {"release_inventory"}
  BY <1>1, <1>3, <1>4 DEF OwedBy, CompensationsFor, Compensations
<1>6. Becomes(m.order, t)
  BY <1>1, <1>4, <1>5, EmitLateWorkStep DEF IInv, Compensations
<1> QED
  BY <1>1, <1>2, <1>3, <1>4, <1>6, BecomesHandles
     DEF Grows, Learns, ChargeKnown, ParkedIs

-----------------------------------------------------------------------------
(* The invariant.                                                          *)

LEMMA FirstDeliveryHandles ==
    ASSUME IInv, NEW m \in Inbound, Handle(m), ~Redelivered(m)
    PROVE  Handles(m)
BY StartHandles, StartAgainHandles, IgnoredHandles, InventoryRefusesHandles,
   InventoryReservesHandles, PaymentDeclinedHandles, PaymentTakenHandles,
   LateChargeHandles, LateReservationHandles DEF Handle

(* A coherent step that also keeps the index truthful keeps IInv.          *)
LEMMA StepKeepsIndex ==
    ASSUME IInv, NEW o \in Orders, NEW t, CoherentStep(o, t), Grows(o, t),
           \/ UNCHANGED byMessage
           \/ \E m \in Inbound : m.order = o /\ Index(m) /\ Learns(m, t)
    PROVE  Indexed' /\ byMessage' \in [MessageIds -> Orders \cup {None}]
<1>1. t # None
  BY NoneIsNoRecord DEF CoherentStep
<1>2. byOrder'[o] = t /\ \A p \in Orders \ {o} : byOrder'[p] = byOrder[p]
  BY DEF CoherentStep, IInv, TypeOK
<1>3. byMessage' \in [MessageIds -> Orders \cup {None}]
  BY MessageFields DEF Index, IInv, TypeOK
<1>4. ASSUME NEW n \in Inbound, Seen(n)'
      PROVE  /\ byMessage'[n.id] = n.order /\ Started(n.order)'
             /\ n.type = "payment_charged" => ChargeKnown(byOrder'[n.order])
             /\ n.type = "inventory_reserved"
                  => byOrder'[n.order].reservation_id # None
  <2>0. n.order \in Orders /\ n.id \in MessageIds
    BY MessageFields
  <2>1. CASE Seen(n) /\ byMessage'[n.id] = byMessage[n.id]
    <3>1. /\ byMessage[n.id] = n.order /\ Started(n.order)
          /\ n.type = "payment_charged" => ChargeKnown(byOrder[n.order])
          /\ n.type = "inventory_reserved"
               => byOrder[n.order].reservation_id # None
      BY <2>1 DEF IInv, Indexed
    <3>2. CASE n.order = o
      BY <1>1, <1>2, <2>1, <3>1, <3>2 DEF Grows, Started
    <3>3. CASE n.order # o
      BY <1>2, <2>0, <2>1, <3>1, <3>3 DEF Started
    <3> QED
      BY <3>2, <3>3
  <2>2. CASE ~(Seen(n) /\ byMessage'[n.id] = byMessage[n.id])
    <3>1. PICK m \in Inbound : m.order = o /\ Index(m) /\ Learns(m, t)
      BY <1>4, <2>2 DEF Seen
    <3>2. m.id \in MessageIds
      BY MessageFields
    <3>3. n.id = m.id
      BY <1>4, <2>0, <2>2, <3>1, <3>2 DEF Seen, Index, IInv, TypeOK
    <3>4. n = m
      BY <3>3, UniqueIds
    <3>5. byMessage'[n.id] = o
      BY <3>1, <3>2, <3>4 DEF Index, IInv, TypeOK
    <3> QED
      BY <1>1, <1>2, <3>1, <3>4, <3>5 DEF Learns, Started
  <2> QED
    BY <2>1, <2>2
<1>5. Indexed'
  BY <1>4 DEF Indexed, Seen, Started, ChargeKnown, ParkedIs
<1> QED
  BY <1>3, <1>5

(* finishExisting, whatever led to it, keeps the invariant.                *)
LEMMA FinishKeepsIInv ==
    ASSUME IInv, NEW o \in Orders, Started(o), FinishExisting(o),
           UNCHANGED byMessage
    PROVE  IInv'
<1>1. Becomes(o, byOrder[o])
  BY FinishExistingStep DEF IInv
<1>2. PICK t : CoherentStep(o, t) /\ Grows(o, t)
  BY <1>1, BecomesGrows DEF Grows
<1> QED
  BY <1>2, StepKeepsSagas, StepKeepsIndex DEF IInv, TypeOK

LEMMA NextKeepsIInv == IInv /\ [Next]_vars => IInv'
<1> SUFFICES ASSUME IInv, [Next]_vars
             PROVE  IInv'
  OBVIOUS
<1>1. ASSUME NEW m \in Inbound, Handle(m), ~Redelivered(m)
      PROVE  IInv'
  <2>1. PICK t : /\ CoherentStep(m.order, t) /\ Grows(m.order, t)
                 /\ Learns(m, t) /\ Index(m)
    BY <1>1, FirstDeliveryHandles DEF Handles
  <2>2. m.order \in Orders
    BY MessageFields
  <2> QED
    BY <2>1, <2>2, StepKeepsSagas, StepKeepsIndex DEF IInv, TypeOK
<1>2. ASSUME NEW m \in Inbound, Redelivered(m)
      PROVE  IInv'
  <2>1. byMessage[m.id] \in Orders /\ Started(byMessage[m.id])
    BY <1>2, MessageFields DEF Redelivered, IInv, Indexed
  <2> QED
    BY <1>2, <2>1, FinishKeepsIInv DEF Redelivered
<1>3. ASSUME NEW e \in events, Echoed(e)
      PROVE  IInv'
  <2>1. e.order \in Orders
    BY DEF IInv, TypeOK, TerminalEvent, CompletedEvent, CancelledEvent
  <2>2. Started(e.order)
    BY <2>1 DEF IInv, SagasCoherent, EventsAbout
  <2> QED
    BY <1>3, <2>1, <2>2, FinishKeepsIInv DEF Echoed
<1>4. CASE UNCHANGED vars
  <2>1. byOrder' = byOrder /\ byMessage' = byMessage /\ events' = events
    BY <1>4 DEF vars
  <2>2. TypeOK'
    BY <2>1 DEF IInv, TypeOK
  <2>3. SagasCoherent'
    BY <2>1 DEF IInv, SagasCoherent, Started
  <2>4. Indexed'
    BY <2>1 DEF IInv, Indexed, Started, Seen, ChargeKnown, ParkedIs
  <2> QED
    BY <2>2, <2>3, <2>4 DEF IInv
<1> QED
  BY <1>1, <1>2, <1>3, <1>4 DEF Next

LEMMA InitIInv == Init => IInv
BY MessageFields
   DEF Init, IInv, TypeOK, SagasCoherent, Indexed, Started, Seen, EventsAbout

(* The inductive invariant holds in every reachable state.                 *)
THEOREM Invariance == Spec => []IInv
BY InitIInv, NextKeepsIInv, PTL DEF Spec

(* Every saga, the message index and the published events stay well typed: *)
(* in particular an order is never announced as completed with an          *)
(* undefined payment or reservation (saga.ts emitComplete).                *)
THEOREM TypeCorrect == Spec => []TypeOK
<1>1. IInv => TypeOK
  BY DEF IInv
<1> QED
  BY <1>1, Invariance, PTL

LEMMA AnnouncedIsCarried ==
    ASSUME NEW o, \A e \in EventsAbout(o, events) : e.type = "order_cancelled"
    PROVE  Announced(o) = Carried(EventsAbout(o, events))
BY DEF Announced, Carried, EventsAbout

LEMMA IInvAccounts == IInv => EffectsAccounted
<1> SUFFICES ASSUME IInv, NEW m \in Inbound, Handled(m), Settled(m.order),
                    byOrder[m.order].status # "completed"
             PROVE  /\ m.type = "payment_charged" =>
                          "refund_payment" \in Announced(m.order)
                    /\ m.type = "inventory_reserved" =>
                          "release_inventory" \in Announced(m.order)
  BY DEF EffectsAccounted
<1> DEFINE s == byOrder[m.order]
           evs == EventsAbout(m.order, events)
<1>1. /\ m.order \in Orders /\ Started(m.order) /\ s.published
      /\ s \in SagaInstance /\ Coherent(s, evs)
  BY MessageFields, StartedSaga DEF IInv, Settled
<1>2. s.status = "cancelled"
  BY <1>1 DEF Coherent, OpenOK, Open, SagaInstance, Statuses
<1>3. CancelledOK(s, evs)
  BY <1>1, <1>2 DEF Coherent
<1>4. OwedBy(s) \subseteq Announced(m.order)
  BY <1>1, <1>3, AnnouncedIsCarried DEF CancelledOK
<1>5. m.type = "payment_charged" => s.payment_id # None
  BY <1>3 DEF IInv, Indexed, Handled, ChargeKnown, ParkedIs, CancelledOK
<1>6. m.type = "inventory_reserved" => s.reservation_id # None
  BY DEF IInv, Indexed, Handled
<1> QED
  BY <1>4, <1>5, <1>6 DEF OwedBy, CompensationsFor, Compensations

(* A handled charge or reservation of an order whose verdict is out is     *)
(* either part of a completed order or undone by a published compensation, *)
(* whatever was lost, repeated, reordered or rebuilt (emitLateWork).       *)
THEOREM EffectsAreAccounted == Spec => []EffectsAccounted
BY IInvAccounts, Invariance, PTL

LEMMA IInvTellsFirst == IInv => CustomerToldFirst
<1> SUFFICES ASSUME IInv, NEW e \in events, e.type = "order_cancelled"
             PROVE  "notify_customer" \in Announced(e.order)
  BY DEF CustomerToldFirst
<1> DEFINE s == byOrder[e.order]
           evs == EventsAbout(e.order, events)
<1>1. e.order \in Orders /\ e \in evs
  BY DEF IInv, TypeOK, TerminalEvent, CompletedEvent, CancelledEvent,
     EventsAbout
<1>2. Started(e.order)
  BY <1>1 DEF IInv, SagasCoherent
<1>3. s \in SagaInstance /\ Coherent(s, evs)
  BY <1>1, <1>2, StartedSaga DEF IInv
<1>4. s.status # "completed"
  BY <1>1, <1>3 DEF Coherent, CompletedOK
<1>5. CancelledOK(s, evs)
  BY <1>1, <1>3, <1>4 DEF Coherent, OpenOK, Open, SagaInstance, Statuses
<1> QED
  BY <1>1, <1>5, AnnouncedIsCarried DEF CancelledOK

(* No order_cancelled reaches the broker for an order before one of them   *)
(* carries notify_customer.                                                *)
THEOREM CustomerIsToldFirst == Spec => []CustomerToldFirst
BY IInvTellsFirst, Invariance, PTL

LEMMA IInvOneVerdict == IInv => OneVerdict
<1> SUFFICES ASSUME IInv, NEW d \in events, NEW e \in events,
                    d.order = e.order
             PROVE  /\ d.type = e.type
                    /\ d.type = "order_cancelled" => d.reason = e.reason
  BY DEF OneVerdict
<1> DEFINE s == byOrder[e.order]
           evs == EventsAbout(e.order, events)
<1>1. e.order \in Orders /\ d \in evs /\ e \in evs
  BY DEF IInv, TypeOK, TerminalEvent, CompletedEvent, CancelledEvent,
     EventsAbout
<1>2. s \in SagaInstance /\ Coherent(s, evs)
  BY <1>1, StartedSaga DEF IInv, SagasCoherent
<1>3. CASE s.status = "completed"
  BY <1>1, <1>2, <1>3 DEF Coherent, CompletedOK
<1>4. CASE s.status = "cancelled"
  BY <1>1, <1>2, <1>4 DEF Coherent, CancelledOK
<1> QED
  BY <1>1, <1>2, <1>3, <1>4 DEF Coherent, OpenOK, Open, SagaInstance, Statuses

(* Consumers never see both verdicts of one order, nor two reasons for one *)
(* cancellation.                                                           *)
THEOREM OneVerdictOnly == Spec => []OneVerdict
BY IInvOneVerdict, Invariance, PTL

-----------------------------------------------------------------------------
(* Where the fields of a saga come from, and which of them stay.           *)

Reports(o) == {m \in Inbound : Seen(m) /\ m.order = o}

(* Its price, its effects, a parked charge, and the refusal of an order    *)
(* that is cancelled without a reservation were reported in R.             *)
Founded(s, R) ==
    /\ \E m \in R : m.type = "order_created" /\ m.price = s.price
    /\ s.reservation_id # None =>
         \E m \in R : /\ m.type = "inventory_reserved"
                      /\ m.reservation_id = s.reservation_id
    /\ s.payment_id # None =>
         \E m \in R : m.type = "payment_charged" /\ m.payment_id = s.payment_id
    /\ ParkedIs(s, "charged") =>
         \E m \in R : /\ m.type = "payment_charged"
                      /\ m.payment_id = s.parked.payment_id
                      /\ m.price = s.parked.price
    /\ s.status = "cancelled" /\ s.reservation_id = None =>
         \E m \in R : m.type = "inventory_reservation_failed"

(* The charge of a completed order is its price, and its terminal says so. *)
Paid(s, R) ==
    s.status = "completed" =>
        /\ \E m \in R : /\ m.type = "payment_charged"
                        /\ m.payment_id = s.payment_id /\ m.price = s.price
        /\ s.terminal.payment_id = s.payment_id
        /\ s.terminal.reservation_id = s.reservation_id
        /\ s.terminal.price = s.price

Sourced ==
    \A o \in Orders : Started(o) =>
        Founded(byOrder[o], Reports(o)) /\ Paid(byOrder[o], Reports(o))

(* What a step from saga s to saga t may not do.                           *)
Sticks(s, t) ==
    /\ ~Open(s) => t.status = s.status
    /\ s.reservation_id # None => t.reservation_id = s.reservation_id
    /\ s.payment_id # None => t.payment_id = s.payment_id
    /\ ParkedIs(s, "charged") =>
         t.parked = s.parked \/ t.payment_id = s.parked.payment_id
    /\ Open(s) /\ Open(t) =>
         \/ t.reservation_id = s.reservation_id
         \/ t.payment_id = s.payment_id /\ t.parked = s.parked

(* Order o gets a saga that R founds and that sticks to what it was.       *)
LeadsTo(o, R) ==
    \E t \in SagaInstance :
        /\ byOrder' = [byOrder EXCEPT ![o] = t]
        /\ Founded(t, R) /\ Paid(t, R)
        /\ Started(o) => Sticks(byOrder[o], t)

(* s is published, and t is what is stored.                                *)
Stored(s, t) ==
    /\ t \in SagaInstance
    /\ t.price = s.price /\ t.status = s.status /\ t.parked = s.parked
    /\ t.reservation_id = s.reservation_id /\ t.payment_id = s.payment_id
    /\ t.terminal = s.terminal

LEMMA TryPublishStores ==
    ASSUME NEW o, NEW s \in SagaInstance, TryPublish(o, s)
    PROVE  \E t : Stored(s, t) /\ byOrder' = [byOrder EXCEPT ![o] = t]
<1>1. PICK result \in {"ok", "lost", "unconfirmed"} :
        byOrder' = [byOrder EXCEPT ![o] = [s EXCEPT !.published = (result = "ok")]]
  BY DEF TryPublish
<1>2. PICK b \in BOOLEAN : b = (result = "ok")
  OBVIOUS
<1>3. Stored(s, [s EXCEPT !.published = b])
  BY DEF Stored, SagaInstance
<1> QED
  BY <1>1, <1>2, <1>3

LEMMA StoredIsFounded ==
    ASSUME NEW s, NEW t, Stored(s, t), NEW R
    PROVE  /\ Founded(s, R) => Founded(t, R)
           /\ Paid(s, R) => Paid(t, R)
BY DEF Stored, Founded, Paid, ParkedIs

(* s is what the order's saga was, but for what a step may do.             *)
LEMMA CancelLeads ==
    ASSUME NEW m \in Inbound, NEW s \in SagaInstance,
           NEW reason \in CancelReasons, EmitCancel(s, m, reason),
           NEW R, Founded(s, R),
           \/ s.reservation_id # None
           \/ \E n \in R : n.type = "inventory_reservation_failed",
           Started(m.order) =>
              /\ byOrder[m.order].status # "completed"
              /\ Sticks(byOrder[m.order],
                        [s EXCEPT !.status = "cancelled", !.parked = None])
    PROVE  LeadsTo(m.order, R)
<1> DEFINE owed == OwedBy(s)
           event == CancelEvent(m, reason, owed)
           x == [s EXCEPT !.status = "cancelled", !.parked = None]
           c == [s EXCEPT !.status = "cancelled", !.cancel_reason = reason,
                          !.parked = None, !.compensations = owed]
           r == [c EXCEPT !.terminal = event, !.published = FALSE]
<1>1. owed \in SUBSET Compensations
  BY DEF OwedBy, CompensationsFor
<1>2. event \in TerminalEvent
  BY <1>1, MessageFields DEF CancelEvent, CancelledEvent, TerminalEvent
<1> c \in SagaInstance
  BY <1>1 DEF SagaInstance, Statuses
<1>3. /\ r \in SagaInstance /\ r.status = "cancelled" /\ r.parked = None
      /\ r.price = s.price /\ r.reservation_id = s.reservation_id
      /\ r.payment_id = s.payment_id
  BY <1>1, <1>2 DEF SagaInstance
<1>4. /\ x.status = "cancelled" /\ x.parked = None
      /\ x.reservation_id = s.reservation_id /\ x.payment_id = s.payment_id
  BY DEF SagaInstance
<1>5. TryPublish(m.order, r)
  BY DEF EmitCancel, PublishTerminal, OwedBy
<1>6. PICK t : Stored(r, t) /\ byOrder' = [byOrder EXCEPT ![m.order] = t]
  BY <1>3, <1>5, TryPublishStores
<1>7. Founded(r, R) /\ Paid(r, R)
  BY <1>3 DEF Founded, Paid, ParkedIs
<1>8. Founded(t, R) /\ Paid(t, R)
  BY <1>6, <1>7, StoredIsFounded
<1>9. Started(m.order) => Sticks(byOrder[m.order], t)
  BY <1>3, <1>4, <1>6 DEF Stored, Sticks, Open
<1> QED
  BY <1>6, <1>8, <1>9 DEF LeadsTo, Stored

LEMMA CompleteLeads ==
    ASSUME NEW m \in Inbound, NEW s \in SagaInstance, EmitComplete(s, m),
           s.payment_id # None, s.reservation_id # None, s.parked = None,
           NEW R, Founded(s, R),
           \E n \in R : /\ n.type = "payment_charged"
                        /\ n.payment_id = s.payment_id /\ n.price = s.price,
           Open(byOrder[m.order]),
           Sticks(byOrder[m.order], [s EXCEPT !.status = "completed"])
    PROVE  LeadsTo(m.order, R)
<1> DEFINE event == [type |-> "order_completed", order |-> m.order,
                     cause |-> m.id, payment_id |-> s.payment_id,
                     reservation_id |-> s.reservation_id,
                     price |-> s.price]
           x == [s EXCEPT !.status = "completed"]
           c == [s EXCEPT !.status = "completed", !.compensations = {}]
           r == [c EXCEPT !.terminal = event, !.published = FALSE]
<1>1. event \in TerminalEvent
  BY MessageFields DEF CompletedEvent, TerminalEvent, SagaInstance
<1>2. /\ r \in SagaInstance /\ r.status = "completed" /\ r.parked = None
      /\ r.price = s.price /\ r.reservation_id = s.reservation_id
      /\ r.payment_id = s.payment_id /\ r.terminal = event
  BY <1>1 DEF SagaInstance, Statuses
<1>3. /\ x.status = "completed" /\ x.parked = None
      /\ x.reservation_id = s.reservation_id /\ x.payment_id = s.payment_id
  BY DEF SagaInstance
<1>4. TryPublish(m.order, r)
  BY DEF EmitComplete, PublishTerminal
<1>5. PICK t : Stored(r, t) /\ byOrder' = [byOrder EXCEPT ![m.order] = t]
  BY <1>2, <1>4, TryPublishStores
<1>6. Founded(r, R) /\ Paid(r, R)
  BY <1>2 DEF Founded, Paid, ParkedIs
<1>7. Founded(t, R) /\ Paid(t, R)
  BY <1>5, <1>6, StoredIsFounded
<1>8. Sticks(byOrder[m.order], t)
  BY <1>2, <1>3, <1>5 DEF Stored, Sticks, Open
<1> QED
  BY <1>5, <1>7, <1>8 DEF LeadsTo, Stored

LEMMA SaveLeads ==
    ASSUME NEW o, NEW t \in SagaInstance, Save(o, t), NEW R,
           Founded(t, R), Paid(t, R), Started(o) => Sticks(byOrder[o], t)
    PROVE  LeadsTo(o, R)
BY DEF Save, LeadsTo

LEMMA FinishLeads ==
    ASSUME NEW o \in Orders, byOrder[o] \in SagaInstance, FinishExisting(o),
           NEW R, Founded(byOrder[o], R), Paid(byOrder[o], R)
    PROVE  LeadsTo(o, R)
<1> DEFINE s == byOrder[o]
<1>1. CASE Save(o, s)
  BY <1>1, SaveLeads DEF Sticks
<1>2. CASE TryPublish(o, s)
  <2>1. PICK t : Stored(s, t) /\ byOrder' = [byOrder EXCEPT ![o] = t]
    BY <1>2, TryPublishStores
  <2> QED
    BY <2>1, StoredIsFounded DEF LeadsTo, Stored, Sticks, Open
<1> QED
  BY <1>1, <1>2 DEF FinishExisting

LEMMA SettleLeads ==
    ASSUME NEW m \in Inbound, NEW s \in SagaInstance,
           NEW payment_id \in Payments, NEW price \in Prices,
           SettleCharge(s, m, payment_id, price), s.reservation_id # None,
           NEW R, Founded(s, R),
           \E n \in R : /\ n.type = "payment_charged"
                        /\ n.payment_id = payment_id /\ n.price = price,
           Started(m.order), Open(byOrder[m.order]),
           byOrder[m.order].payment_id = None,
           byOrder[m.order].reservation_id \in {None, s.reservation_id},
           ParkedIs(byOrder[m.order], "charged") =>
             payment_id = byOrder[m.order].parked.payment_id
    PROVE  LeadsTo(m.order, R)
<1> DEFINE old == byOrder[m.order]
           paid == [s EXCEPT !.payment_id = payment_id, !.parked = None]
           x == [paid EXCEPT !.status = "cancelled", !.parked = None]
           y == [paid EXCEPT !.status = "completed"]
<1>1. /\ paid \in SagaInstance /\ paid.payment_id = payment_id
      /\ paid.reservation_id = s.reservation_id /\ paid.parked = None
      /\ paid.price = s.price
  BY DEF SagaInstance
<1>2. payment_id # None
  BY NoneIsNoValue
<1>3. Founded(paid, R)
  BY <1>1 DEF Founded, ParkedIs
<1>4. /\ x.status = "cancelled" /\ x.payment_id = payment_id
      /\ x.reservation_id = s.reservation_id
      /\ y.status = "completed" /\ y.payment_id = payment_id
      /\ y.reservation_id = s.reservation_id
  BY <1>1 DEF SagaInstance
<1>5. Sticks(old, x) /\ Sticks(old, y)
  BY <1>4 DEF Sticks, Open
<1>6. CASE price # s.price
  <2>1. EmitCancel(paid, m, "payment_failed")
    BY <1>6 DEF SettleCharge
  <2> QED
    BY <1>1, <1>3, <1>5, <2>1, CancelLeads DEF CancelReasons, Open
<1>7. CASE price = s.price
  <2>1. EmitComplete(paid, m)
    BY <1>7 DEF SettleCharge
  <2>2. \E n \in R : /\ n.type = "payment_charged"
                     /\ n.payment_id = paid.payment_id /\ n.price = paid.price
    BY <1>1, <1>7
  <2> QED
    BY <1>1, <1>2, <1>3, <1>5, <2>1, <2>2, CompleteLeads
<1> QED
  BY <1>6, <1>7

(* What every first delivery of m does.                                    *)
Founds(m) == LeadsTo(m.order, Reports(m.order) \cup {m})

LEMMA MoreReports ==
    ASSUME NEW s, NEW R, NEW S, R \subseteq S
    PROVE  /\ Founded(s, R) => Founded(s, S)
           /\ Paid(s, R) => Paid(s, S)
BY DEF Founded, Paid

LEMMA KnownSaga ==
    ASSUME IInv, Sourced, NEW m \in Inbound, Started(m.order)
    PROVE  /\ m.order \in Orders /\ byOrder[m.order] \in SagaInstance
           /\ Coherent(byOrder[m.order], EventsAbout(m.order, events))
           /\ Founded(byOrder[m.order], Reports(m.order) \cup {m})
           /\ Paid(byOrder[m.order], Reports(m.order) \cup {m})
BY MessageFields, StartedSaga, MoreReports DEF IInv, Sourced

LEMMA StartFounds ==
    ASSUME IInv, NEW m \in Inbound, Start(m)
    PROVE  Founds(m)
<1> DEFINE s == NewSaga(m)
<1>1. s \in SagaInstance
  BY MessageFields DEF Start, NewSaga, RequestHash, SagaInstance, Statuses
<1>2. Founded(s, Reports(m.order) \cup {m}) /\ Paid(s, Reports(m.order) \cup {m})
  BY DEF Start, NewSaga, Founded, Paid, ParkedIs
<1> QED
  BY <1>1, <1>2, SaveLeads DEF Start, Founds

LEMMA StayFounds ==
    ASSUME IInv, Sourced, NEW m \in Inbound,
           \/ StartAgain(m)
           \/ InventoryConflict(m) \/ PaymentIgnored(m) \/ LateNothing(m)
    PROVE  Founds(m)
<1>1. /\ Started(m.order)
      /\ FinishExisting(m.order) \/ Save(m.order, byOrder[m.order])
  BY DEF StartAgain, InventoryConflict, PaymentIgnored, LateNothing,
         InventoryReply, PaymentReply, Reply
<1>2. CASE FinishExisting(m.order)
  BY <1>1, <1>2, KnownSaga, FinishLeads DEF Founds
<1>3. CASE Save(m.order, byOrder[m.order])
  BY <1>1, <1>3, KnownSaga, SaveLeads DEF Founds, Sticks
<1> QED
  BY <1>1, <1>2, <1>3

LEMMA InventoryRefusesFounds ==
    ASSUME IInv, Sourced, NEW m \in Inbound, InventoryRefuses(m)
    PROVE  Founds(m)
<1> DEFINE s == byOrder[m.order]
           c == IF ParkedIs(s, "charged")
                THEN [s EXCEPT !.payment_id = s.parked.payment_id] ELSE s
           x == [c EXCEPT !.status = "cancelled", !.parked = None]
           R == Reports(m.order) \cup {m}
<1>1. /\ Started(m.order) /\ Open(s)
      /\ EmitCancel(c, m, "inventory_failed")
      /\ \E n \in R : n.type = "inventory_reservation_failed"
  BY DEF InventoryRefuses, InventoryReply, Reply
<1>2. s \in SagaInstance /\ s.payment_id = None /\ Founded(s, R)
  BY <1>1, KnownSaga DEF Coherent, OpenOK
<1>3. CASE ParkedIs(s, "charged")
  <2>1. s.parked.payment_id \in Payments
    BY <1>2, <1>3 DEF SagaInstance, ParkedIs, ParkedCharge, ParkedFailure
  <2>2. /\ c \in SagaInstance /\ c.price = s.price
        /\ c.payment_id = s.parked.payment_id /\ c.parked = s.parked
        /\ c.reservation_id = s.reservation_id /\ c.status = s.status
    BY <1>2, <1>3, <2>1 DEF SagaInstance
  <2>3. Founded(c, R)
    BY <1>2, <1>3, <2>2 DEF Founded, ParkedIs
  <2>4. /\ x.status = "cancelled" /\ x.payment_id = s.parked.payment_id
        /\ x.reservation_id = s.reservation_id
    BY <2>2 DEF SagaInstance
  <2>5. Sticks(s, x)
    BY <1>1, <1>2, <2>4 DEF Sticks, Open
  <2> QED
    BY <1>1, <2>2, <2>3, <2>5, CancelLeads DEF Founds, CancelReasons, Open
<1>4. CASE ~ParkedIs(s, "charged")
  <2>1. /\ x.status = "cancelled" /\ x.payment_id = s.payment_id
        /\ x.reservation_id = s.reservation_id
    BY <1>2, <1>4 DEF SagaInstance
  <2>2. Sticks(s, x)
    BY <1>1, <1>2, <1>4, <2>1 DEF Sticks, Open
  <2> QED
    BY <1>1, <1>2, <1>4, <2>2, CancelLeads DEF Founds, CancelReasons, Open
<1> QED
  BY <1>3, <1>4

LEMMA InventoryReservesFounds ==
    ASSUME IInv, Sourced, NEW m \in Inbound, InventoryReserves(m)
    PROVE  Founds(m)
<1> DEFINE s == byOrder[m.order]
           kept == [s EXCEPT !.reservation_id = m.reservation_id]
           R == Reports(m.order) \cup {m}
<1>1. /\ Started(m.order) /\ Open(s) /\ m.type = "inventory_reserved"
      /\ s.reservation_id = None
  BY DEF InventoryReserves, InventoryReply, Reply, InventoryAnswered
<1>2. s \in SagaInstance /\ s.payment_id = None /\ Founded(s, R)
  BY <1>1, KnownSaga DEF Coherent, OpenOK
<1>3. m.reservation_id \in Reservations /\ m.reservation_id # None
  BY <1>1, MessageFields, NoneIsNoValue
<1>4. /\ kept \in SagaInstance /\ kept.reservation_id = m.reservation_id
      /\ kept.price = s.price /\ kept.payment_id = s.payment_id
      /\ kept.parked = s.parked /\ kept.status = s.status
  BY <1>2, <1>3 DEF SagaInstance
<1>5. Founded(kept, R)
  BY <1>1, <1>2, <1>4 DEF Founded, ParkedIs
<1>6. CASE ParkedIs(s, "charged")
  <2>1. /\ s.parked.payment_id \in Payments /\ s.parked.price \in Prices
    BY <1>2, <1>6 DEF SagaInstance, ParkedIs, ParkedCharge, ParkedFailure
  <2>2. SettleCharge(kept, m, s.parked.payment_id, s.parked.price)
    BY <1>6 DEF InventoryReserves, ParkedIs
  <2>3. \E n \in R : /\ n.type = "payment_charged"
                     /\ n.payment_id = s.parked.payment_id
                     /\ n.price = s.parked.price
    BY <1>2, <1>6 DEF Founded
  <2> QED
    BY <1>1, <1>2, <1>3, <1>4, <1>5, <2>1, <2>2, <2>3, SettleLeads DEF Founds
<1>7. CASE ParkedIs(s, "failed")
  <2> DEFINE x == [kept EXCEPT !.status = "cancelled", !.parked = None]
  <2>1. EmitCancel(kept, m, "payment_failed")
    BY <1>7 DEF InventoryReserves, ParkedIs
  <2>2. /\ x.status = "cancelled" /\ x.payment_id = None
        /\ x.reservation_id = m.reservation_id
    BY <1>2, <1>4 DEF SagaInstance
  <2>3. Sticks(s, x)
    BY <1>1, <1>2, <1>7, <2>2 DEF Sticks, Open, ParkedIs
  <2> QED
    BY <1>1, <1>3, <1>4, <1>5, <2>1, <2>3, CancelLeads
       DEF Founds, CancelReasons, Open
<1>8. CASE ~ParkedIs(s, "charged") /\ ~ParkedIs(s, "failed")
  <2> DEFINE t == [kept EXCEPT !.status = "awaiting_payment"]
  <2>1. Save(m.order, t)
    BY <1>8 DEF InventoryReserves
  <2>2. /\ t \in SagaInstance /\ t.reservation_id = m.reservation_id
        /\ t.price = s.price /\ t.payment_id = s.payment_id
        /\ t.parked = s.parked /\ t.status = "awaiting_payment"
    BY <1>4 DEF SagaInstance, Statuses
  <2>3. Founded(t, R) /\ Paid(t, R)
    BY <1>4, <1>5, <2>2 DEF Founded, Paid, ParkedIs
  <2>4. Sticks(s, t)
    BY <1>1, <1>2, <2>2 DEF Sticks
  <2> QED
    BY <2>1, <2>2, <2>3, <2>4, SaveLeads DEF Founds
<1> QED
  BY <1>6, <1>7, <1>8

LEMMA PaymentDeclinedFounds ==
    ASSUME IInv, Sourced, NEW m \in Inbound, PaymentDeclined(m)
    PROVE  Founds(m)
<1> DEFINE s == byOrder[m.order]
           R == Reports(m.order) \cup {m}
<1>1. /\ Started(m.order) /\ Open(s) /\ s.parked = None /\ s.payment_id = None
  BY DEF PaymentDeclined, PaymentReply, Reply
<1>2. /\ s \in SagaInstance /\ Founded(s, R)
      /\ s.status # "awaiting_inventory" => s.reservation_id # None
  BY <1>1, KnownSaga DEF Coherent, OpenOK, Open
<1>3. CASE s.status = "awaiting_inventory"
  <2> DEFINE t == [s EXCEPT !.parked = [outcome |-> "failed"]]
  <2>1. Save(m.order, t)
    BY <1>3 DEF PaymentDeclined
  <2>2. /\ t \in SagaInstance /\ t.reservation_id = s.reservation_id
        /\ t.price = s.price /\ t.payment_id = s.payment_id
        /\ t.parked.outcome = "failed" /\ t.status = s.status
    BY <1>2 DEF SagaInstance, ParkedFailure
  <2>3. Founded(t, R) /\ Paid(t, R)
    BY <1>2, <1>3, <2>2 DEF Founded, Paid, ParkedIs
  <2>4. Sticks(s, t)
    BY <1>1, <2>2 DEF Sticks, ParkedIs
  <2> QED
    BY <2>1, <2>2, <2>3, <2>4, SaveLeads DEF Founds
<1>4. CASE s.status # "awaiting_inventory"
  <2> DEFINE x == [s EXCEPT !.status = "cancelled", !.parked = None]
  <2>1. EmitCancel(s, m, "payment_failed")
    BY <1>4 DEF PaymentDeclined
  <2>2. /\ x.status = "cancelled" /\ x.payment_id = s.payment_id
        /\ x.reservation_id = s.reservation_id
    BY <1>2 DEF SagaInstance
  <2>3. Sticks(s, x)
    BY <1>1, <2>2 DEF Sticks, Open, ParkedIs
  <2> QED
    BY <1>1, <1>2, <1>4, <2>1, <2>3, CancelLeads
       DEF Founds, CancelReasons, Open
<1> QED
  BY <1>3, <1>4

LEMMA PaymentTakenFounds ==
    ASSUME IInv, Sourced, NEW m \in Inbound, PaymentTaken(m)
    PROVE  Founds(m)
<1> DEFINE s == byOrder[m.order]
           R == Reports(m.order) \cup {m}
<1>1. /\ Started(m.order) /\ Open(s) /\ ~ParkedIs(s, "charged")
      /\ s.payment_id = None /\ m.type = "payment_charged"
  BY DEF PaymentTaken, PaymentReply, Reply
<1>2. /\ s \in SagaInstance /\ Founded(s, R)
      /\ s.status # "awaiting_inventory" => s.reservation_id # None
  BY <1>1, KnownSaga DEF Coherent, OpenOK, Open
<1>3. m.payment_id \in Payments /\ m.price \in Prices
  BY <1>1, MessageFields
<1>4. CASE s.status = "awaiting_inventory"
  <2> DEFINE charge == [outcome |-> "charged", payment_id |-> m.payment_id,
                        price |-> m.price]
             t == [s EXCEPT !.parked = charge]
  <2>1. Save(m.order, t)
    BY <1>4 DEF PaymentTaken
  <2>2. charge \in ParkedCharge
    BY <1>3 DEF ParkedCharge
  <2>3. /\ t \in SagaInstance /\ t.reservation_id = s.reservation_id
        /\ t.price = s.price /\ t.payment_id = s.payment_id
        /\ t.parked = charge /\ t.status = s.status
    BY <1>2, <2>2 DEF SagaInstance
  <2>4. Founded(t, R) /\ Paid(t, R)
    BY <1>1, <1>2, <1>4, <2>3 DEF Founded, Paid, ParkedIs
  <2>5. Sticks(s, t)
    BY <1>1, <2>3 DEF Sticks
  <2> QED
    BY <2>1, <2>3, <2>4, <2>5, SaveLeads DEF Founds
<1>5. CASE s.status # "awaiting_inventory"
  <2>1. SettleCharge(s, m, m.payment_id, m.price)
    BY <1>5 DEF PaymentTaken
  <2>2. \E n \in R : /\ n.type = "payment_charged"
                     /\ n.payment_id = m.payment_id /\ n.price = m.price
    BY <1>1
  <2> QED
    BY <1>1, <1>2, <1>3, <1>5, <2>1, <2>2, SettleLeads DEF Founds
<1> QED
  BY <1>4, <1>5

LEMMA LateLeads ==
    ASSUME NEW m \in Inbound, NEW s \in SagaInstance,
           NEW step \in Compensations, EmitLateWork(s, m, step),
           s.status = "cancelled", s.parked = None,
           s.cancel_reason \in CancelReasons, s.terminal # None,
           NEW R, Founded(s, R),
           byOrder[m.order].status = "cancelled", Sticks(byOrder[m.order], s)
    PROVE  LeadsTo(m.order, R)
<1> DEFINE event == CancelEvent(m, s.cancel_reason, {step})
           r == [[s EXCEPT !.compensations = {step}]
                   EXCEPT !.terminal = event, !.published = FALSE]
           x == [s EXCEPT !.status = "cancelled", !.parked = None]
<1>1. s.cancel_reason # None
  BY NoneIsNoValue
<1>2. CASE ~s.published
  <2>1. EmitCancel(s, m, s.cancel_reason)
    BY <1>1, <1>2 DEF EmitLateWork
  <2>2. x = s
    BY DEF SagaInstance
  <2>3. \/ s.reservation_id # None
        \/ \E n \in R : n.type = "inventory_reservation_failed"
    BY DEF Founded
  <2> QED
    BY <2>1, <2>2, <2>3, CancelLeads
<1>3. CASE s.published
  <2>1. TryPublish(m.order, r)
    BY <1>1, <1>3 DEF EmitLateWork, PublishTerminal
  <2>2. event \in TerminalEvent
    BY MessageFields DEF CancelEvent, CancelledEvent, TerminalEvent
  <2>3. /\ r \in SagaInstance /\ r.status = s.status /\ r.parked = s.parked
        /\ r.price = s.price /\ r.payment_id = s.payment_id
        /\ r.reservation_id = s.reservation_id
    BY <2>2 DEF SagaInstance
  <2>4. PICK t : Stored(r, t) /\ byOrder' = [byOrder EXCEPT ![m.order] = t]
    BY <2>1, <2>3, TryPublishStores
  <2>5. Founded(r, R) /\ Paid(r, R)
    BY <2>3 DEF Founded, Paid, ParkedIs
  <2>6. Founded(t, R) /\ Paid(t, R)
    BY <2>4, <2>5, StoredIsFounded
  <2>7. Sticks(byOrder[m.order], t)
    BY <2>3, <2>4 DEF Stored, Sticks, Open
  <2> QED
    BY <2>4, <2>6, <2>7 DEF LeadsTo, Stored
<1> QED
  BY <1>2, <1>3

LEMMA LateFounds ==
    ASSUME IInv, Sourced, NEW m \in Inbound, LateCharge(m) \/ LateReservation(m)
    PROVE  Founds(m)
<1> DEFINE s == byOrder[m.order]
           R == Reports(m.order) \cup {m}
<1>1. Started(m.order) /\ s.status = "cancelled"
  BY DEF LateCharge, LateReservation, InventoryReply, PaymentReply, Reply
<1>2. /\ s \in SagaInstance /\ s.parked = None /\ s.terminal # None
      /\ s.cancel_reason \in CancelReasons /\ Founded(s, R)
  BY <1>1, KnownSaga DEF Coherent, CancelledOK, SagaInstance
<1>3. CASE LateCharge(m)
  <2> DEFINE t == [s EXCEPT !.payment_id = m.payment_id, !.parked = None]
  <2>1. /\ m.type = "payment_charged" /\ s.payment_id = None
        /\ EmitLateWork(t, m, "refund_payment")
    BY <1>3 DEF LateCharge, PaymentReply, Reply
  <2>2. m.payment_id \in Payments
    BY <2>1, MessageFields
  <2>3. /\ t \in SagaInstance /\ t.status = s.status /\ t.parked = None
        /\ t.payment_id = m.payment_id /\ t.price = s.price
        /\ t.reservation_id = s.reservation_id /\ t.terminal = s.terminal
        /\ t.cancel_reason = s.cancel_reason
    BY <1>2, <2>2 DEF SagaInstance
  <2>4. Founded(t, R)
    BY <1>2, <2>1, <2>3 DEF Founded, ParkedIs
  <2>5. Sticks(s, t)
    BY <1>1, <1>2, <2>1, <2>3 DEF Sticks, Open, ParkedIs
  <2> QED
    BY <1>1, <1>2, <2>1, <2>3, <2>4, <2>5, LateLeads DEF Founds, Compensations
<1>4. CASE LateReservation(m)
  <2> DEFINE t == [s EXCEPT !.reservation_id = m.reservation_id]
  <2>1. /\ m.type = "inventory_reserved" /\ s.reservation_id = None
        /\ EmitLateWork(t, m, "release_inventory")
    BY <1>4 DEF LateReservation, InventoryReply, Reply
  <2>2. m.reservation_id \in Reservations
    BY <2>1, MessageFields
  <2>3. /\ t \in SagaInstance /\ t.status = s.status /\ t.parked = s.parked
        /\ t.reservation_id = m.reservation_id /\ t.price = s.price
        /\ t.payment_id = s.payment_id /\ t.terminal = s.terminal
        /\ t.cancel_reason = s.cancel_reason
    BY <1>2, <2>2 DEF SagaInstance
  <2>4. Founded(t, R)
    BY <1>2, <2>1, <2>3 DEF Founded, ParkedIs
  <2>5. Sticks(s, t)
    BY <1>1, <1>2, <2>1, <2>3 DEF Sticks, Open, ParkedIs
  <2> QED
    BY <1>1, <1>2, <2>1, <2>3, <2>4, <2>5, LateLeads DEF Founds, Compensations
<1> QED
  BY <1>3, <1>4

LEMMA FirstDeliveryFounds ==
    ASSUME IInv, Sourced, NEW m \in Inbound, Handle(m), ~Redelivered(m)
    PROVE  Founds(m) /\ Index(m)
<1>1. Founds(m)
  BY StartFounds, StayFounds, InventoryRefusesFounds, InventoryReservesFounds,
     PaymentDeclinedFounds, PaymentTakenFounds, LateFounds DEF Handle
<1>2. Index(m)
  BY DEF Handle, Start, StartAgain, InventoryConflict, InventoryRefuses,
     InventoryReserves, PaymentIgnored, PaymentDeclined, PaymentTaken,
     LateCharge, LateReservation, LateNothing, InventoryReply, PaymentReply,
     Reply
<1> QED
  BY <1>1, <1>2

(* A step leads one order on, by what has been reported then.              *)
LEMMA NextLeads ==
    ASSUME IInv, Sourced, Next
    PROVE  \E o \in Orders :
              /\ LeadsTo(o, Reports(o)')
              /\ \A p \in Orders : Reports(p) \subseteq Reports(p)'
<1>1. ASSUME NEW m \in Inbound, Handle(m), ~Redelivered(m)
      PROVE  \E o \in Orders :
                /\ LeadsTo(o, Reports(o)')
                /\ \A p \in Orders : Reports(p) \subseteq Reports(p)'
  <2>1. m.order \in Orders /\ m.id \in MessageIds /\ m.order # None
    BY MessageFields, NoneIsNoValue
  <2>2. Founds(m) /\ Index(m)
    BY <1>1, FirstDeliveryFounds
  <2>3. \A n \in Inbound : Seen(n) => Seen(n)'
    BY <2>1, <2>2, MessageFields DEF Index, Seen, IInv, TypeOK
  <2>4. Seen(m)'
    BY <2>1, <2>2 DEF Index, Seen, IInv, TypeOK
  <2>5. \A p \in Orders : Reports(p) \subseteq Reports(p)'
    BY <2>3 DEF Reports
  <2>6. Reports(m.order) \cup {m} \subseteq Reports(m.order)'
    BY <2>1, <2>4, <2>5 DEF Reports
  <2>7. LeadsTo(m.order, Reports(m.order)')
    BY <2>2, <2>6, MoreReports DEF Founds, LeadsTo
  <2> QED
    BY <2>1, <2>5, <2>7
<1>2. ASSUME NEW o \in Orders, Started(o), FinishExisting(o), UNCHANGED byMessage
      PROVE  \E q \in Orders :
                /\ LeadsTo(q, Reports(q)')
                /\ \A p \in Orders : Reports(p) \subseteq Reports(p)'
  <2>1. \A p : Reports(p)' = Reports(p)
    BY <1>2 DEF Reports, Seen
  <2>2. /\ byOrder[o] \in SagaInstance
        /\ Founded(byOrder[o], Reports(o)) /\ Paid(byOrder[o], Reports(o))
    BY <1>2, StartedSaga DEF IInv, Sourced
  <2>3. LeadsTo(o, Reports(o))
    BY <1>2, <2>2, FinishLeads
  <2> QED
    BY <2>1, <2>3
<1>3. ASSUME NEW m \in Inbound, Redelivered(m)
      PROVE  /\ byMessage[m.id] \in Orders /\ Started(byMessage[m.id])
             /\ FinishExisting(byMessage[m.id]) /\ UNCHANGED byMessage
  BY <1>3, MessageFields DEF Redelivered, IInv, Indexed
<1>4. ASSUME NEW e \in events, Echoed(e)
      PROVE  /\ e.order \in Orders /\ Started(e.order)
             /\ FinishExisting(e.order) /\ UNCHANGED byMessage
  <2>1. e.order \in Orders
    BY DEF IInv, TypeOK, TerminalEvent, CompletedEvent, CancelledEvent
  <2> QED
    BY <1>4, <2>1 DEF Echoed, IInv, SagasCoherent, EventsAbout
<1> QED
  BY <1>1, <1>2, <1>3, <1>4 DEF Next

LEMMA NextKeepsSourced == IInv /\ Sourced /\ [Next]_vars => Sourced'
<1> SUFFICES ASSUME IInv, Sourced, [Next]_vars
             PROVE  Sourced'
  OBVIOUS
<1>1. CASE Next
  <2>1. PICK o \in Orders :
              /\ LeadsTo(o, Reports(o)')
              /\ \A p \in Orders : Reports(p) \subseteq Reports(p)'
    BY <1>1, NextLeads
  <2>2. PICK t \in SagaInstance :
          /\ byOrder' = [byOrder EXCEPT ![o] = t]
          /\ Founded(t, Reports(o)') /\ Paid(t, Reports(o)')
    BY <2>1 DEF LeadsTo
  <2>3. ASSUME NEW p \in Orders, byOrder'[p] # None
        PROVE  Founded(byOrder'[p], Reports(p)') /\ Paid(byOrder'[p], Reports(p)')
    <3>1. CASE p = o
      BY <2>2, <3>1 DEF IInv, TypeOK
    <3>2. CASE p # o
      <4>1. byOrder'[p] = byOrder[p] /\ Started(p)
        BY <2>2, <2>3, <3>2 DEF IInv, TypeOK, Started
      <4>2. Founded(byOrder[p], Reports(p)) /\ Paid(byOrder[p], Reports(p))
        BY <4>1 DEF Sourced
      <4> QED
        BY <2>1, <4>1, <4>2, MoreReports
    <3> QED
      BY <3>1, <3>2
  <2> QED
    BY <2>3 DEF Sourced, Started, Founded, Paid, ParkedIs
<1>2. CASE UNCHANGED vars
  <2>1. byOrder' = byOrder /\ byMessage' = byMessage
    BY <1>2 DEF vars
  <2>2. \A p : Reports(p)' = Reports(p)
    BY <2>1 DEF Reports, Seen
  <2> QED
    BY <2>1, <2>2 DEF Sourced, Started, Founded, Paid, ParkedIs
<1> QED
  BY <1>1, <1>2

(* Every effect a saga knows was reported for its order, and a completed   *)
(* order's charge is its price: the second inductive invariant.            *)
THEOREM Sources == Spec => [](IInv /\ Sourced)
<1>1. Init => Sourced
  BY DEF Init, Sourced, Started
<1> QED
  BY <1>1, InitIInv, NextKeepsIInv, NextKeepsSourced, PTL DEF Spec

LEMMA VerdictOfEvent ==
    ASSUME IInv, NEW e \in events
    PROVE  /\ e.order \in Orders /\ Started(e.order)
           /\ byOrder[e.order] \in SagaInstance
           /\ e.type = "order_completed" => /\ byOrder[e.order].status = "completed"
                                            /\ CompletedOK(byOrder[e.order], {e})
                                            /\ byOrder[e.order].terminal = e
           /\ e.type = "order_cancelled" =>
                 e.compensations \subseteq OwedBy(byOrder[e.order])
<1> DEFINE s == byOrder[e.order]
           evs == EventsAbout(e.order, events)
<1>1. e.order \in Orders /\ e \in evs
  BY DEF IInv, TypeOK, TerminalEvent, CompletedEvent, CancelledEvent, EventsAbout
<1>2. Started(e.order) /\ s \in SagaInstance /\ Coherent(s, evs)
  BY <1>1, StartedSaga DEF IInv, SagasCoherent
<1>3. s.status \in {"completed", "cancelled"}
  BY <1>1, <1>2 DEF Coherent, OpenOK, Open, SagaInstance, Statuses
<1>4. CASE s.status = "completed"
  BY <1>1, <1>2, <1>4 DEF Coherent, CompletedOK
<1>5. CASE s.status = "cancelled"
  BY <1>1, <1>2, <1>5 DEF Coherent, CancelledOK
<1> QED
  BY <1>1, <1>2, <1>3, <1>4, <1>5

(* An order is announced as completed only with the reservation and the    *)
(* charge that were reported for it, at the price it was placed at: a      *)
(* parked charge is compared like any other (settleCharge).                *)
THEOREM CompletedOrdersArePaid == Spec => []CompletedOnlyWhenPaid
<1>1. ASSUME IInv, Sourced, NEW e \in events, e.type = "order_completed"
      PROVE  /\ \E m \in Inbound : /\ Handled(m) /\ m.type = "payment_charged"
                                   /\ m.order = e.order
                                   /\ m.payment_id = e.payment_id
                                   /\ m.price = e.price
             /\ \E m \in Inbound : /\ Handled(m) /\ m.type = "inventory_reserved"
                                   /\ m.order = e.order
                                   /\ m.reservation_id = e.reservation_id
             /\ \E m \in Inbound : /\ Handled(m) /\ m.type = "order_created"
                                   /\ m.order = e.order /\ m.price = e.price
  <2> DEFINE s == byOrder[e.order]
             R == Reports(e.order)
  <2>1. /\ e.order \in Orders /\ Started(e.order) /\ s.status = "completed"
        /\ s.terminal = e /\ s.reservation_id # None
    BY <1>1, VerdictOfEvent DEF CompletedOK
  <2>2. Founded(s, R) /\ Paid(s, R)
    BY <1>1, <2>1 DEF Sourced
  <2> QED
    BY <2>1, <2>2 DEF Founded, Paid, Reports, Handled
<1>2. IInv /\ Sourced => CompletedOnlyWhenPaid
  BY <1>1 DEF CompletedOnlyWhenPaid
<1> QED
  BY <1>2, Sources, PTL

(* No refund is asked for without a charge that was handled, no release    *)
(* without a reservation, however the terminal was rebuilt (emitLateWork). *)
THEOREM CompensationsAreJustified == Spec => []CompensationsJustified
<1>1. ASSUME IInv, Sourced, NEW e \in events, e.type = "order_cancelled"
      PROVE  /\ "refund_payment" \in e.compensations =>
                   \E m \in Inbound : Handled(m) /\ m.type = "payment_charged"
                                      /\ m.order = e.order
             /\ "release_inventory" \in e.compensations =>
                   \E m \in Inbound : Handled(m) /\ m.type = "inventory_reserved"
                                      /\ m.order = e.order
  <2> DEFINE s == byOrder[e.order]
  <2>1. Started(e.order) /\ Founded(s, Reports(e.order))
    BY <1>1, VerdictOfEvent DEF Sourced
  <2>2. /\ "refund_payment" \in e.compensations => s.payment_id # None
        /\ "release_inventory" \in e.compensations => s.reservation_id # None
    BY <1>1, VerdictOfEvent DEF OwedBy, CompensationsFor, Compensations
  <2> QED
    BY <2>1, <2>2 DEF Founded, Reports, Handled
<1>2. IInv /\ Sourced => CompensationsJustified
  BY <1>1 DEF CompensationsJustified
<1> QED
  BY <1>2, Sources, PTL

(* A step leaves every saga alone but one, which it sticks to.             *)
LEMMA NextSticks ==
    ASSUME IInv, Sourced, [Next]_vars, NEW o \in Orders, Started(o)
    PROVE  byOrder'[o] = byOrder[o] \/ Sticks(byOrder[o], byOrder'[o])
<1>1. CASE Next
  <2>1. PICK p \in Orders : LeadsTo(p, Reports(p)')
    BY <1>1, NextLeads
  <2>2. PICK t \in SagaInstance : /\ byOrder' = [byOrder EXCEPT ![p] = t]
                                  /\ Started(p) => Sticks(byOrder[p], t)
    BY <2>1 DEF LeadsTo
  <2> QED
    BY <2>2 DEF IInv, TypeOK
<1>2. CASE UNCHANGED vars
  BY <1>2 DEF vars
<1> QED
  BY <1>1, <1>2

(* A verdict is final, and neither a bound effect nor a parked charge is   *)
(* ever replaced or forgotten by a reply that is late or contradicts it.   *)
THEOREM DecisionsAreFinal == Spec => DecisionsStick
<1> DEFINE Sticking ==
      \A o \in Orders : Started(o) =>
         LET s == byOrder[o]
             t == byOrder'[o]
         IN  /\ ~Open(s) => t.status = s.status
             /\ s.reservation_id # None => t.reservation_id = s.reservation_id
             /\ s.payment_id # None => t.payment_id = s.payment_id
             /\ ParkedIs(s, "charged") =>
                   \/ t.parked = s.parked
                   \/ t.payment_id = s.parked.payment_id
<1>1. IInv /\ Sourced /\ [Next]_vars => [Sticking]_vars
  BY NextSticks DEF Sticks
<1> QED
  BY <1>1, Sources, PTL DEF Spec, DecisionsStick

-----------------------------------------------------------------------------
(* The refinement.                                                         *)

(* A step gives one order a coherent saga; a new one knows nothing.        *)
Fresh(t) ==
    Open(t) /\ t.payment_id = None /\ t.reservation_id = None /\ t.parked = None

LEMMA NextIsCoherent ==
    ASSUME IInv, Next
    PROVE  \E o \in Orders, t \in SagaInstance :
              CoherentStep(o, t) /\ Grows(o, t) /\ (~Started(o) => Fresh(t))
<1>1. ASSUME NEW m \in Inbound, Handle(m), ~Redelivered(m)
      PROVE  \E o \in Orders, t \in SagaInstance :
              CoherentStep(o, t) /\ Grows(o, t) /\ (~Started(o) => Fresh(t))
  <2>1. m.order \in Orders
    BY MessageFields
  <2>2. PICK t : CoherentStep(m.order, t) /\ Grows(m.order, t)
    BY <1>1, FirstDeliveryHandles DEF Handles
  <2>3. ~Started(m.order) => Start(m)
    BY <1>1 DEF Handle, StartAgain, InventoryConflict, InventoryRefuses,
       InventoryReserves, PaymentIgnored, PaymentDeclined, PaymentTaken,
       LateCharge, LateReservation, LateNothing, InventoryReply, PaymentReply,
       Reply
  <2>4. ~Started(m.order) => t = NewSaga(m)
    BY <2>1, <2>2, <2>3 DEF Start, Save, CoherentStep, IInv, TypeOK
  <2>5. t \in SagaInstance
    BY <2>2 DEF CoherentStep
  <2> QED
    BY <2>1, <2>2, <2>4, <2>5 DEF NewSaga, Fresh, Open
<1>2. ASSUME NEW o \in Orders, Started(o), FinishExisting(o)
      PROVE  \E t \in SagaInstance : CoherentStep(o, t) /\ Grows(o, t)
  <2>1. Becomes(o, byOrder[o])
    BY <1>2, FinishExistingStep DEF IInv
  <2> QED
    BY <2>1, BecomesGrows DEF Grows, CoherentStep
<1>3. ASSUME NEW m \in Inbound, Redelivered(m)
      PROVE  /\ byMessage[m.id] \in Orders /\ Started(byMessage[m.id])
             /\ FinishExisting(byMessage[m.id])
  BY <1>3, MessageFields DEF Redelivered, IInv, Indexed
<1>4. ASSUME NEW e \in events, Echoed(e)
      PROVE  e.order \in Orders /\ Started(e.order) /\ FinishExisting(e.order)
  <2>1. e.order \in Orders
    BY DEF IInv, TypeOK, TerminalEvent, CompletedEvent, CancelledEvent
  <2> QED
    BY <1>4, <2>1 DEF Echoed, IInv, SagasCoherent, EventsAbout
<1> QED
  BY <1>1, <1>2, <1>3, <1>4 DEF Next

(* Announced(o), by what the broker carries about o in evs.                *)
Told(o, evs) == Carried({e \in evs : e.type = "order_cancelled" /\ e.order = o})

LEMMA AnnouncedIsTold ==
    /\ \A o : Announced(o) = Told(o, events)
    /\ \A o : Announced(o)' = Told(o, events')
BY DEF Announced, Told, Carried

LEMMA UndecidedToldNothing ==
    ASSUME NEW o, NEW s \in SagaInstance, NEW evs, Coherent(s, EventsAbout(o, evs)),
           s.status # "cancelled"
    PROVE  Told(o, evs) = {}
BY DEF Coherent, OpenOK, CompletedOK, Open, SagaInstance, Statuses, Told,
       Carried, EventsAbout

(* Publishing a cancellation announces all that is owed.                   *)
LEMMA PublishedTellsAll ==
    ASSUME NEW o, NEW s, NEW evs, CancelledOK(s, EventsAbout(o, evs)),
           s.terminal \in evs, s.terminal.order = o
    PROVE  Told(o, evs) = OwedBy(s)
<1> DEFINE about == EventsAbout(o, evs)
<1>1. s.terminal \in about
  BY DEF EventsAbout
<1>2. Told(o, evs) = Carried(about)
  BY DEF Told, Carried, EventsAbout, CancelledOK
<1>3. s.terminal.compensations \subseteq Carried(about)
  BY <1>1 DEF Carried
<1>4. OwedBy(s) \subseteq Carried(about)
  BY <1>3 DEF CancelledOK
<1>5. Carried(about) \subseteq OwedBy(s)
  BY DEF Carried, CancelledOK
<1> QED
  BY <1>2, <1>4, <1>5

LEMMA OwedIsOwed ==
    ASSUME NEW s, s.parked = None
    PROVE  OwedBy(s) = Verdict!Owed(KnownEffects(s))
BY DEF OwedBy, CompensationsFor, Compensations, Verdict!Owed, Verdict!Undoing,
       KnownEffects, ParkedIs

LEMMA KnownAreEffects == \A s : KnownEffects(s) \in SUBSET Verdict!Effects
BY DEF KnownEffects, Verdict!Effects

(* A step of one order's saga is a step of its verdict, or none.           *)
LEMMA StepImplementsVerdict ==
    ASSUME IInv, NEW o \in Orders, NEW t, CoherentStep(o, t), Grows(o, t),
           Started(o) => Sticks(byOrder[o], t), ~Started(o) => Fresh(t)
    PROVE  [Verdict!Next]_(Verdict!vars)
<1> DEFINE s == byOrder[o]
           v == [p \in Orders |-> VerdictOf(p)]
           k == [p \in Orders |-> EffectsOf(p)]
           a == [p \in Orders |-> Announced(p)]
<1>1. /\ t \in SagaInstance /\ Coherent(t, EventsAbout(o, events')) /\ t # None
      /\ byOrder'[o] = t /\ \A p \in Orders \ {o} : byOrder'[p] = byOrder[p]
  BY NoneIsNoRecord DEF CoherentStep, IInv, TypeOK
<1>2. ASSUME NEW p \in Orders \ {o}
      PROVE  /\ VerdictOf(p)' = VerdictOf(p) /\ EffectsOf(p)' = EffectsOf(p)
             /\ Announced(p)' = Announced(p)
  <2>1. VerdictOf(p)' = VerdictOf(p) /\ EffectsOf(p)' = EffectsOf(p)
    BY <1>1 DEF VerdictOf, EffectsOf, KnownEffects, Started, Open, ParkedIs
  <2>2. {e \in events' : e.type = "order_cancelled" /\ e.order = p}
          = {e \in events : e.type = "order_cancelled" /\ e.order = p}
    BY DEF CoherentStep
  <2> QED
    BY <2>1, <2>2, AnnouncedIsTold DEF Told
<1>3. /\ v' = [v EXCEPT ![o] = VerdictOf(o)']
      /\ k' = [k EXCEPT ![o] = EffectsOf(o)']
      /\ a' = [a EXCEPT ![o] = Announced(o)']
  BY <1>2
<1>4. /\ VerdictOf(o)' = IF Open(t) THEN "open" ELSE t.status
      /\ EffectsOf(o)' = KnownEffects(t) /\ Announced(o)' = Told(o, events')
      /\ Announced(o) = Told(o, events)
  BY <1>1, AnnouncedIsTold DEF VerdictOf, EffectsOf, Started, Open, KnownEffects, ParkedIs
<1>5. /\ v[o] = VerdictOf(o) /\ k[o] = EffectsOf(o) /\ a[o] = Announced(o)
  OBVIOUS
<1>6. CASE ~Started(o)
  <2>1. VerdictOf(o) = "open" /\ EffectsOf(o) = {} /\ Announced(o) = {}
    <3>1. EventsAbout(o, events) = {}
      BY <1>6 DEF IInv, SagasCoherent
    <3>2. Announced(o) = {}
      BY <3>1 DEF EventsAbout, Announced
    <3> QED
      BY <1>6, <3>2 DEF VerdictOf, EffectsOf
  <2>2. VerdictOf(o)' = "open" /\ EffectsOf(o)' = {}
    BY <1>4, <1>6 DEF Fresh, KnownEffects, ParkedIs
  <2>3. Announced(o)' = {}
    BY <1>1, <1>4, <1>6, UndecidedToldNothing DEF Fresh, Open
  <2>4. v' = v /\ k' = k /\ a' = a
    BY <1>3, <1>5, <2>1, <2>2, <2>3
  <2> QED
    BY <2>4 DEF Verdict!vars
<1>7. CASE Started(o)
  <2>1. /\ s \in SagaInstance /\ Coherent(s, EventsAbout(o, events))
        /\ VerdictOf(o) = (IF Open(s) THEN "open" ELSE s.status)
        /\ EffectsOf(o) = KnownEffects(s)
    BY <1>7, StartedSaga DEF IInv, VerdictOf, EffectsOf
  <2>2. KnownEffects(s) \subseteq KnownEffects(t)
    BY <1>7 DEF Grows, KnownEffects, ChargeKnown
  <2>3. CASE Open(s) /\ Open(t)
    <3>1. \/ KnownEffects(t) = KnownEffects(s)
          \/ \E e \in Verdict!Effects : KnownEffects(t) = KnownEffects(s) \cup {e}
      <4>1. CASE t.reservation_id = s.reservation_id
        <5>1. KnownEffects(t) \in {KnownEffects(s), KnownEffects(s) \cup {"charge"}}
          BY <2>2, <4>1 DEF KnownEffects
        <5> QED
          BY <5>1 DEF Verdict!Effects
      <4>2. CASE t.payment_id = s.payment_id /\ t.parked = s.parked
        <5>1. KnownEffects(t) \in {KnownEffects(s), KnownEffects(s) \cup {"stock"}}
          BY <2>2, <4>2 DEF KnownEffects, ParkedIs
        <5> QED
          BY <5>1 DEF Verdict!Effects
      <4> QED
        BY <1>7, <2>3, <4>1, <4>2 DEF Sticks
    <3>2. Announced(o) = {} /\ Announced(o)' = {}
      BY <1>1, <1>4, <2>1, <2>3, UndecidedToldNothing DEF Open
    <3>3. v' = v /\ a' = a /\ v[o] = "open"
      BY <1>3, <1>4, <1>5, <2>1, <2>3, <3>2
    <3>4. k' = [k EXCEPT ![o] = KnownEffects(t)] /\ k[o] = KnownEffects(s)
      BY <1>3, <1>4, <1>5, <2>1
    <3>5. CASE KnownEffects(t) = KnownEffects(s)
      <4>1. k' = k
        BY <3>4, <3>5
      <4> QED
        BY <3>3, <4>1 DEF Verdict!vars
    <3>6. CASE \E e \in Verdict!Effects : KnownEffects(t) = KnownEffects(s) \cup {e}
      <4>1. \E e \in Verdict!Effects : k' = [k EXCEPT ![o] = @ \cup {e}]
        BY <3>4, <3>6
      <4>2. Verdict!Learn(o)
        BY <3>3, <4>1 DEF Verdict!Learn
      <4> QED
        BY <4>2 DEF Verdict!Next
    <3> QED
      BY <3>1, <3>5, <3>6
  <2>4. CASE Open(s) /\ t.status = "completed"
    <3>1. KnownEffects(t) = Verdict!Effects
      BY <1>1, <2>4 DEF Coherent, CompletedOK, KnownEffects, Verdict!Effects
    <3>2. Announced(o) = {} /\ Announced(o)' = {}
      BY <1>1, <1>4, <2>1, <2>4, UndecidedToldNothing DEF Open
    <3>3. a' = a /\ v[o] = "open" /\ v' = [v EXCEPT ![o] = "completed"]
      BY <1>3, <1>4, <1>5, <2>1, <2>4, <3>2 DEF Open
    <3>4. k' = [k EXCEPT ![o] = Verdict!Effects]
      BY <1>3, <1>4, <3>1
    <3>5. Verdict!Complete(o)
      BY <3>3, <3>4 DEF Verdict!Complete
    <3> QED
      BY <3>5 DEF Verdict!Next
  <2>5. CASE ~Open(s) /\ s.status # "cancelled"
    <3>1. s.status = "completed" /\ t.status = "completed"
      BY <1>7, <2>1, <2>5 DEF Sticks, Open, SagaInstance, Statuses
    <3>2. KnownEffects(t) = KnownEffects(s)
      BY <1>1, <2>1, <3>1 DEF Coherent, CompletedOK, KnownEffects
    <3>3. Announced(o) = {} /\ Announced(o)' = {}
      BY <1>1, <1>4, <2>1, <3>1, UndecidedToldNothing
    <3>4. v' = v /\ k' = k /\ a' = a
      BY <1>3, <1>4, <1>5, <2>1, <3>1, <3>2, <3>3 DEF Open
    <3> QED
      BY <3>4 DEF Verdict!vars
  <2>6. CASE t.status = "cancelled"
    <3> DEFINE known == KnownEffects(t)
    <3>1. known \in SUBSET Verdict!Effects /\ k[o] \subseteq known
      BY <1>5, <2>1, <2>2, KnownAreEffects
    <3>2. k' = [k EXCEPT ![o] = known]
      BY <1>3, <1>4
    <3>3. CancelledOK(t, EventsAbout(o, events')) /\ ~Open(t)
      BY <1>1, <2>6 DEF Coherent, Open
    <3>4. a' = a \/ a' = [a EXCEPT ![o] = Verdict!Owed(known)]
      <4>1. CASE events' = events
        <5>1. Announced(o)' = Announced(o)
          BY <1>4, <4>1
        <5> QED
          BY <1>3, <1>5, <5>1
      <4>2. CASE t.terminal # None /\ events' = events \cup {t.terminal}
        <5>1. t.terminal.order = o
          BY <4>2 DEF CoherentStep
        <5>2. Told(o, events') = OwedBy(t)
          BY <3>3, <4>2, <5>1, PublishedTellsAll
        <5>3. OwedBy(t) = Verdict!Owed(known)
          BY <3>3, OwedIsOwed DEF CancelledOK
        <5> QED
          BY <1>3, <1>4, <5>2, <5>3
      <4> QED
        BY <4>1, <4>2 DEF CoherentStep
    <3>5. v' = [v EXCEPT ![o] = "cancelled"]
      BY <1>3, <1>4, <2>6, <3>3
    <3>6. CASE Open(s)
      <4>1. v[o] = "open"
        BY <1>5, <2>1, <3>6
      <4>2. Verdict!Cancel(o)
        BY <3>1, <3>2, <3>4, <3>5, <4>1 DEF Verdict!Cancel
      <4> QED
        BY <4>2 DEF Verdict!Next
    <3>7. CASE s.status = "cancelled"
      <4>1. v[o] = "cancelled"
        BY <1>5, <2>1, <3>7 DEF Open
      <4>2. v' = v
        BY <3>5, <4>1
      <4>3. Verdict!Compensate(o)
        BY <3>1, <3>2, <3>4, <4>1, <4>2 DEF Verdict!Compensate
      <4> QED
        BY <4>3 DEF Verdict!Next
    <3> QED
      BY <1>7, <2>1, <2>6, <3>6, <3>7 DEF Sticks, Open, SagaInstance, Statuses
  <2> QED
    BY <1>1, <1>7, <2>1, <2>3, <2>4, <2>5, <2>6 DEF Sticks, Open, SagaInstance, Statuses
<1> QED
  BY <1>6, <1>7

(* The saga implements OrderVerdict: whatever is lost, repeated, reordered *)
(* or parked, an order gets one verdict, and what is announced for it is   *)
(* what its known effects owe, the customer first.                         *)
THEOREM Refinement == Spec => ImplementsVerdict
<1>1. Init => Verdict!Init
  BY DEF Init, Verdict!Init, VerdictOf, EffectsOf, Announced, Started
<1>2. IInv /\ Sourced /\ [Next]_vars => [Verdict!Next]_(Verdict!vars)
  <2> SUFFICES ASSUME IInv, Sourced, [Next]_vars
               PROVE  [Verdict!Next]_(Verdict!vars)
    OBVIOUS
  <2>1. CASE Next
    <3>2. PICK o \in Orders, t \in SagaInstance :
            CoherentStep(o, t) /\ Grows(o, t) /\ (~Started(o) => Fresh(t))
      BY <2>1, NextIsCoherent
    <3>3. byOrder'[o] = t
      BY <3>2 DEF CoherentStep, IInv, TypeOK
    <3>4. Started(o) => Sticks(byOrder[o], t)
      BY <2>1, <3>3, NextSticks DEF Sticks
    <3> QED
      BY <3>2, <3>4, StepImplementsVerdict
  <2>2. CASE UNCHANGED vars
    BY <2>2 DEF vars, Verdict!vars, VerdictOf, EffectsOf, Announced, Started,
       Open, KnownEffects, ParkedIs
  <2> QED
    BY <2>1, <2>2
<1> QED
  BY <1>1, <1>2, Sources, PTL DEF Spec, ImplementsVerdict, Verdict!Spec

-----------------------------------------------------------------------------
(* The services beside the saga.                                           *)

StockProofs == INSTANCE InventoryProofs WITH
    MessageIds <- MessageIds \cup CancelledEvent,
    Inbound <- {OrderPlaced(m) : m \in Placed}
                 \cup {OrderCancelled(e) : e \in CancelledEvent},
    byOrder <- reservation, cancelled <- released, events <- replies

BillingProofs == INSTANCE PaymentsProofs WITH events <- receipts

-----------------------------------------------------------------------------
(* The services assume what Mesh does.                                     *)

LEMMA StockAssumed ==
    /\ StockProofs!SkusAndWarehousesOrdered /\ StockProofs!LotsTyped
    /\ StockProofs!SeedSizesTyped /\ StockProofs!DemandsTyped
    /\ StockProofs!InboundTyped /\ StockProofs!UniqueIds
    /\ StockProofs!NoneIsNoRecord
BY StockAssumptions
   DEF Stock!SkusAndWarehousesOrdered, Stock!LotsTyped, Stock!SeedSizesTyped,
       Stock!DemandsTyped, Stock!InboundTyped, Stock!UniqueIds,
       Stock!NoneIsNoRecord, Stock!OrderCreated, Stock!OrderCancelled,
       Stock!RecordRow, Stock!StockLot, Stock!ReplyEvent,
       StockProofs!SkusAndWarehousesOrdered, StockProofs!LotsTyped,
       StockProofs!SeedSizesTyped, StockProofs!DemandsTyped,
       StockProofs!InboundTyped, StockProofs!UniqueIds,
       StockProofs!NoneIsNoRecord, StockProofs!OrderCreated,
       StockProofs!OrderCancelled, StockProofs!RecordRow,
       StockProofs!StockLot, StockProofs!ReplyEvent

LEMMA BillingAssumed ==
    /\ BillingProofs!MaxSafeIsNat /\ BillingProofs!CreditsTyped
    /\ BillingProofs!ReserveTyped /\ BillingProofs!ChargeTyped
    /\ BillingProofs!NoneIsNoValue
BY BillingAssumptions
   DEF Billing!MaxSafeIsNat, Billing!CreditsTyped, Billing!ReserveTyped,
       Billing!ChargeTyped, Billing!NoneIsNoValue, Billing!Cents,
       Billing!PaymentRecord, Billing!PaymentEvent,
       BillingProofs!MaxSafeIsNat, BillingProofs!CreditsTyped,
       BillingProofs!ReserveTyped, BillingProofs!ChargeTyped,
       BillingProofs!NoneIsNoValue, BillingProofs!Cents,
       BillingProofs!PaymentRecord, BillingProofs!PaymentEvent

-----------------------------------------------------------------------------
(* Every action of a service is one of the instance that proves about it.  *)

LEMMA SameCharges ==
    ASSUME NEW r
    PROVE  /\ Billing!Charge(r) => BillingProofs!Charge(r)
           /\ Billing!ChargeAgain(r) => BillingProofs!ChargeAgain(r)
BY DEF Billing!Charge, Billing!ChargeAgain, Billing!Capture,
       Billing!TryPublish, Billing!FinishExisting, Billing!BindCharge,
       BillingProofs!Charge, BillingProofs!ChargeAgain,
       BillingProofs!Capture, BillingProofs!TryPublish,
       BillingProofs!FinishExisting, BillingProofs!BindCharge

LEMMA SameReserves ==
    ASSUME NEW r
    PROVE  /\ Billing!Reserve(r) => BillingProofs!Reserve(r)
           /\ Billing!FailReserve(r) => BillingProofs!FailReserve(r)
           /\ Billing!ReserveAgain(r) => BillingProofs!ReserveAgain(r)
BY DEF Billing!Reserve, Billing!FailReserve, Billing!ReserveAgain,
       Billing!KeyIsNew, Billing!SameRequest, Billing!CanAuthorize,
       Billing!Authorize, Billing!NewPayment, Billing!TryPublish,
       Billing!FinishExisting, Billing!Cents,
       BillingProofs!Reserve, BillingProofs!FailReserve,
       BillingProofs!ReserveAgain, BillingProofs!KeyIsNew,
       BillingProofs!SameRequest, BillingProofs!CanAuthorize,
       BillingProofs!Authorize, BillingProofs!NewPayment,
       BillingProofs!TryPublish, BillingProofs!FinishExisting,
       BillingProofs!Cents

LEMMA SameCredit ==
    ASSUME NEW c, NEW cents
    PROVE  Billing!Credit(c, cents) => BillingProofs!Credit(c, cents)
BY DEF Billing!Credit, Billing!Cents, BillingProofs!Credit,
       BillingProofs!Cents

LEMMA SameBilling == Billing!Next => BillingProofs!Next
BY SameCharges, SameReserves, SameCredit DEF Billing!Next, BillingProofs!Next

LEMMA SameReservations ==
    ASSUME NEW m
    PROVE  /\ Stock!ReserveStock(m) => StockProofs!ReserveStock(m)
           /\ Stock!RefuseStock(m) => StockProofs!RefuseStock(m)
           /\ Stock!ReserveAgain(m) => StockProofs!ReserveAgain(m)
BY DEF Stock!ReserveStock, Stock!RefuseStock, Stock!ReserveAgain,
       Stock!First, Stock!Holders, Stock!CanHold, Stock!Available,
       Stock!Moved, Stock!Min, Stock!PersistOutcome, Stock!Reply,
       Stock!NoLines, Stock!TryPublish, Stock!FinishExisting,
       StockProofs!ReserveStock, StockProofs!RefuseStock,
       StockProofs!ReserveAgain, StockProofs!First, StockProofs!Holders,
       StockProofs!CanHold, StockProofs!Available, StockProofs!Moved,
       StockProofs!Min, StockProofs!PersistOutcome, StockProofs!Reply,
       StockProofs!NoLines, StockProofs!TryPublish,
       StockProofs!FinishExisting

LEMMA SameReleases ==
    ASSUME NEW m
    PROVE  /\ Stock!Tombstone(m) => StockProofs!Tombstone(m)
           /\ Stock!Release(m) => StockProofs!Release(m)
           /\ Stock!ReleaseFails(m) => StockProofs!ReleaseFails(m)
BY DEF Stock!Tombstone, Stock!Release, Stock!ReleaseFails,
       Stock!AsksRelease, Stock!CanUnhold, Stock!Moved, Stock!NoLines,
       StockProofs!Tombstone, StockProofs!Release, StockProofs!ReleaseFails,
       StockProofs!AsksRelease, StockProofs!CanUnhold, StockProofs!Moved,
       StockProofs!NoLines

LEMMA SameStock ==
    /\ \A m : Stock!Handle(m) => StockProofs!Handle(m)
    /\ \A l, n : Stock!Seed(l, n) => StockProofs!Seed(l, n)
    /\ \A w : Stock!MarkWarehouseDown(w) => StockProofs!MarkWarehouseDown(w)
<1>1. ASSUME NEW m, Stock!Handle(m) PROVE StockProofs!Handle(m)
  BY <1>1, SameReservations, SameReleases
     DEF Stock!Handle, StockProofs!Handle
<1>2. ASSUME NEW l, NEW n, Stock!Seed(l, n) PROVE StockProofs!Seed(l, n)
  BY <1>2 DEF Stock!Seed, StockProofs!Seed
<1>3. ASSUME NEW w, Stock!MarkWarehouseDown(w)
      PROVE  StockProofs!MarkWarehouseDown(w)
  BY <1>3 DEF Stock!MarkWarehouseDown, StockProofs!MarkWarehouseDown
<1> QED
  BY <1>1, <1>2, <1>3

-----------------------------------------------------------------------------
(* The composition refines each of its parts.                              *)

LEMMA OutAreTerminals ==
    ASSUME TypeOK, NEW e \in events, e.type = "order_cancelled"
    PROVE  e \in CancelledEvent
BY DEF TypeOK, TerminalEvent, CompletedEvent

(* In the mesh, the saga is the saga of OrderSaga.                         *)
THEOREM SagaRuns == MeshSpec => Spec
<1>1. MeshInit => Init
  BY DEF MeshInit
<1>2. [MeshNext]_meshVars => [Next]_vars
  BY DEF MeshNext, SagaHandles, InventoryHandles, StockChanges, CustomerPays,
         Next, meshVars
<1> QED
  BY <1>1, <1>2, PTL DEF MeshSpec, Spec

(* In the mesh, payments is the service of Payments.                       *)
THEOREM BillingRuns == MeshSpec => BillingProofs!Spec
<1>1. MeshInit => BillingProofs!Init
  BY DEF MeshInit, Billing!Init, BillingProofs!Init
<1>2. [MeshNext]_meshVars => [BillingProofs!Next]_BillingProofs!vars
  BY SameBilling
     DEF MeshNext, SagaHandles, InventoryHandles, StockChanges, CustomerPays,
         meshVars, billingVars, BillingProofs!vars
<1> QED
  BY <1>1, <1>2, PTL DEF MeshSpec, BillingProofs!Spec

(* In the mesh, inventory is the service of Inventory: only cancellations  *)
(* that the saga published reach it.                                       *)
THEOREM StockRuns == MeshSpec => StockProofs!Spec
<1>1. MeshInit => StockProofs!Init
  BY DEF MeshInit, Stock!Init, StockProofs!Init
<1>2. TypeOK /\ [MeshNext]_meshVars => [StockProofs!Next]_StockProofs!vars
  BY SameStock, OutAreTerminals
     DEF MeshNext, SagaHandles, InventoryHandles, StockChanges, CustomerPays,
         meshVars, stockVars, StockProofs!vars, StockProofs!Next
<1> QED
  BY <1>1, <1>2, SagaRuns, TypeCorrect, PTL DEF MeshSpec, StockProofs!Spec

-----------------------------------------------------------------------------
(* What holds between the services: the saga handled only what was out,    *)
(* and only an order that the saga cancelled has its stock given back.     *)
Linked ==
    /\ \A m \in Inbound : Seen(m) => OnBroker(m)
    /\ \A o \in Orders :
         reservation[o] # None /\ reservation[o].status = "released" =>
             \E e \in events : e.type = "order_cancelled" /\ e.order = o

(* What is on the broker stays there.                                      *)
LEMMA OutStaysOut ==
    ASSUME replies \subseteq replies', receipts \subseteq receipts',
           NEW m \in Inbound, OnBroker(m)
    PROVE  OnBroker(m)'
BY DEF OnBroker

LEMMA SagaKeepsEvents ==
    ASSUME IInv, NEW m \in Inbound, Handle(m)
    PROVE  /\ events \subseteq events'
           /\ \A n \in Inbound : Seen(n)' => Seen(n) \/ n = m
<1>1. CASE Redelivered(m)
  <2>1. byMessage' = byMessage
    BY <1>1 DEF Redelivered
  <2>2. byMessage[m.id] \in Orders /\ Started(byMessage[m.id])
    BY <1>1, MessageFields DEF Redelivered, IInv, Indexed
  <2>3. Becomes(byMessage[m.id], byOrder[byMessage[m.id]])
    BY <1>1, <2>2, FinishExistingStep DEF Redelivered, IInv
  <2> QED
    BY <2>1, <2>3 DEF Becomes, CoherentStep, Seen
<1>2. CASE ~Redelivered(m)
  <2>1. PICK t : CoherentStep(m.order, t) /\ Index(m)
    BY <1>2, FirstDeliveryHandles DEF Handles
  <2>2. events \subseteq events'
    BY <2>1 DEF CoherentStep
  <2>3. ASSUME NEW n \in Inbound, Seen(n)', ~Seen(n)
        PROVE  n = m
    <3>1. n.id \in MessageIds /\ m.id \in MessageIds
      BY MessageFields
    <3>2. n.id = m.id
      BY <2>1, <2>3, <3>1 DEF Seen, Index, IInv, TypeOK
    <3> QED
      BY <3>2, UniqueIds
  <2> QED
    BY <2>2, <2>3
<1> QED
  BY <1>1, <1>2

LEMMA StockKeepsReplies ==
    ASSUME StockProofs!IInv, NEW m, m.order \in Orders, Stock!Handle(m)
    PROVE  /\ replies \subseteq replies'
           /\ \A o \in Orders :
                reservation'[o] # None /\ reservation'[o].status = "released"
                => \/ m.type = "order_cancelled" /\ m.order = o
                   \/ /\ reservation[o] # None
                      /\ reservation[o].status = "released"
<1>0. reservation \in [Orders -> StockProofs!RecordRow \cup {None}]
  BY DEF StockProofs!IInv, StockProofs!TypeOK
<1>1. CASE Stock!ReserveStock(m) \/ Stock!RefuseStock(m)
  <2>1. PICK status, type, items :
          /\ status \in {"reserved", "failed"}
          /\ Stock!PersistOutcome(m, status, type, items)
    <3>1. CASE Stock!ReserveStock(m)
      BY <3>1 DEF Stock!ReserveStock
    <3>2. CASE Stock!RefuseStock(m)
      BY <3>2 DEF Stock!RefuseStock
    <3> QED
      BY <1>1, <3>1, <3>2
  <2> DEFINE row == [status |-> status, demand |-> m.demand, items |-> items,
                     source |-> m.id,
                     event |-> Stock!Reply(type, m.order, m.id),
                     published |-> FALSE]
  <2>2. Stock!TryPublish(m.order, row)
    BY <2>1 DEF Stock!PersistOutcome
  <2>3. PICK result \in {"ok", "lost", "unconfirmed"} :
          reservation' = [reservation EXCEPT ![m.order] =
                            [row EXCEPT !.published = (result = "ok")]]
    BY <2>2 DEF Stock!TryPublish
  <2>4. replies \subseteq replies'
    BY <2>2 DEF Stock!TryPublish
  <2>5. [row EXCEPT !.published = (result = "ok")].status = status
    OBVIOUS
  <2> HIDE DEF row
  <2> QED
    BY <1>0, <2>1, <2>3, <2>4, <2>5
<1>2. CASE Stock!ReserveAgain(m)
  <2>1. reservation[m.order] \in StockProofs!RecordRow
    BY <1>0, <1>2 DEF Stock!ReserveAgain
  <2> QED
    BY <1>0, <1>2, <2>1 DEF Stock!ReserveAgain, Stock!FinishExisting,
       Stock!TryPublish, StockProofs!RecordRow
<1>3. CASE Stock!Tombstone(m) \/ Stock!Release(m)
  BY <1>0, <1>3 DEF Stock!Tombstone, Stock!Release, Stock!AsksRelease
<1>4. CASE Stock!ReleaseFails(m)
  BY <1>4 DEF Stock!ReleaseFails
<1> QED
  BY <1>1, <1>2, <1>3, <1>4 DEF Stock!Handle

LEMMA BillingKeepsReceipts ==
    ASSUME Billing!Next
    PROVE  receipts \subseteq receipts'
BY DEF Billing!Next, Billing!Credit, Billing!Reserve, Billing!FailReserve,
   Billing!ReserveAgain, Billing!Charge, Billing!ChargeAgain,
   Billing!FinishExisting, Billing!TryPublish

LEMMA StepKeepsLinked ==
    ASSUME IInv, StockProofs!IInv, Linked, [MeshNext]_meshVars
    PROVE  Linked'
<1>1. CASE SagaHandles
  <2>1. PICK m \in Inbound : OnBroker(m) /\ Handle(m)
    BY <1>1 DEF SagaHandles
  <2>2. /\ events \subseteq events'
        /\ \A n \in Inbound : Seen(n)' => Seen(n) \/ n = m
    BY <2>1, SagaKeepsEvents
  <2>3. /\ replies' = replies /\ receipts' = receipts
        /\ reservation' = reservation
    BY <1>1 DEF SagaHandles, stockVars, billingVars
  <2>4. \A n \in Inbound : Seen(n)' => OnBroker(n)'
    BY <2>1, <2>2, <2>3, OutStaysOut DEF Linked
  <2> QED
    BY <2>2, <2>3, <2>4 DEF Linked
<1>2. CASE InventoryHandles
  <2>1. PICK m : /\ m.order \in Orders /\ Stock!Handle(m)
                 /\ m.type = "order_cancelled" =>
                      \E e \in events : /\ e.type = "order_cancelled"
                                        /\ e.order = m.order
    <3>1. CASE \E n \in Placed : Stock!Handle(OrderPlaced(n))
      <4>1. PICK n \in Placed : Stock!Handle(OrderPlaced(n))
        BY <3>1
      <4>2. n.order \in Orders
        BY MessageFields DEF Placed
      <4> QED
        BY <4>1, <4>2 DEF OrderPlaced
    <3>2. CASE \E e \in events : /\ e.type = "order_cancelled"
                                 /\ Stock!Handle(OrderCancelled(e))
      <4>1. PICK e \in events : /\ e.type = "order_cancelled"
                                /\ Stock!Handle(OrderCancelled(e))
        BY <3>2
      <4>2. e.order \in Orders
        BY VerdictOfEvent
      <4> QED
        BY <4>1, <4>2 DEF OrderCancelled
    <3> QED
      BY <1>2, <3>1, <3>2 DEF InventoryHandles
  <2>2. /\ replies \subseteq replies'
        /\ \A o \in Orders :
             reservation'[o] # None /\ reservation'[o].status = "released"
             => \/ m.type = "order_cancelled" /\ m.order = o
                \/ /\ reservation[o] # None
                   /\ reservation[o].status = "released"
    BY <2>1, StockKeepsReplies
  <2>3. events' = events /\ byMessage' = byMessage /\ receipts' = receipts
    BY <1>2 DEF InventoryHandles, vars, billingVars
  <2>4. \A n \in Inbound : Seen(n)' => OnBroker(n)'
    BY <2>2, <2>3, OutStaysOut DEF Linked, Seen
  <2>5. \A o \in Orders :
          reservation'[o] # None /\ reservation'[o].status = "released" =>
              \E e \in events' : e.type = "order_cancelled" /\ e.order = o
    BY <2>1, <2>2, <2>3 DEF Linked
  <2> QED
    BY <2>4, <2>5 DEF Linked
<1>3. CASE StockChanges \/ CustomerPays \/ UNCHANGED meshVars
  <2>1. /\ events' = events /\ byMessage' = byMessage /\ replies' = replies
        /\ reservation' = reservation
    BY <1>3 DEF StockChanges, CustomerPays, Stock!Seed,
       Stock!MarkWarehouseDown, meshVars, vars, stockVars
  <2>2. receipts \subseteq receipts'
    BY <1>3, BillingKeepsReceipts
       DEF StockChanges, CustomerPays, meshVars, billingVars
  <2>3. \A n \in Inbound : Seen(n)' => OnBroker(n)'
    BY <2>1, <2>2, OutStaysOut DEF Linked, Seen
  <2> QED
    BY <2>1, <2>3 DEF Linked
<1> QED
  BY <1>1, <1>2, <1>3 DEF MeshNext

-----------------------------------------------------------------------------
(* Stock and money behind the saga's verdict.                              *)

MeshInv ==
    /\ IInv /\ Sourced /\ StockProofs!IInv /\ BillingProofs!IInv /\ Linked

(* The invariants of the parts and what links them hold in the mesh.       *)
THEOREM MeshInvariance == MeshSpec => []MeshInv
<1>1. MeshSpec => [](IInv /\ Sourced)
  BY SagaRuns, Sources, PTL
<1>2. MeshSpec => []StockProofs!IInv
  <2>1. StockProofs!Spec => []StockProofs!IInv
    BY StockAssumed, StockProofs!Invariance
  <2> QED
    BY <2>1, StockRuns, PTL
<1>3. MeshSpec => []BillingProofs!IInv
  <2>1. BillingProofs!Spec => []BillingProofs!IInv
    BY BillingAssumed, BillingProofs!Invariance
  <2> QED
    BY <2>1, BillingRuns, PTL
<1>4. MeshInit => Linked
  BY MessageFields DEF MeshInit, Init, Stock!Init, Linked, Seen
<1>5. IInv /\ StockProofs!IInv /\ Linked /\ [MeshNext]_meshVars => Linked'
  BY StepKeepsLinked
<1> QED
  BY <1>1, <1>2, <1>3, <1>4, <1>5, PTL DEF MeshSpec, MeshInv

(* What a service reported is what it did, and all it ever did.            *)
LEMMA ReportsAreTrue ==
    ASSUME MeshInv, NEW m \in Inbound, Seen(m)
    PROVE  /\ m.type = "inventory_reserved" =>
                /\ reservation[m.order] # None
                /\ reservation[m.order].status \in {"reserved", "released"}
           /\ m.type = "inventory_reservation_failed" =>
                /\ reservation[m.order] # None
                /\ reservation[m.order].status # "reserved"
           /\ m.type = "payment_charged" =>
                /\ payment[m.order] # None
                /\ payment[m.order].status = "charged"
                /\ payment[m.order].amount = m.price
<1> DEFINE o == m.order
<1>1. o \in Orders /\ OnBroker(m)
  BY MessageFields DEF MeshInv, Linked
<1>2. ASSUME m.type \in {"inventory_reserved", "inventory_reservation_failed"}
      PROVE  /\ reservation[o] # None
             /\ IF m.type = "inventory_reserved"
                THEN reservation[o].status \in {"reserved", "released"}
                ELSE reservation[o].status # "reserved"
  <2>1. \A r \in receipts : r.type \in {"payment_charged", "payment_failed"}
    BY DEF MeshInv, BillingProofs!IInv, BillingProofs!TypeOK,
           BillingProofs!PaymentEvent
  <2>2. PICK r \in replies : r.type = m.type /\ r.order = o
    BY <1>1, <1>2, <2>1 DEF OnBroker
  <2>3. reservation[o] # None /\ reservation[o].event = r /\ r # None
    BY <2>2, StockAssumed
       DEF MeshInv, StockProofs!IInv, StockProofs!EventsSound,
           StockProofs!TypeOK, StockProofs!NoneIsNoRecord
  <2>4. StockProofs!RecordSound(o, reservation[o])
    BY <1>1, <2>3 DEF MeshInv, StockProofs!IInv, StockProofs!RecordsSound
  <2>5. reservation[o].status \in {"reserved", "released", "failed"}
    BY <1>1, <2>3
       DEF MeshInv, StockProofs!IInv, StockProofs!TypeOK,
           StockProofs!RecordRow
  <2> QED
    BY <1>2, <2>2, <2>3, <2>4, <2>5 DEF StockProofs!RecordSound
<1>3. ASSUME m.type = "payment_charged"
      PROVE  /\ payment[o] # None /\ payment[o].status = "charged"
             /\ payment[o].amount = m.price
  <2>1. \A r \in replies : r.type # "payment_charged"
    BY DEF MeshInv, StockProofs!IInv, StockProofs!TypeOK,
           StockProofs!ReplyEvent
  <2>2. PICK r \in receipts : /\ r.type = m.type /\ r.order = o
                             /\ r.amount = m.price
    BY <1>1, <1>3, <2>1 DEF OnBroker
  <2>3. payment[o] # None /\ payment[o].event = r /\ r # None
    BY <2>2, BillingAssumed
       DEF MeshInv, BillingProofs!IInv, BillingProofs!EventsSound,
           BillingProofs!TypeOK, BillingProofs!NoneIsNoValue
  <2>4. BillingProofs!PaymentSound(o, payment[o])
    BY <1>1, <2>3
       DEF MeshInv, BillingProofs!IInv, BillingProofs!PaymentsSound
  <2> QED
    BY <1>3, <2>2, <2>3, <2>4 DEF BillingProofs!PaymentSound
<1> QED
  BY <1>2, <1>3

(* An order that is announced as completed has its stock held and its      *)
(* price captured, for any orders, lots, requests and failures, whatever   *)
(* is repeated or overtaken (CATALOG of contracts.ts, handlers of the      *)
(* three services).                                                        *)
THEOREM CompletedOrdersAreBacked == MeshSpec => []CompletedIsBacked
<1>1. ASSUME MeshInv, NEW e \in events, e.type = "order_completed"
      PROVE  /\ HoldsStock(e.order)
             /\ payment[e.order] # None
             /\ payment[e.order].status = "charged"
             /\ payment[e.order].amount = e.price
  <2> DEFINE o == e.order
             s == byOrder[o]
             R == Reports(o)
  <2>1. /\ o \in Orders /\ Started(o) /\ s.status = "completed"
        /\ s.terminal = e /\ s.reservation_id # None
    BY <1>1, VerdictOfEvent DEF MeshInv, CompletedOK
  <2>2. Founded(s, R) /\ Paid(s, R)
    BY <1>1, <2>1 DEF MeshInv, Sourced
  <2>3. PICK m \in R : m.type = "inventory_reserved"
    BY <2>1, <2>2 DEF Founded
  <2>4. PICK n \in R : n.type = "payment_charged" /\ n.price = e.price
    BY <2>1, <2>2 DEF Paid
  <2>5. /\ m \in Inbound /\ Seen(m) /\ m.order = o
        /\ n \in Inbound /\ Seen(n) /\ n.order = o
    BY DEF Reports
  <2>6. HoldsStock(o)
    <3>1. /\ reservation[o] # None
          /\ reservation[o].status \in {"reserved", "released"}
      BY <1>1, <2>3, <2>5, ReportsAreTrue
    <3>2. \A d \in events : d.order = o => d.type = "order_completed"
      BY <1>1, IInvOneVerdict DEF MeshInv, OneVerdict
    <3> QED
      BY <1>1, <2>1, <3>1, <3>2 DEF MeshInv, Linked, HoldsStock
  <2> QED
    BY <1>1, <2>4, <2>5, <2>6, ReportsAreTrue
<1>2. MeshInv => CompletedIsBacked
  BY <1>1 DEF CompletedIsBacked
<1> QED
  BY <1>2, MeshInvariance, PTL

(* The saga throws no effect away as a conflict: each service does one     *)
(* thing per order, and tells one amount (saga.ts handlePayment and        *)
(* handleInventory).                                                       *)
THEOREM EffectsAllCount == MeshSpec => []EveryEffectCounts
<1>1. ASSUME MeshInv, NEW m \in Inbound, Handled(m)
      PROVE  LET s == byOrder[m.order]
             IN  /\ m.type = "payment_charged" =>
                      \/ s.payment_id = m.payment_id
                      \/ ParkedIs(s, "charged") /\ s.parked.price = m.price
                 /\ m.type = "inventory_reserved" =>
                      s.reservation_id = m.reservation_id
  <2> DEFINE s == byOrder[m.order]
             R == Reports(m.order)
  <2>1. /\ Seen(m) /\ m.order \in Orders /\ Started(m.order)
        /\ m.type = "payment_charged" => ChargeKnown(s)
        /\ m.type = "inventory_reserved" => s.reservation_id # None
    BY <1>1, MessageFields DEF Handled, MeshInv, IInv, Indexed
  <2>2. Founded(s, R)
    BY <1>1, <2>1 DEF MeshInv, Sourced
  <2>3. \A n \in R : n \in Inbound /\ Seen(n) /\ n.order = m.order
    BY DEF Reports
  <2>4. ASSUME m.type = "payment_charged", s.payment_id # None
        PROVE  s.payment_id = m.payment_id
    BY <2>2, <2>3, <2>4, IdsNameOrders DEF Founded
  <2>5. ASSUME m.type = "payment_charged", ParkedIs(s, "charged")
        PROVE  s.parked.price = m.price
    <3>1. PICK n \in R : /\ n.type = "payment_charged"
                        /\ n.price = s.parked.price
      BY <2>2, <2>5 DEF Founded
    <3> QED
      BY <1>1, <2>1, <2>3, <2>5, <3>1, ReportsAreTrue
  <2>6. ASSUME m.type = "inventory_reserved"
        PROVE  s.reservation_id = m.reservation_id
    BY <2>1, <2>2, <2>3, <2>6, IdsNameOrders DEF Founded
  <2> QED
    BY <2>1, <2>4, <2>5, <2>6 DEF ChargeKnown
<1>2. MeshInv => EveryEffectCounts
  BY <1>1 DEF EveryEffectCounts
<1> QED
  BY <1>2, MeshInvariance, PTL

(* The stock of a cancelled order is asked back, or will be when its       *)
(* cancellation is published again: an order cancelled without a           *)
(* reservation was refused (saga.ts emitCancel and emitLateWork).          *)
THEOREM StockIsAskedBack == MeshSpec => []HeldStockIsOwed
<1>1. ASSUME MeshInv, NEW o \in Orders, CancelledBySaga(o), HoldsStock(o)
      PROVE  \/ "release_inventory" \in Announced(o)
             \/ /\ ~byOrder[o].published
                /\ "release_inventory" \in byOrder[o].terminal.compensations
  <2> DEFINE s == byOrder[o]
             R == Reports(o)
             evs == EventsAbout(o, events)
  <2>1. Started(o) /\ s.status = "cancelled" /\ CancelledOK(s, evs)
    BY <1>1, StartedSaga DEF MeshInv, IInv, CancelledBySaga, Coherent
  <2>2. s.reservation_id # None
    <3>1. SUFFICES ASSUME s.reservation_id = None PROVE FALSE
      OBVIOUS
    <3>2. PICK m \in R : m.type = "inventory_reservation_failed"
      BY <1>1, <2>1, <3>1 DEF MeshInv, Sourced, Founded
    <3>3. m \in Inbound /\ Seen(m) /\ m.order = o
      BY DEF Reports
    <3> QED
      BY <1>1, <3>2, <3>3, ReportsAreTrue DEF HoldsStock
  <2>3. "release_inventory" \in OwedBy(s)
    BY <2>2 DEF OwedBy, CompensationsFor, Compensations
  <2>4. Announced(o) = Carried(evs)
    BY <2>1, AnnouncedIsCarried DEF CancelledOK
  <2> QED
    BY <2>1, <2>3, <2>4 DEF CancelledOK
<1>2. MeshInv => HeldStockIsOwed
  BY <1>1 DEF HeldStockIsOwed
<1> QED
  BY <1>2, MeshInvariance, PTL
=============================================================================
