------------------------------ MODULE OrderSaga ------------------------------
(***************************************************************************)
(* The order saga of src/src/saga.ts: OrderSagaOrchestrator over           *)
(* MemorySagaStore.  It consumes order_created and the replies of          *)
(* inventory and payments, decides one terminal verdict per order, and     *)
(* publishes the compensations a cancelled order owes, also for effects    *)
(* that surface after the cancellation.                                    *)
(*                                                                         *)
(* handle() runs under store.serialize, and nothing inside it yields to    *)
(* another handler, so one call is one action.  The environment may        *)
(* deliver any message of Inbound at any time, in any order and any number *)
(* of times.  The publisher port may succeed, fail, or fail after the      *)
(* event reached the broker.                                               *)
(*                                                                         *)
(* Data abstractions.  A price stands for the pair (total_cents, currency);*)
(* the request hash is the pair of the price and the rest of the payload.  *)
(* A list of compensations is its set: every consumer asks only for        *)
(* membership.  clock.newId() is taken to return a fresh uuid, so          *)
(* createEnvelope succeeds: every other field it validates comes from an   *)
(* envelope parseEnvelope accepted.  A terminal event is identified by its *)
(* cause, because a message is a cause at most once.                       *)
(*                                                                         *)
(* A definition introduced by "Fault" is a variant of the one after it     *)
(* with a bug; no specification here uses it.                              *)
(***************************************************************************)
EXTENDS FiniteSets

CONSTANTS
    Orders,        \* order ids
    MessageIds,    \* message ids of inbound envelopes
    Prices,        \* (total_cents, currency) pairs
    Baskets,       \* what else an order_created payload says
    Reservations,  \* reservation ids inventory may answer with
    Payments,      \* payment ids payments may answer with
    Inbound,       \* the envelopes other services may deliver
    None           \* an undefined field

Services == {"gateway", "orders", "inventory", "payments", "notifications"}

(* Inbound envelopes, reduced to the fields the orchestrator reads.        *)
OrderCreated ==
    [type : {"order_created"}, id : MessageIds, source : Services,
     order : Orders, price : Prices, basket : Baskets]
InventoryReserved ==
    [type : {"inventory_reserved"}, id : MessageIds, source : Services,
     order : Orders, reservation_id : Reservations]
InventoryFailed ==
    [type : {"inventory_reservation_failed"}, id : MessageIds,
     source : Services, order : Orders]
PaymentCharged ==
    [type : {"payment_charged"}, id : MessageIds, source : Services,
     order : Orders, payment_id : Payments, price : Prices]
PaymentFailed ==
    [type : {"payment_failed"}, id : MessageIds, source : Services,
     order : Orders]
Envelope == OrderCreated \cup InventoryReserved \cup InventoryFailed
              \cup PaymentCharged \cup PaymentFailed

ASSUME InboundTyped == Inbound \subseteq Envelope
ASSUME UniqueIds == \A m, n \in Inbound : m.id = n.id => m = n

Compensations == {"release_inventory", "refund_payment", "notify_customer"}
CancelReasons == {"inventory_failed", "payment_failed"}
Statuses == {"awaiting_inventory", "awaiting_payment", "completed",
             "cancelled"}

(* What the orchestrator publishes.                                        *)
CompletedEvent ==
    [type : {"order_completed"}, order : Orders, cause : MessageIds,
     payment_id : Payments, reservation_id : Reservations, price : Prices]
CancelledEvent ==
    [type : {"order_cancelled"}, order : Orders, cause : MessageIds,
     reason : CancelReasons, compensations : SUBSET Compensations]
TerminalEvent == CompletedEvent \cup CancelledEvent

ParkedCharge ==
    [outcome : {"charged"}, payment_id : Payments, price : Prices]
ParkedFailure == [outcome : {"failed"}]

SagaInstance ==
    [price : Prices, request_hash : Prices \X Baskets, status : Statuses,
     reservation_id : Reservations \cup {None},
     payment_id : Payments \cup {None},
     parked : ParkedCharge \cup ParkedFailure \cup {None},
     cancel_reason : CancelReasons \cup {None},
     compensations : SUBSET Compensations,
     terminal : TerminalEvent \cup {None}, published : BOOLEAN]

ASSUME NoneIsNoValue ==
    None \notin Orders \cup Reservations \cup Payments \cup CancelReasons
ASSUME NoneIsNoRecord ==
    None \notin SagaInstance \cup TerminalEvent \cup ParkedCharge
                  \cup ParkedFailure

VARIABLES
    byOrder,    \* the saga of each order, None before order_created
    byMessage,  \* the order each handled message id is indexed under
    events      \* terminal events that reached the broker

vars == <<byOrder, byMessage, events>>

TypeOK ==
    /\ byOrder \in [Orders -> SagaInstance \cup {None}]
    /\ byMessage \in [MessageIds -> Orders \cup {None}]
    /\ events \subseteq TerminalEvent

Init ==
    /\ byOrder = [o \in Orders |-> None]
    /\ byMessage = [i \in MessageIds |-> None]
    /\ events = {}

-----------------------------------------------------------------------------
(* Reading the store.                                                      *)

Started(o) == byOrder[o] # None
Seen(m) == byMessage[m.id] # None
Open(s) == s.status \in {"awaiting_inventory", "awaiting_payment"}
ParkedIs(s, outcome) == s.parked # None /\ s.parked.outcome = outcome
RequestHash(m) == <<m.price, m.basket>>

(* Fault: the two arguments are swapped.                                   *)
CompensationsForSwapped(reserved, charged) ==
    {c \in Compensations :
        \/ c = "refund_payment" /\ reserved
        \/ c = "release_inventory" /\ charged
        \/ c = "notify_customer"}

(* compensationsFor: what has to be undone, and the customer is told.      *)
CompensationsFor(reserved, charged) ==
    {c \in Compensations :
        \/ c = "refund_payment" /\ charged
        \/ c = "release_inventory" /\ reserved
        \/ c = "notify_customer"}

-----------------------------------------------------------------------------
(* Writing the store and publishing.                                       *)

(* lookup() and index(): the message is remembered even when the handler   *)
(* then answers conflict or duplicate.                                     *)
Index(m) == byMessage' = [byMessage EXCEPT ![m.id] = m.order]

Save(o, s) ==
    /\ byOrder' = [byOrder EXCEPT ![o] = s]
    /\ UNCHANGED events

(* tryPublish of s.terminal: "ok" resolves, "lost" throws with nothing     *)
(* sent, "unconfirmed" throws although the broker has the event.  Both     *)
(* callers pass a saga that is not published.                              *)
TryPublish(o, s) ==
    \E result \in {"ok", "lost", "unconfirmed"} :
        /\ byOrder' = [byOrder EXCEPT ![o] =
                          [s EXCEPT !.published = (result = "ok")]]
        /\ events' = IF result = "lost" THEN events
                                        ELSE events \cup {s.terminal}

(* publishTerminal: the new terminal replaces the old one, unpublished.    *)
PublishTerminal(o, s, terminal) ==
    TryPublish(o, [s EXCEPT !.terminal = terminal, !.published = FALSE])

CancelEvent(m, reason, compensations) ==
    [type |-> "order_cancelled", order |-> m.order, cause |-> m.id,
     reason |-> reason, compensations |-> compensations]

EmitCancel(s, m, reason) ==
    LET owed == CompensationsFor(s.reservation_id # None,
                                 s.payment_id # None)
    IN  PublishTerminal(m.order,
            [s EXCEPT !.status = "cancelled", !.cancel_reason = reason,
                      !.parked = None, !.compensations = owed],
            CancelEvent(m, reason, owed))

(* emitComplete: its callers have bound both the reservation and payment.  *)
EmitComplete(s, m) ==
    PublishTerminal(m.order,
        [s EXCEPT !.status = "completed", !.compensations = {}],
        [type |-> "order_completed", order |-> m.order, cause |-> m.id,
         payment_id |-> s.payment_id, reservation_id |-> s.reservation_id,
         price |-> s.price])

(* Faults: the charge is never bound; the amount is never compared.        *)
SettleChargeUnbound(s, m, payment_id, price) ==
    IF price # s.price THEN EmitCancel(s, m, "payment_failed")
                       ELSE EmitComplete([s EXCEPT !.parked = None], m)
SettleAnyCharge(s, m, payment_id, price) ==
    EmitComplete([s EXCEPT !.payment_id = payment_id, !.parked = None], m)

(* settleCharge: the charge is the order's payment either way, so that a   *)
(* charge of the wrong amount is refunded by the cancellation.             *)
SettleCharge(s, m, payment_id, price) ==
    LET paid == [s EXCEPT !.payment_id = payment_id, !.parked = None]
    IN  IF price # s.price THEN EmitCancel(paid, m, "payment_failed")
                           ELSE EmitComplete(paid, m)

(* Fault: a cancellation whose publish failed is not rebuilt.              *)
EmitStepOnly(s, m, step) ==
    PublishTerminal(m.order, [s EXCEPT !.compensations = {step}],
                    CancelEvent(m, s.cancel_reason, {step}))

(* emitLateWork: s already carries the late effect.  An announced          *)
(* cancellation is followed by the one step now owed; one that is not      *)
(* known to be announced is rebuilt in full.                               *)
EmitLateWork(s, m, step) ==
    LET reason == IF s.cancel_reason # None THEN s.cancel_reason
                  ELSE IF step = "refund_payment" THEN "payment_failed"
                                                  ELSE "inventory_failed"
    IN  IF ~s.published \/ s.terminal = None
        THEN EmitCancel(s, m, reason)
        ELSE PublishTerminal(m.order, [s EXCEPT !.compensations = {step}],
                             CancelEvent(m, reason, {step}))

-----------------------------------------------------------------------------
(* The handlers.  A message that is rejected (unknown order, wrong source, *)
(* unexpected type) and an order_created whose hash conflicts change       *)
(* nothing and are no steps.                                               *)

(* Fault: a terminal whose publish failed is never published again.        *)
FinishNothing(o) == Save(o, byOrder[o])

(* finishExisting: publish the terminal again unless it is known to be out.*)
FinishExisting(o) ==
    LET s == byOrder[o]
    IN  IF s.terminal = None \/ s.published THEN Save(o, s)
                                            ELSE TryPublish(o, s)

(* handleLocked: the message id is known.                                  *)
Redelivered(m) ==
    /\ Seen(m)
    /\ FinishExisting(byMessage[m.id])
    /\ UNCHANGED byMessage

(* publishTerminal indexes the terminal's own id, so an order_completed or *)
(* order_cancelled that comes back is a redelivery too.                    *)
Echoed(e) ==
    /\ e \in events
    /\ FinishExisting(e.order)
    /\ UNCHANGED byMessage

NewSaga(m) ==
    [price |-> m.price, request_hash |-> RequestHash(m),
     status |-> "awaiting_inventory", reservation_id |-> None,
     payment_id |-> None, parked |-> None, cancel_reason |-> None,
     compensations |-> {}, terminal |-> None, published |-> FALSE]

(* Fault: another order_created for the order starts over.                 *)
StartOver(m) ==
    /\ m.type = "order_created" /\ m.source = "orders" /\ ~Seen(m)
    /\ Save(m.order, NewSaga(m))
    /\ Index(m)

Start(m) ==
    /\ m.type = "order_created" /\ m.source = "orders" /\ ~Seen(m)
    /\ ~Started(m.order)
    /\ Save(m.order, NewSaga(m))
    /\ Index(m)

StartAgain(m) ==
    /\ m.type = "order_created" /\ m.source = "orders" /\ ~Seen(m)
    /\ Started(m.order)
    /\ byOrder[m.order].request_hash = RequestHash(m)
    /\ FinishExisting(m.order)
    /\ Index(m)

(* A first delivery of a reply about a known order.                        *)
Reply(m, types, source) ==
    /\ m.type \in types /\ m.source = source /\ ~Seen(m)
    /\ Started(m.order)
    /\ Index(m)

InventoryReply(m) ==
    Reply(m, {"inventory_reserved", "inventory_reservation_failed"},
          "inventory")
PaymentReply(m) ==
    Reply(m, {"payment_charged", "payment_failed"}, "payments")

(* onInventory: inventory has already answered for this order.             *)
InventoryAnswered(s) ==
    s.reservation_id # None \/ s.cancel_reason = "inventory_failed"

InventoryConflict(m) ==
    /\ InventoryReply(m)
    /\ LET s == byOrder[m.order]
       IN  /\ s.status = "completed" \/ (Open(s) /\ InventoryAnswered(s))
           /\ Save(m.order, s)

(* Fault: a charge parked before the refusal is forgotten.                 *)
InventoryRefusesForgetting(m) ==
    /\ InventoryReply(m) /\ m.type = "inventory_reservation_failed"
    /\ LET s == byOrder[m.order]
       IN  /\ Open(s) /\ ~InventoryAnswered(s)
           /\ EmitCancel(s, m, "inventory_failed")

InventoryRefuses(m) ==
    /\ InventoryReply(m) /\ m.type = "inventory_reservation_failed"
    /\ LET s == byOrder[m.order]
       IN  /\ Open(s) /\ ~InventoryAnswered(s)
           /\ EmitCancel(
                IF ParkedIs(s, "charged")
                THEN [s EXCEPT !.payment_id = s.parked.payment_id] ELSE s,
                m, "inventory_failed")

InventoryReserves(m) ==
    /\ InventoryReply(m) /\ m.type = "inventory_reserved"
    /\ LET s == byOrder[m.order]
           held == [s EXCEPT !.reservation_id = m.reservation_id]
       IN  /\ Open(s) /\ ~InventoryAnswered(s)
           /\ CASE ParkedIs(s, "charged") ->
                     SettleCharge(held, m, s.parked.payment_id,
                                  s.parked.price)
                [] ParkedIs(s, "failed") ->
                     EmitCancel(held, m, "payment_failed")
                [] OTHER ->
                     Save(m.order,
                          [held EXCEPT !.status = "awaiting_payment"])

(* onPayment: a reply that changes nothing but the message index.          *)
PaymentIgnored(m) ==
    /\ PaymentReply(m)
    /\ LET s == byOrder[m.order]
       IN  /\ \/ s.status = "completed"
              \/ Open(s) /\ (ParkedIs(s, "charged") \/ s.payment_id # None)
              \/ Open(s) /\ m.type = "payment_failed" /\ s.parked # None
           /\ Save(m.order, s)

PaymentDeclined(m) ==
    /\ PaymentReply(m) /\ m.type = "payment_failed"
    /\ LET s == byOrder[m.order]
       IN  /\ Open(s) /\ s.parked = None /\ s.payment_id = None
           /\ IF s.status = "awaiting_inventory"
              THEN Save(m.order,
                        [s EXCEPT !.parked = [outcome |-> "failed"]])
              ELSE EmitCancel(s, m, "payment_failed")

(* Fault: a charge replaces a parked charge.                               *)
PaymentTakenAgain(m) ==
    /\ PaymentReply(m) /\ m.type = "payment_charged"
    /\ LET s == byOrder[m.order]
       IN  /\ Open(s) /\ s.payment_id = None
           /\ IF s.status = "awaiting_inventory"
              THEN Save(m.order, [s EXCEPT !.parked =
                     [outcome |-> "charged", payment_id |-> m.payment_id,
                      price |-> m.price]])
              ELSE SettleCharge(s, m, m.payment_id, m.price)

(* A charge replaces a parked failure.                                     *)
PaymentTaken(m) ==
    /\ PaymentReply(m) /\ m.type = "payment_charged"
    /\ LET s == byOrder[m.order]
       IN  /\ Open(s) /\ ~ParkedIs(s, "charged") /\ s.payment_id = None
           /\ IF s.status = "awaiting_inventory"
              THEN Save(m.order, [s EXCEPT !.parked =
                     [outcome |-> "charged", payment_id |-> m.payment_id,
                      price |-> m.price]])
              ELSE SettleCharge(s, m, m.payment_id, m.price)

(* lateEffect: a reply to a cancelled order.                               *)
LateCharge(m) ==
    /\ PaymentReply(m) /\ m.type = "payment_charged"
    /\ LET s == byOrder[m.order]
       IN  /\ s.status = "cancelled" /\ s.payment_id = None
           /\ EmitLateWork([s EXCEPT !.payment_id = m.payment_id,
                                     !.parked = None],
                           m, "refund_payment")

LateReservation(m) ==
    /\ InventoryReply(m) /\ m.type = "inventory_reserved"
    /\ LET s == byOrder[m.order]
       IN  /\ s.status = "cancelled" /\ s.reservation_id = None
           /\ EmitLateWork([s EXCEPT !.reservation_id = m.reservation_id],
                           m, "release_inventory")

LateNothing(m) ==
    /\ InventoryReply(m) \/ PaymentReply(m)
    /\ LET s == byOrder[m.order]
       IN  /\ s.status = "cancelled"
           /\ m.type = "payment_charged" => s.payment_id # None
           /\ m.type = "inventory_reserved" => s.reservation_id # None
           /\ Save(m.order, s)

Handle(m) ==
    \/ Redelivered(m)
    \/ Start(m)
    \/ StartAgain(m)
    \/ InventoryConflict(m)
    \/ InventoryRefuses(m)
    \/ InventoryReserves(m)
    \/ PaymentIgnored(m)
    \/ PaymentDeclined(m)
    \/ PaymentTaken(m)
    \/ LateCharge(m)
    \/ LateReservation(m)
    \/ LateNothing(m)

Next ==
    \/ \E m \in Inbound : Handle(m)
    \/ \E e \in events : Echoed(e)

Spec == Init /\ [][Next]_vars

-----------------------------------------------------------------------------
(* Properties.                                                             *)

Handled(m) == Seen(m)
Announced(o) ==
    UNION {e.compensations : e \in {x \in events :
                                      x.type = "order_cancelled"
                                      /\ x.order = o}}
Settled(o) == Started(o) /\ byOrder[o].published

(* Once a charge or a reservation of an order has been handled and the     *)
(* saga believes its verdict is out, the order is completed or the broker  *)
(* carries the compensation that undoes the effect.  It is about parked    *)
(* charges, late effects, lost publishes and the rebuild in emitLateWork   *)
(* together.                                                               *)
EffectsAccounted ==
    \A m \in Inbound :
        Handled(m) /\ Settled(m.order) =>
            LET done == byOrder[m.order].status = "completed"
            IN  /\ m.type = "payment_charged" =>
                      done \/ "refund_payment" \in Announced(m.order)
                /\ m.type = "inventory_reserved" =>
                      done \/ "release_inventory" \in Announced(m.order)

(* No compensation is announced for an effect nobody reported: a refund    *)
(* needs a handled charge and a release a handled reservation, however     *)
(* the terminal was rebuilt.                                               *)
CompensationsJustified ==
    \A e \in events : e.type = "order_cancelled" =>
        /\ "refund_payment" \in e.compensations =>
              \E m \in Inbound : Handled(m) /\ m.type = "payment_charged"
                                 /\ m.order = e.order
        /\ "release_inventory" \in e.compensations =>
              \E m \in Inbound : Handled(m) /\ m.type = "inventory_reserved"
                                 /\ m.order = e.order

(* The broker never carries both verdicts of one order, nor two reasons    *)
(* for one cancellation.                                                   *)
OneVerdict ==
    \A d, e \in events : d.order = e.order =>
        /\ d.type = e.type
        /\ d.type = "order_cancelled" => d.reason = e.reason

(* An order is announced as completed only for the reservation and the     *)
(* payment inventory and payments reported for it, and only when the       *)
(* charge is the price the order was placed at.                            *)
CompletedOnlyWhenPaid ==
    \A e \in events : e.type = "order_completed" =>
        /\ \E m \in Inbound : /\ Handled(m) /\ m.type = "payment_charged"
                              /\ m.order = e.order
                              /\ m.payment_id = e.payment_id
                              /\ m.price = e.price
        /\ \E m \in Inbound : /\ Handled(m) /\ m.type = "inventory_reserved"
                              /\ m.order = e.order
                              /\ m.reservation_id = e.reservation_id
        /\ \E m \in Inbound : /\ Handled(m) /\ m.type = "order_created"
                              /\ m.order = e.order /\ m.price = e.price

(* A late refund or release alone is announced only for an order whose     *)
(* customer has been told of the cancellation.                             *)
CustomerToldFirst ==
    \A e \in events : e.type = "order_cancelled" =>
        "notify_customer" \in Announced(e.order)

(* A verdict is final, and a reservation or payment the saga has bound is  *)
(* never replaced by another one or forgotten.                             *)
DecisionsStick ==
    [][\A o \in Orders : Started(o) =>
         LET s == byOrder[o]
             t == byOrder'[o]
         IN  /\ ~Open(s) => t.status = s.status
             /\ s.reservation_id # None => t.reservation_id = s.reservation_id
             /\ s.payment_id # None => t.payment_id = s.payment_id
             /\ ParkedIs(s, "charged") =>
                   \/ t.parked = s.parked
                   \/ t.payment_id = s.parked.payment_id]_vars

(* The orchestrator implements OrderVerdict: an effect is known once it is *)
(* bound or parked, a verdict is the saga's status, and what is announced  *)
(* is what the broker carries.                                             *)
KnownEffects(s) ==
    {e \in {"stock", "charge"} :
        \/ e = "stock" /\ s.reservation_id # None
        \/ e = "charge" /\ (s.payment_id # None \/ ParkedIs(s, "charged"))}
VerdictOf(o) ==
    IF Started(o) /\ ~Open(byOrder[o]) THEN byOrder[o].status ELSE "open"
EffectsOf(o) == IF Started(o) THEN KnownEffects(byOrder[o]) ELSE {}

Verdict == INSTANCE OrderVerdict WITH
    verdict <- [o \in Orders |-> VerdictOf(o)],
    effects <- [o \in Orders |-> EffectsOf(o)],
    announced <- [o \in Orders |-> Announced(o)]

ImplementsVerdict == Verdict!Spec
=============================================================================
