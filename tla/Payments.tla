------------------------------ MODULE Payments -------------------------------
(***************************************************************************)
(* The payments service of src/src/payments.ts: PaymentsService over       *)
(* MemoryPaymentStore.  reserve() moves money of a customer from available *)
(* to held, charge() captures what is held, and both answer on the broker, *)
(* a refused reserve with payment_failed and a charge with                 *)
(* payment_charged.                                                        *)
(*                                                                         *)
(* reserve() and charge() run under store.serialize and are one action     *)
(* each; credit() is a plain store call.  Callers may send any request     *)
(* again, in any order, and the publisher may fail, with or without the    *)
(* event having reached the broker.                                        *)
(*                                                                         *)
(* Data abstractions.  A payment is known by its order: there is one       *)
(* record per order_id and per reserve_key, so the maps byReserve, byOrder *)
(* and byId are one function.  The currency is part of the fingerprint     *)
(* only, and left out.  A charged payment has reserved_cents and           *)
(* captured_cents equal to its amount_cents.  blocked and failNext are     *)
(* fields anyone may set: any reserve may be declined, and a processor     *)
(* error changes nothing.  causation_ok says whether createEnvelope        *)
(* accepts the causation_id of the request, which neither handler checks.  *)
(*                                                                         *)
(* A definition introduced by "Fault" is a variant of the one after it     *)
(* with a bug; no specification here uses it.                              *)
(***************************************************************************)
EXTENDS Integers, FiniteSets

CONSTANTS
    Orders,           \* order ids
    Customers,        \* customer ids
    Keys,             \* idempotency keys, of either kind
    MaxSafe,          \* Number.MAX_SAFE_INTEGER
    Credits,          \* amounts credit() is called with
    ReserveRequests,  \* valid requests reserve() may get
    ChargeRequests,   \* valid requests charge() may get
    None              \* an undefined value

Cents == 0..MaxSafe

ASSUME MaxSafeIsNat == MaxSafe \in Nat
ASSUME CreditsTyped == Credits \subseteq Cents
ASSUME ReserveTyped ==
    ReserveRequests \subseteq
      [order : Orders, customer : Customers, amount : Cents \ {0},
       key : Keys, causation_ok : BOOLEAN]
ASSUME ChargeTyped ==
    ChargeRequests \subseteq
      [order : Orders, key : Keys, causation_ok : BOOLEAN]

PaymentEvent ==
    [type : {"payment_charged", "payment_failed"}, order : Orders,
     amount : Cents]

VARIABLES
    available,  \* customer -> available_cents
    held,       \* customer -> held_cents
    payment,    \* order -> its PaymentRecord, None before reserve()
    byCharge,   \* charge key -> the order it is bound to, or None
    events,     \* events that reached the broker
    credited    \* customer -> all cents ever credited

vars == <<available, held, payment, byCharge, events, credited>>

PaymentRecord ==
    [customer : Customers, amount : Cents, reserve_key : Keys,
     status : {"reserved", "charged", "failed"},
     event : PaymentEvent \cup {None}, published : BOOLEAN]

ASSUME NoneIsNoValue == None \notin PaymentRecord \cup PaymentEvent \cup Orders

TypeOK ==
    /\ available \in [Customers -> Cents]
    /\ held \in [Customers -> Cents]
    /\ payment \in [Orders -> PaymentRecord \cup {None}]
    /\ byCharge \in [Keys -> Orders \cup {None}]
    /\ events \subseteq PaymentEvent
    /\ credited \in [Customers -> Nat]

Init ==
    /\ available = [c \in Customers |-> 0]
    /\ held = [c \in Customers |-> 0]
    /\ payment = [o \in Orders |-> None]
    /\ byCharge = [k \in Keys |-> None]
    /\ events = {}
    /\ credited = [c \in Customers |-> 0]

-----------------------------------------------------------------------------
(* The ledger.                                                             *)

Credit(c, cents) ==
    /\ available[c] + cents \in Cents
    /\ available' = [available EXCEPT ![c] = @ + cents]
    /\ credited' = [credited EXCEPT ![c] = @ + cents]
    /\ UNCHANGED <<held, payment, byCharge, events>>

(* Fault: the sum of what is held is not checked.                          *)
CanAuthorizeUnsafely(c, cents) == available[c] >= cents

(* authorize(): enough is available, and the sum held is a safe integer.   *)
CanAuthorize(c, cents) ==
    /\ available[c] >= cents
    /\ held[c] + cents \in Cents

Authorize(c, cents) ==
    /\ available' = [available EXCEPT ![c] = @ - cents]
    /\ held' = [held EXCEPT ![c] = @ + cents]

(* Fault: the money goes back to the customer.                             *)
CaptureToAvailable(c, cents) ==
    /\ held[c] >= cents
    /\ held' = [held EXCEPT ![c] = @ - cents]
    /\ available' = [available EXCEPT ![c] = @ + cents]

Capture(c, cents) ==
    /\ held[c] >= cents
    /\ held' = [held EXCEPT ![c] = @ - cents]
    /\ UNCHANGED available

-----------------------------------------------------------------------------
(* Publishing.                                                             *)

(* Fault: published is set before the publisher has answered.              *)
TryPublishOptimistic(o, p) ==
    \E result \in {"ok", "lost", "unconfirmed"} :
        /\ payment' = [payment EXCEPT ![o] = [p EXCEPT !.published = TRUE]]
        /\ events' = IF result = "lost" THEN events
                                        ELSE events \cup {p.event}

(* tryPublish of p's event, stored with the outcome.                       *)
TryPublish(o, p) ==
    \E result \in {"ok", "lost", "unconfirmed"} :
        /\ payment' = [payment EXCEPT ![o] =
                          [p EXCEPT !.published = (result = "ok")]]
        /\ events' = IF result = "lost" THEN events
                                        ELSE events \cup {p.event}

(* finishExisting and finishFailedCharge: a reserved payment has no event. *)
FinishExisting(o) ==
    LET p == payment[o]
    IN  IF p.event = None \/ p.published THEN UNCHANGED <<payment, events>>
                                         ELSE TryPublish(o, p)

-----------------------------------------------------------------------------
(* reserveLocked.  Another request under a known key, or under another key *)
(* for a known order, is a conflict and changes nothing.                   *)

NewPayment(r, status, event) ==
    [customer |-> r.customer, amount |-> r.amount, reserve_key |-> r.key,
     status |-> status, event |-> event, published |-> FALSE]

KeyIsNew(key) ==
    \A o \in Orders : payment[o] # None => payment[o].reserve_key # key

(* byReserve finds the order's record and the fingerprints agree.          *)
SameRequest(r) ==
    /\ payment[r.order] # None
    /\ payment[r.order].reserve_key = r.key
    /\ payment[r.order].customer = r.customer
    /\ payment[r.order].amount = r.amount

(* Fault: money is authorized again for a request that is retried.         *)
ReserveAfresh(r) ==
    /\ (KeyIsNew(r.key) /\ payment[r.order] = None) \/ SameRequest(r)
    /\ CanAuthorize(r.customer, r.amount)
    /\ Authorize(r.customer, r.amount)
    /\ payment' = [payment EXCEPT ![r.order] =
                      NewPayment(r, "reserved", None)]
    /\ UNCHANGED <<byCharge, events, credited>>

Reserve(r) ==
    /\ KeyIsNew(r.key) /\ payment[r.order] = None
    /\ CanAuthorize(r.customer, r.amount)
    /\ Authorize(r.customer, r.amount)
    /\ payment' = [payment EXCEPT ![r.order] =
                      NewPayment(r, "reserved", None)]
    /\ UNCHANGED <<byCharge, events, credited>>

(* failReserve: the customer is blocked or the money is not there.  When   *)
(* the envelope cannot be built, nothing is stored.                        *)
FailReserve(r) ==
    /\ KeyIsNew(r.key) /\ payment[r.order] = None
    /\ r.causation_ok
    /\ TryPublish(r.order,
          NewPayment(r, "failed",
              [type |-> "payment_failed", order |-> r.order, amount |-> 0]))
    /\ UNCHANGED <<available, held, byCharge, credited>>

ReserveAgain(r) ==
    /\ SameRequest(r)
    /\ FinishExisting(r.order)
    /\ UNCHANGED <<available, held, byCharge, credited>>

-----------------------------------------------------------------------------
(* chargeLocked.  A key bound to another order is a conflict, and an order *)
(* without a payment is rejected: neither changes anything.                *)

BindCharge(r) == byCharge' = [byCharge EXCEPT ![r.key] = r.order]

(* Fault: a payment that was refused may be charged.                       *)
ChargeUnlessCharged(r) ==
    /\ byCharge[r.key] = None
    /\ payment[r.order] # None
    /\ LET p == payment[r.order]
       IN  /\ p.status # "charged"
           /\ r.causation_ok
           /\ Capture(p.customer, p.amount)
           /\ TryPublish(r.order,
                 [p EXCEPT !.status = "charged", !.published = FALSE, !.event =
                    [type |-> "payment_charged", order |-> r.order,
                     amount |-> p.amount]])
    /\ BindCharge(r)
    /\ UNCHANGED credited

(* The first charge of a reserved payment: the hold is captured once the   *)
(* envelope is built, and the event is stored before it is published.      *)
Charge(r) ==
    /\ byCharge[r.key] = None
    /\ payment[r.order] # None
    /\ LET p == payment[r.order]
       IN  /\ p.status = "reserved"
           /\ r.causation_ok
           /\ Capture(p.customer, p.amount)
           /\ TryPublish(r.order,
                 [p EXCEPT !.status = "charged", !.event =
                    [type |-> "payment_charged", order |-> r.order,
                     amount |-> p.amount]])
    /\ BindCharge(r)
    /\ UNCHANGED credited

(* Fault: the key is bound to whatever order it comes with.                *)
ChargeAgainRebinding(r) ==
    /\ payment[r.order] # None /\ payment[r.order].status # "reserved"
    /\ BindCharge(r)
    /\ FinishExisting(r.order)
    /\ UNCHANGED <<available, held, credited>>

(* A charge of a payment that is already decided, under a new key or one   *)
(* bound to it: the key is bound and the answer is published again if it   *)
(* is not known to be out.                                                 *)
ChargeAgain(r) ==
    /\ payment[r.order] # None /\ payment[r.order].status # "reserved"
    /\ byCharge[r.key] \in {None, r.order}
    /\ BindCharge(r)
    /\ FinishExisting(r.order)
    /\ UNCHANGED <<available, held, credited>>

Next ==
    \/ \E c \in Customers, cents \in Credits : Credit(c, cents)
    \/ \E r \in ReserveRequests :
         Reserve(r) \/ FailReserve(r) \/ ReserveAgain(r)
    \/ \E r \in ChargeRequests : Charge(r) \/ ChargeAgain(r)

Spec == Init /\ [][Next]_vars

-----------------------------------------------------------------------------
(* Properties.                                                             *)

PaymentsOf(c, status) ==
    {o \in Orders : /\ payment[o] # None /\ payment[o].customer = c
                    /\ payment[o].status = status}
(* Cents of payments: to count them is to sum over the payments.           *)
CentsOf(orders) == UNION {{o} \X (1 .. payment[o].amount) : o \in orders}
SumOf(orders) == Cardinality(CentsOf(orders))

(* What is held of a customer's money is exactly what the reserved         *)
(* payments of the customer hold, through refusals, retries under other    *)
(* keys and failed publishes.  So a capture always finds its hold, and     *)
(* chargeLocked never answers hold_missing.                                *)
HoldsMatchPayments ==
    \A c \in Customers : held[c] = SumOf(PaymentsOf(c, "reserved"))

(* No cent is created or lost: what was credited is available, held, or    *)
(* was captured by a charged payment, once.                                *)
MoneyConserved ==
    \A c \in Customers :
        credited[c] = available[c] + held[c] + SumOf(PaymentsOf(c, "charged"))

(* The broker never carries two different answers for one order, and the   *)
(* answer it carries is what was done to the customer's money: a charge    *)
(* says the amount that was reserved and captured.                         *)
AnswersTruthful ==
    \A e \in events :
        LET p == payment[e.order]
        IN  /\ p # None /\ p.event = e
            /\ IF p.status = "charged"
               THEN e.type = "payment_charged" /\ e.amount = p.amount
               ELSE e.type = "payment_failed" /\ p.status = "failed"

(* A decided payment whose answer is not on the broker can still be        *)
(* retried: it is never marked published, so finishExisting will publish.  *)
UnsentIsRetriable ==
    \A o \in Orders :
        payment[o] # None /\ payment[o].status # "reserved"
          /\ payment[o].event \notin events
        => ~payment[o].published

(* A charge key names one order for good, and a decided payment keeps its  *)
(* status and its answer: what was decided is never taken back.            *)
DecisionsStick ==
    [][/\ \A k \in Keys : byCharge[k] # None => byCharge'[k] = byCharge[k]
       /\ \A o \in Orders :
            payment[o] # None /\ payment[o].status # "reserved" =>
                /\ payment'[o].status = payment[o].status
                /\ payment'[o].event = payment[o].event]_vars
=============================================================================
