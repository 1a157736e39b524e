---------------------------- MODULE PaymentsProofs ---------------------------
(***************************************************************************)
(* Proofs about Payments for every set of orders, customers, keys, amounts *)
(* and requests, and every MaxSafe.  The inductive invariant says what the *)
(* status of a payment implies about its event (PaymentsSound), what a     *)
(* published event implies about its payment (EventsSound), and that the   *)
(* books balance over sums that can be counted (Counted).                  *)
(***************************************************************************)
EXTENDS Payments, FiniteSetTheorems, TLAPS

-----------------------------------------------------------------------------
(* The inductive invariant.                                                *)

(* A reserved payment has no event, a decided one has the event that says  *)
(* so, and published means that the broker has it.                         *)
PaymentSound(o, p) ==
    /\ p.status = "reserved" <=> p.event = None
    /\ p.event # None =>
         /\ p.event.order = o
         /\ IF p.status = "charged"
            THEN p.event.type = "payment_charged" /\ p.event.amount = p.amount
            ELSE p.event.type = "payment_failed"

PaymentsSound ==
    \A o \in Orders : payment[o] # None => PaymentSound(o, payment[o])

(* An event on the broker is its payment's, and a published one is there.  *)
EventsSound ==
    /\ \A e \in events : payment[e.order] # None /\ payment[e.order].event = e
    /\ \A o \in Orders :
         payment[o] # None /\ payment[o].event # None
           /\ payment[o].published => payment[o].event \in events

(* The cents of a customer's payments can be counted.                      *)
Counted ==
    \A c \in Customers, status \in {"reserved", "charged"} :
        IsFiniteSet(CentsOf(PaymentsOf(c, status)))

IInv ==
    /\ TypeOK
    /\ PaymentsSound
    /\ EventsSound
    /\ Counted
    /\ HoldsMatchPayments
    /\ MoneyConserved

-----------------------------------------------------------------------------
(* What the payments of a customer amount to.                              *)

(* The cents of customer c that a payment has in this status.              *)
Share(p, c, status) ==
    IF p # None /\ p.customer = c /\ p.status = status THEN p.amount ELSE 0

(* The cents that the orders of O have, when b are their payments.         *)
Shares(b, O, c, status) ==
    UNION {{o} \X (1 .. Share(b[o], c, status)) : o \in O}

LEMMA CentsAreShares ==
    ASSUME NEW c, NEW status
    PROVE  /\ CentsOf(PaymentsOf(c, status)) = Shares(payment, Orders, c, status)
           /\ CentsOf(PaymentsOf(c, status))' = Shares(payment', Orders, c, status)
<1>1. CentsOf(PaymentsOf(c, status)) \subseteq Shares(payment, Orders, c, status)
  BY DEF CentsOf, PaymentsOf, Shares, Share
<1>2. Shares(payment, Orders, c, status) \subseteq CentsOf(PaymentsOf(c, status))
  <2>1. SUFFICES ASSUME NEW o \in Orders,
                        NEW u \in {o} \X (1 .. Share(payment[o], c, status))
                 PROVE  u \in CentsOf(PaymentsOf(c, status))
    BY DEF Shares
  <2>2. /\ o \in PaymentsOf(c, status)
        /\ Share(payment[o], c, status) = payment[o].amount
    BY <2>1 DEF PaymentsOf, Share
  <2> QED
    BY <2>1, <2>2 DEF CentsOf
<1>3. CentsOf(PaymentsOf(c, status))' \subseteq Shares(payment', Orders, c, status)
  BY DEF CentsOf, PaymentsOf, Shares, Share
<1>4. Shares(payment', Orders, c, status) \subseteq CentsOf(PaymentsOf(c, status))'
  <2>1. SUFFICES ASSUME NEW o \in Orders,
                        NEW u \in {o} \X (1 .. Share(payment'[o], c, status))
                 PROVE  u \in CentsOf(PaymentsOf(c, status))'
    BY DEF Shares
  <2>2. /\ o \in PaymentsOf(c, status)'
        /\ Share(payment'[o], c, status) = payment'[o].amount
    BY <2>1 DEF PaymentsOf, Share
  <2> QED
    BY <2>1, <2>2 DEF CentsOf
<1> QED
  BY <1>1, <1>2, <1>3, <1>4

(* The cents of all orders are those of one order and those of the others. *)
LEMMA SharesSplit ==
    ASSUME NEW b, NEW o \in Orders, NEW c, NEW status,
           Share(b[o], c, status) \in Nat,
           IsFiniteSet(Shares(b, Orders \ {o}, c, status))
    PROVE  /\ IsFiniteSet(Shares(b, Orders, c, status))
           /\ Cardinality(Shares(b, Orders \ {o}, c, status)) \in Nat
           /\ Cardinality(Shares(b, Orders, c, status))
                = Cardinality(Shares(b, Orders \ {o}, c, status))
                    + Share(b[o], c, status)
<1> DEFINE own == {o} \X (1 .. Share(b[o], c, status))
           rest == Shares(b, Orders \ {o}, c, status)
<1>1. Shares(b, Orders, c, status) = rest \cup own
  BY DEF Shares
<1>2. rest \cap own = {}
  BY DEF Shares
<1>3. IsFiniteSet(own) /\ Cardinality(own) = Share(b[o], c, status)
  <2>1. /\ IsFiniteSet(1 .. Share(b[o], c, status))
        /\ Cardinality(1 .. Share(b[o], c, status)) = Share(b[o], c, status)
    BY FS_Interval
  <2>2. IsFiniteSet({o}) /\ Cardinality({o}) = 1
    BY FS_Singleton
  <2>3. /\ IsFiniteSet(own)
        /\ Cardinality(own) = 1 * Share(b[o], c, status)
    BY <2>1, <2>2, FS_Product
  <2> QED
    BY <2>3
<1> HIDE DEF own, rest
<1>4. /\ IsFiniteSet(rest \cup own) /\ Cardinality(rest) \in Nat
      /\ Cardinality(rest \cup own)
           = Cardinality(rest) + Cardinality(own) - Cardinality(rest \cap own)
  BY <1>3, FS_Union, FS_CardinalityType DEF rest
<1>5. Cardinality(rest \cap own) = 0
  BY <1>2, FS_EmptySet
<1> QED
  BY <1>1, <1>3, <1>4, <1>5 DEF rest

(* When only the payment of o changes, so does the customer's sum, by what *)
(* that payment has.                                                       *)
LEMMA OnePaymentCounts ==
    ASSUME TypeOK, Counted, TypeOK',
           NEW o \in Orders, \A x \in Orders \ {o} : payment'[x] = payment[x],
           NEW c \in Customers, NEW status \in {"reserved", "charged"}
    PROVE  /\ IsFiniteSet(CentsOf(PaymentsOf(c, status)))'
           /\ SumOf(PaymentsOf(c, status)) \in Nat
           /\ SumOf(PaymentsOf(c, status))' \in Nat
           /\ Share(payment[o], c, status) \in 0 .. SumOf(PaymentsOf(c, status))
           /\ Share(payment'[o], c, status) \in Nat
           /\ SumOf(PaymentsOf(c, status))'
                = SumOf(PaymentsOf(c, status))
                    + Share(payment'[o], c, status) - Share(payment[o], c, status)
<1> DEFINE others == Shares(payment, Orders \ {o}, c, status)
<1>1. /\ Share(payment[o], c, status) \in Nat
      /\ Share(payment'[o], c, status) \in Nat
  BY MaxSafeIsNat DEF TypeOK, Share, PaymentRecord, Cents
<1>2. others = Shares(payment', Orders \ {o}, c, status)
  BY DEF Shares
<1>3. IsFiniteSet(others)
  <2>1. others \subseteq CentsOf(PaymentsOf(c, status))
    BY CentsAreShares DEF Shares
  <2> QED
    BY <2>1, FS_Subset DEF Counted
<1>4. /\ Cardinality(others) \in Nat
      /\ SumOf(PaymentsOf(c, status))
           = Cardinality(others) + Share(payment[o], c, status)
  BY <1>1, <1>3, SharesSplit, CentsAreShares DEF SumOf
<1>5. /\ IsFiniteSet(CentsOf(PaymentsOf(c, status))')
      /\ Cardinality(CentsOf(PaymentsOf(c, status))')
           = Cardinality(others) + Share(payment'[o], c, status)
  BY <1>1, <1>2, <1>3, SharesSplit, CentsAreShares
<1>6. SumOf(PaymentsOf(c, status))'
        = Cardinality(CentsOf(PaymentsOf(c, status))')
  BY DEF SumOf
<1> HIDE DEF others
<1> QED
  BY <1>1, <1>4, <1>5, <1>6

(* The books balance after a step that moves a customer's money as it      *)
(* moves the payment of one order.                                         *)
LEMMA BooksFollowPayment ==
    ASSUME IInv, TypeOK',
           NEW o \in Orders, \A x \in Orders \ {o} : payment'[x] = payment[x],
           \A c \in Customers :
             /\ held'[c] = held[c] + Share(payment'[o], c, "reserved")
                                   - Share(payment[o], c, "reserved")
             /\ available'[c] + held'[c] + Share(payment'[o], c, "charged")
                  = available[c] + held[c] + Share(payment[o], c, "charged"),
           UNCHANGED credited
    PROVE  Counted' /\ HoldsMatchPayments' /\ MoneyConserved'
<1>1. ASSUME NEW c \in Customers
      PROVE  /\ (held[c] = SumOf(PaymentsOf(c, "reserved")))'
             /\ (credited[c] = available[c] + held[c]
                                 + SumOf(PaymentsOf(c, "charged")))'
  <2> DEFINE h == SumOf(PaymentsOf(c, "reserved"))
             g == SumOf(PaymentsOf(c, "charged"))
  <2>1. /\ h \in Nat /\ h' \in Nat
        /\ Share(payment[o], c, "reserved") \in Int
        /\ Share(payment'[o], c, "reserved") \in Int
        /\ h' = h + Share(payment'[o], c, "reserved")
                  - Share(payment[o], c, "reserved")
    BY OnePaymentCounts DEF IInv
  <2>2. /\ g \in Nat /\ g' \in Nat
        /\ Share(payment[o], c, "charged") \in Int
        /\ Share(payment'[o], c, "charged") \in Int
        /\ g' = g + Share(payment'[o], c, "charged")
                  - Share(payment[o], c, "charged")
    BY OnePaymentCounts DEF IInv
  <2>3. /\ available[c] \in Int /\ held[c] \in Int /\ credited[c] \in Int
        /\ available'[c] \in Int /\ held'[c] \in Int
    BY MaxSafeIsNat DEF IInv, TypeOK, Cents
  <2>4. held[c] = h /\ credited[c] = available[c] + held[c] + g
    BY DEF IInv, HoldsMatchPayments, MoneyConserved
  <2> HIDE DEF h, g
  <2>5. held'[c] = h'
    BY <2>1, <2>3, <2>4
  <2>6. credited'[c] = available'[c] + held'[c] + g'
    BY <2>2, <2>3, <2>4
  <2> QED
    BY <2>5, <2>6 DEF h, g
<1>2. Counted'
  BY OnePaymentCounts DEF IInv, Counted
<1> QED
  BY <1>1, <1>2 DEF HoldsMatchPayments, MoneyConserved

(* A payment that keeps its customer, amount and status, or that is        *)
(* refused at once, moves no money.                                        *)
LEMMA SameMoneyKeepsBooks ==
    ASSUME IInv, TypeOK',
           NEW o \in Orders, \A x \in Orders \ {o} : payment'[x] = payment[x],
           \A c \in Customers : \A status \in {"reserved", "charged"} :
             Share(payment'[o], c, status) = Share(payment[o], c, status),
           UNCHANGED <<available, held, credited>>
    PROVE  Counted' /\ HoldsMatchPayments' /\ MoneyConserved'
<1>1. ASSUME NEW c \in Customers
      PROVE  /\ held'[c] = held[c] + Share(payment'[o], c, "reserved")
                                   - Share(payment[o], c, "reserved")
             /\ available'[c] + held'[c] + Share(payment'[o], c, "charged")
                  = available[c] + held[c] + Share(payment[o], c, "charged")
  <2>1. held[c] \in Int /\ Share(payment[o], c, "reserved") \in Int
    BY MaxSafeIsNat DEF IInv, TypeOK, Cents, Share, PaymentRecord
  <2> QED
    BY <2>1
<1> QED
  BY <1>1, BooksFollowPayment

(* The payments of a customer have what they had, when none changes.       *)
LEMMA SamePaymentsSameSums ==
    ASSUME IInv, UNCHANGED payment,
           NEW c \in Customers, NEW status \in {"reserved", "charged"}
    PROVE  /\ CentsOf(PaymentsOf(c, status))' = CentsOf(PaymentsOf(c, status))
           /\ SumOf(PaymentsOf(c, status))' = SumOf(PaymentsOf(c, status))
           /\ SumOf(PaymentsOf(c, status)) \in Nat
<1>1. CentsOf(PaymentsOf(c, status))' = CentsOf(PaymentsOf(c, status))
  BY DEF CentsOf, PaymentsOf
<1>2. IsFiniteSet(CentsOf(PaymentsOf(c, status)))
  BY DEF IInv, Counted
<1> QED
  BY <1>1, <1>2, FS_CardinalityType DEF SumOf

-----------------------------------------------------------------------------
(* Publishing a sound payment, of an order that had none or no event, or   *)
(* has the same event, keeps payments and events sound.                    *)
LEMMA TryPublishSound ==
    ASSUME IInv,
           NEW o \in Orders, NEW p \in PaymentRecord,
           p.event # None, PaymentSound(o, p),
           payment[o] = None \/ payment[o].event \in {None, p.event},
           TryPublish(o, p)
    PROVE  /\ payment' \in [Orders -> PaymentRecord \cup {None}]
           /\ events' \subseteq PaymentEvent
           /\ PaymentsSound'
           /\ EventsSound'
           /\ \A x \in Orders \ {o} : payment'[x] = payment[x]
           /\ payment'[o].status = p.status /\ payment'[o].event = p.event
           /\ payment'[o].amount = p.amount
           /\ payment'[o].customer = p.customer /\ payment'[o] # None
<1>1. PICK b \in BOOLEAN :
         /\ payment' = [payment EXCEPT ![o] = [p EXCEPT !.published = b]]
         /\ events' \in {events, events \cup {p.event}}
         /\ b => p.event \in events'
  BY DEF TryPublish
<1> DEFINE q == [p EXCEPT !.published = b]
<1>2. q \in PaymentRecord /\ q # None
  <2>1. q \in PaymentRecord
    BY DEF PaymentRecord
  <2> QED
    BY <2>1, NoneIsNoValue
<1>3. /\ q.status = p.status /\ q.event = p.event /\ q.amount = p.amount
      /\ q.published = b /\ q.customer = p.customer
  BY DEF PaymentRecord
<1>4. PaymentSound(o, q)
  BY <1>3 DEF PaymentSound
<1>5. payment' = [payment EXCEPT ![o] = q]
  BY <1>1
<1> HIDE DEF q
<1>6. payment \in [Orders -> PaymentRecord \cup {None}]
  BY DEF IInv, TypeOK
<1>7. payment'[o] = q /\ \A x \in Orders \ {o} : payment'[x] = payment[x]
  BY <1>5, <1>6
<1>8. payment' \in [Orders -> PaymentRecord \cup {None}]
  BY <1>2, <1>5, <1>6
<1>9. p.event \in PaymentEvent /\ p.event.order = o
  BY DEF PaymentRecord, PaymentSound
<1>10. events' \subseteq PaymentEvent
  BY <1>1, <1>9 DEF IInv, TypeOK
<1>11. PaymentsSound'
  <2>1. SUFFICES ASSUME NEW x \in Orders, payment'[x] # None
                 PROVE  PaymentSound(x, payment'[x])
    BY DEF PaymentsSound, PaymentSound
  <2>2. CASE x = o
    BY <1>4, <1>7, <2>2, Zenon
  <2>3. CASE x # o
    BY <1>7, <2>1, <2>3, Zenon DEF IInv, PaymentsSound
  <2> QED
    BY <2>2, <2>3
<1>12. EventsSound'
  <2>1. ASSUME NEW e \in events'
        PROVE  payment'[e.order] # None /\ payment'[e.order].event = e
    <3>1. e.order \in Orders
      BY <1>10 DEF PaymentEvent
    <3>2. CASE e = p.event
      BY <1>2, <1>3, <1>7, <1>9, <3>2
    <3>3. CASE e \in events
      <4>1. payment[e.order] # None /\ payment[e.order].event = e /\ e # None
        BY <3>3, NoneIsNoValue DEF IInv, TypeOK, EventsSound
      <4> QED
        BY <1>2, <1>3, <1>7, <3>1, <4>1
    <3> QED
      BY <1>1, <3>2, <3>3
  <2>2. ASSUME NEW x \in Orders, payment'[x] # None,
               payment'[x].event # None, payment'[x].published
        PROVE  payment'[x].event \in events'
    <3>1. CASE x = o
      BY <1>1, <1>3, <1>7, <2>2, <3>1
    <3>2. CASE x # o
      BY <1>1, <1>7, <2>2, <3>2 DEF IInv, EventsSound
    <3> QED
      BY <3>1, <3>2
  <2> QED
    BY <2>1, <2>2 DEF EventsSound
<1> QED
  BY <1>2, <1>3, <1>7, <1>8, <1>10, <1>11, <1>12

(* finishExisting keeps payments and events sound, and decides nothing.    *)
LEMMA FinishExistingSound ==
    ASSUME IInv, NEW o \in Orders, payment[o] # None, FinishExisting(o)
    PROVE  /\ payment' \in [Orders -> PaymentRecord \cup {None}]
           /\ events' \subseteq PaymentEvent
           /\ PaymentsSound'
           /\ EventsSound'
           /\ \A x \in Orders \ {o} : payment'[x] = payment[x]
           /\ payment'[o].status = payment[o].status
           /\ payment'[o].event = payment[o].event
           /\ payment'[o].amount = payment[o].amount
           /\ payment'[o].customer = payment[o].customer /\ payment'[o] # None
<1>1. CASE UNCHANGED <<payment, events>>
  BY <1>1 DEF IInv, TypeOK, PaymentsSound, PaymentSound, EventsSound
<1>2. CASE payment[o].event # None /\ TryPublish(o, payment[o])
  <2>1. payment[o] \in PaymentRecord /\ PaymentSound(o, payment[o])
    BY DEF IInv, TypeOK, PaymentsSound
  <2> QED
    BY <1>2, <2>1, TryPublishSound
<1> QED
  BY <1>1, <1>2 DEF FinishExisting

-----------------------------------------------------------------------------
(* Every step keeps the invariant and the decisions made before it.        *)

(* DecisionsStick of one step.                                             *)
StepSticks ==
    /\ \A k \in Keys : byCharge[k] # None => byCharge'[k] = byCharge[k]
    /\ \A o \in Orders :
         payment[o] # None /\ payment[o].status # "reserved" =>
             /\ payment'[o].status = payment[o].status
             /\ payment'[o].event = payment[o].event

LEMMA CreditKeeps ==
    ASSUME IInv, NEW c \in Customers, NEW cents \in Credits, Credit(c, cents)
    PROVE  IInv' /\ StepSticks
<1>1. /\ TypeOK' /\ PaymentsSound' /\ EventsSound' /\ StepSticks
  BY CreditsTyped, MaxSafeIsNat
  DEF Credit, IInv, TypeOK, Cents, PaymentsSound, PaymentSound, EventsSound,
      StepSticks
<1>2. UNCHANGED <<payment, held>>
  BY DEF Credit
<1>3. Counted' /\ HoldsMatchPayments'
  BY <1>2, SamePaymentsSameSums DEF IInv, Counted, HoldsMatchPayments
<1>4. ASSUME NEW x \in Customers
      PROVE  (credited[x] = available[x] + held[x]
                             + SumOf(PaymentsOf(x, "charged")))'
  <2>1. /\ available[x] \in Int /\ held[x] \in Int /\ credited[x] \in Int
        /\ cents \in Int
    BY CreditsTyped, MaxSafeIsNat DEF IInv, TypeOK, Cents
  <2>2. /\ SumOf(PaymentsOf(x, "charged"))' = SumOf(PaymentsOf(x, "charged"))
        /\ SumOf(PaymentsOf(x, "charged")) \in Int
    BY <1>2, SamePaymentsSameSums
  <2>3. credited[x] = available[x] + held[x] + SumOf(PaymentsOf(x, "charged"))
    BY DEF IInv, MoneyConserved
  <2>4. \/ available'[x] = available[x] /\ credited'[x] = credited[x]
        \/ /\ available'[x] = available[x] + cents
           /\ credited'[x] = credited[x] + cents
    BY DEF Credit, IInv, TypeOK
  <2> QED
    BY <1>2, <2>1, <2>2, <2>3, <2>4
<1>5. MoneyConserved'
  BY <1>4 DEF MoneyConserved
<1> QED
  BY <1>1, <1>3, <1>5 DEF IInv

LEMMA ReserveKeeps ==
    ASSUME IInv, NEW r \in ReserveRequests, Reserve(r)
    PROVE  IInv' /\ StepSticks
<1> DEFINE p == NewPayment(r, "reserved", None)
<1>1. /\ r.order \in Orders /\ r.customer \in Customers
      /\ r.amount \in Cents /\ r.key \in Keys
  BY ReserveTyped
<1>2. /\ payment[r.order] = None
      /\ payment' = [payment EXCEPT ![r.order] = p]
      /\ UNCHANGED <<byCharge, events, credited>>
  BY DEF Reserve
<1>3. /\ p \in PaymentRecord /\ p.status = "reserved" /\ p.event = None
      /\ p.customer = r.customer /\ p.amount = r.amount
  BY <1>1 DEF NewPayment, PaymentRecord
<1>4. p # None /\ PaymentSound(r.order, p)
  BY <1>3, NoneIsNoValue DEF PaymentSound
<1> HIDE DEF p
<1>5. /\ payment'[r.order] = p
      /\ \A x \in Orders \ {r.order} : payment'[x] = payment[x]
  BY <1>1, <1>2 DEF IInv, TypeOK
<1>6. available' \in [Customers -> Cents] /\ held' \in [Customers -> Cents]
  BY <1>1, MaxSafeIsNat
  DEF Reserve, CanAuthorize, Authorize, IInv, TypeOK, Cents
<1>7. TypeOK'
  BY <1>1, <1>2, <1>3, <1>6 DEF IInv, TypeOK
<1>8. PaymentsSound'
  <2>1. SUFFICES ASSUME NEW x \in Orders, payment'[x] # None
                 PROVE  PaymentSound(x, payment'[x])
    BY DEF PaymentsSound, PaymentSound
  <2>2. CASE x = r.order
    BY <1>4, <1>5, <2>2, Zenon
  <2>3. CASE x # r.order
    BY <1>5, <2>1, <2>3, Zenon DEF IInv, PaymentsSound
  <2> QED
    BY <2>2, <2>3
<1>9. EventsSound'
  BY <1>2, <1>3, <1>5 DEF IInv, TypeOK, EventsSound, PaymentEvent
<1>10. ASSUME NEW c \in Customers
       PROVE  /\ held'[c] = held[c] + Share(payment'[r.order], c, "reserved")
                                    - Share(payment[r.order], c, "reserved")
              /\ available'[c] + held'[c] + Share(payment'[r.order], c, "charged")
                   = available[c] + held[c] + Share(payment[r.order], c, "charged")
  <2>1. /\ Share(payment[r.order], c, "reserved") = 0
        /\ Share(payment[r.order], c, "charged") = 0
        /\ Share(payment'[r.order], c, "charged") = 0
        /\ Share(payment'[r.order], c, "reserved")
             = IF c = r.customer THEN r.amount ELSE 0
    BY <1>2, <1>3, <1>4, <1>5 DEF Share
  <2>2. available[c] \in Int /\ held[c] \in Int /\ r.amount \in Int
    BY <1>1, MaxSafeIsNat DEF IInv, TypeOK, Cents
  <2>3. /\ held'[c] = IF c = r.customer THEN held[c] + r.amount ELSE held[c]
        /\ available'[c] = IF c = r.customer THEN available[c] - r.amount
                                             ELSE available[c]
    BY DEF Reserve, Authorize, IInv, TypeOK
  <2> QED
    BY <2>1, <2>2, <2>3
<1>11. Counted' /\ HoldsMatchPayments' /\ MoneyConserved'
  BY <1>1, <1>2, <1>5, <1>7, <1>10, BooksFollowPayment
<1> QED
  BY <1>2, <1>5, <1>7, <1>8, <1>9, <1>11 DEF IInv, StepSticks

LEMMA FailReserveKeeps ==
    ASSUME IInv, NEW r \in ReserveRequests, FailReserve(r)
    PROVE  IInv' /\ StepSticks
<1> DEFINE e == [type |-> "payment_failed", order |-> r.order, amount |-> 0]
           p == NewPayment(r, "failed", e)
<1>1. /\ r.order \in Orders /\ r.customer \in Customers
      /\ r.amount \in Cents /\ r.key \in Keys
  BY ReserveTyped
<1>2. /\ payment[r.order] = None /\ TryPublish(r.order, p)
      /\ UNCHANGED <<available, held, byCharge, credited>>
  BY DEF FailReserve
<1>3. e \in PaymentEvent /\ e # None
  <2>1. e \in PaymentEvent
    BY <1>1, MaxSafeIsNat DEF PaymentEvent, Cents
  <2> QED
    BY <2>1, NoneIsNoValue
<1>4. p \in PaymentRecord /\ p.status = "failed" /\ p.event = e
  BY <1>1, <1>3 DEF NewPayment, PaymentRecord
<1>5. PaymentSound(r.order, p)
  BY <1>3, <1>4 DEF PaymentSound
<1> HIDE DEF p, e
<1>6. /\ payment' \in [Orders -> PaymentRecord \cup {None}]
      /\ events' \subseteq PaymentEvent
      /\ PaymentsSound' /\ EventsSound'
      /\ \A x \in Orders \ {r.order} : payment'[x] = payment[x]
      /\ payment'[r.order].status = "failed"
  BY <1>1, <1>2, <1>3, <1>4, <1>5, TryPublishSound
<1>7. TypeOK' /\ StepSticks
  BY <1>2, <1>6 DEF IInv, TypeOK, StepSticks
<1>8. \A c \in Customers : \A status \in {"reserved", "charged"} :
        Share(payment'[r.order], c, status) = Share(payment[r.order], c, status)
  BY <1>2, <1>6 DEF Share
<1>9. Counted' /\ HoldsMatchPayments' /\ MoneyConserved'
  BY <1>1, <1>2, <1>6, <1>7, <1>8, SameMoneyKeepsBooks
<1> QED
  BY <1>6, <1>7, <1>9 DEF IInv

(* Publishing the answer of a payment again moves no money.                *)
LEMMA FinishedKeepsBooks ==
    ASSUME IInv, TypeOK', NEW o \in Orders, payment[o] # None, FinishExisting(o),
           UNCHANGED <<available, held, credited>>
    PROVE  Counted' /\ HoldsMatchPayments' /\ MoneyConserved'
<1>1. /\ \A x \in Orders \ {o} : payment'[x] = payment[x]
      /\ payment'[o].status = payment[o].status
      /\ payment'[o].amount = payment[o].amount
      /\ payment'[o].customer = payment[o].customer /\ payment'[o] # None
  BY FinishExistingSound
<1>2. \A c \in Customers : \A status \in {"reserved", "charged"} :
        Share(payment'[o], c, status) = Share(payment[o], c, status)
  BY <1>1 DEF Share
<1> QED
  BY <1>1, <1>2, SameMoneyKeepsBooks

LEMMA ReserveAgainKeeps ==
    ASSUME IInv, NEW r \in ReserveRequests, ReserveAgain(r)
    PROVE  IInv' /\ StepSticks
<1>1. /\ r.order \in Orders /\ payment[r.order] # None
      /\ FinishExisting(r.order)
      /\ UNCHANGED <<available, held, byCharge, credited>>
  BY ReserveTyped DEF ReserveAgain, SameRequest
<1>2. TypeOK' /\ PaymentsSound' /\ EventsSound' /\ StepSticks
  BY <1>1, FinishExistingSound DEF IInv, TypeOK, StepSticks
<1>3. Counted' /\ HoldsMatchPayments' /\ MoneyConserved'
  BY <1>1, <1>2, FinishedKeepsBooks
<1> QED
  BY <1>2, <1>3 DEF IInv

LEMMA ChargeKeeps ==
    ASSUME IInv, NEW r \in ChargeRequests, Charge(r)
    PROVE  IInv' /\ StepSticks
<1> DEFINE old == payment[r.order]
           e == [type |-> "payment_charged", order |-> r.order,
                 amount |-> old.amount]
           p == [old EXCEPT !.status = "charged", !.event = e]
<1>1. r.order \in Orders /\ r.key \in Keys
  BY ChargeTyped
<1>2. /\ byCharge[r.key] = None /\ old # None /\ old.status = "reserved"
      /\ Capture(old.customer, old.amount)
      /\ TryPublish(r.order, p)
      /\ byCharge' = [byCharge EXCEPT ![r.key] = r.order]
      /\ UNCHANGED credited
  BY DEF Charge, BindCharge
<1>3. old \in PaymentRecord /\ PaymentSound(r.order, old) /\ old.event = None
  BY <1>1, <1>2 DEF IInv, TypeOK, PaymentsSound, PaymentSound
<1>4. e \in PaymentEvent /\ e # None
  <2>1. e \in PaymentEvent
    BY <1>1, <1>3 DEF PaymentEvent, PaymentRecord
  <2> QED
    BY <2>1, NoneIsNoValue
<1>5. /\ p \in PaymentRecord /\ p.status = "charged" /\ p.event = e
      /\ p.amount = old.amount /\ p.customer = old.customer
  BY <1>3, <1>4 DEF PaymentRecord
<1>6. PaymentSound(r.order, p)
  BY <1>4, <1>5 DEF PaymentSound
<1>7. available' \in [Customers -> Cents] /\ held' \in [Customers -> Cents]
  BY <1>2, <1>3, MaxSafeIsNat DEF Capture, PaymentRecord, IInv, TypeOK, Cents
<1> HIDE DEF p, e
<1>8. /\ payment' \in [Orders -> PaymentRecord \cup {None}]
      /\ events' \subseteq PaymentEvent
      /\ PaymentsSound' /\ EventsSound'
      /\ \A x \in Orders \ {r.order} : payment'[x] = payment[x]
      /\ payment'[r.order] # None /\ payment'[r.order].status = "charged"
      /\ payment'[r.order].amount = old.amount
      /\ payment'[r.order].customer = old.customer
  BY <1>1, <1>2, <1>3, <1>4, <1>5, <1>6, TryPublishSound
<1>9. byCharge' \in [Keys -> Orders \cup {None}]
  BY <1>1, <1>2 DEF IInv, TypeOK
<1>10. TypeOK'
  BY <1>2, <1>7, <1>8, <1>9 DEF IInv, TypeOK
<1>11. StepSticks
  BY <1>1, <1>2, <1>8 DEF StepSticks, IInv, TypeOK
<1>12. ASSUME NEW c \in Customers
       PROVE  /\ held'[c] = held[c] + Share(payment'[r.order], c, "reserved")
                                    - Share(old, c, "reserved")
              /\ available'[c] + held'[c] + Share(payment'[r.order], c, "charged")
                   = available[c] + held[c] + Share(old, c, "charged")
  <2>1. /\ Share(payment'[r.order], c, "reserved") = 0
        /\ Share(payment'[r.order], c, "charged")
             = IF c = old.customer THEN old.amount ELSE 0
    BY <1>8 DEF Share
  <2>2. /\ Share(old, c, "charged") = 0
        /\ Share(old, c, "reserved")
             = IF c = old.customer THEN old.amount ELSE 0
    BY <1>2 DEF Share
  <2>3. available[c] \in Int /\ held[c] \in Int /\ old.amount \in Int
    BY <1>3, MaxSafeIsNat DEF IInv, TypeOK, Cents, PaymentRecord
  <2>4. /\ held'[c] = IF c = old.customer THEN held[c] - old.amount ELSE held[c]
        /\ available'[c] = available[c]
    BY <1>2 DEF Capture, IInv, TypeOK
  <2> HIDE DEF old
  <2> QED
    BY <2>1, <2>2, <2>3, <2>4
<1>13. Counted' /\ HoldsMatchPayments' /\ MoneyConserved'
  BY <1>1, <1>2, <1>8, <1>10, <1>12, BooksFollowPayment
<1> QED
  BY <1>8, <1>10, <1>11, <1>13 DEF IInv

LEMMA ChargeAgainKeeps ==
    ASSUME IInv, NEW r \in ChargeRequests, ChargeAgain(r)
    PROVE  IInv' /\ StepSticks
<1>1. /\ r.order \in Orders /\ r.key \in Keys /\ payment[r.order] # None
      /\ byCharge[r.key] \in {None, r.order}
      /\ byCharge' = [byCharge EXCEPT ![r.key] = r.order]
      /\ FinishExisting(r.order)
      /\ UNCHANGED <<available, held, credited>>
  BY ChargeTyped DEF ChargeAgain, BindCharge
<1>2. /\ payment' \in [Orders -> PaymentRecord \cup {None}]
      /\ events' \subseteq PaymentEvent
      /\ PaymentsSound' /\ EventsSound'
      /\ \A x \in Orders \ {r.order} : payment'[x] = payment[x]
      /\ payment'[r.order].status = payment[r.order].status
      /\ payment'[r.order].event = payment[r.order].event
  BY <1>1, FinishExistingSound
<1>3. TypeOK'
  BY <1>1, <1>2 DEF IInv, TypeOK
<1>4. StepSticks
  BY <1>1, <1>2 DEF StepSticks, IInv, TypeOK
<1>5. Counted' /\ HoldsMatchPayments' /\ MoneyConserved'
  BY <1>1, <1>3, FinishedKeepsBooks
<1> QED
  BY <1>2, <1>3, <1>4, <1>5 DEF IInv

LEMMA InitEstablishes == Init => IInv
<1> SUFFICES ASSUME Init PROVE IInv
  OBVIOUS
<1>1. TypeOK /\ PaymentsSound /\ EventsSound
  BY MaxSafeIsNat DEF Init, TypeOK, Cents, PaymentsSound, EventsSound
<1>2. ASSUME NEW c \in Customers, NEW status
      PROVE  /\ CentsOf(PaymentsOf(c, status)) = {}
             /\ available[c] = 0 /\ held[c] = 0 /\ credited[c] = 0
  BY DEF Init, CentsOf, PaymentsOf
<1>3. Counted /\ HoldsMatchPayments /\ MoneyConserved
  BY <1>2, FS_EmptySet DEF Counted, HoldsMatchPayments, MoneyConserved, SumOf
<1> QED
  BY <1>1, <1>3 DEF IInv

LEMMA StepKeeps == IInv /\ [Next]_vars => IInv' /\ [StepSticks]_vars
<1> SUFFICES ASSUME IInv, [Next]_vars PROVE IInv' /\ [StepSticks]_vars
  OBVIOUS
<1>1. CASE Next
  BY <1>1, CreditKeeps, ReserveKeeps, FailReserveKeeps, ReserveAgainKeeps,
     ChargeKeeps, ChargeAgainKeeps DEF Next
<1>2. CASE UNCHANGED vars
  <2>1. TypeOK' /\ PaymentsSound' /\ EventsSound'
    BY <1>2 DEF vars, IInv, TypeOK, PaymentsSound, PaymentSound, EventsSound
  <2>2. Counted' /\ HoldsMatchPayments' /\ MoneyConserved'
    BY <1>2, SamePaymentsSameSums
    DEF vars, IInv, Counted, HoldsMatchPayments, MoneyConserved
  <2> QED
    BY <1>2, <2>1, <2>2 DEF IInv
<1> QED
  BY <1>1, <1>2

-----------------------------------------------------------------------------
(* The theorems.                                                           *)

(* The inductive invariant holds in every reachable state.                 *)
THEOREM Invariance == Spec => []IInv
BY InitEstablishes, StepKeeps, PTL DEF Spec

(* Ledgers stay within the safe integers and never go negative, whatever   *)
(* is credited, reserved and charged (credit, authorize and capture).      *)
THEOREM TypeCorrect == Spec => []TypeOK
<1>1. IInv => TypeOK
  BY DEF IInv
<1> QED
  BY <1>1, Invariance, PTL

(* What is held of a customer's money is what the reserved payments hold,  *)
(* whatever was refused, retried or published late (authorize, capture,    *)
(* reserveLocked and chargeLocked).                                        *)
THEOREM HoldsAreMatched == Spec => []HoldsMatchPayments
<1>1. IInv => HoldsMatchPayments
  BY DEF IInv
<1> QED
  BY <1>1, Invariance, PTL

(* No cent is created or lost: credited money is available, held or        *)
(* captured (credit, authorize and capture).                               *)
THEOREM MoneyIsConserved == Spec => []MoneyConserved
<1>1. IInv => MoneyConserved
  BY DEF IInv
<1> QED
  BY <1>1, Invariance, PTL

(* The money of every reserved payment is held.                            *)
CapturesBacked ==
    \A o \in Orders :
        payment[o] # None /\ payment[o].status = "reserved" =>
            held[payment[o].customer] >= payment[o].amount

(* A charge always finds its hold: capture() succeeds for every reserved   *)
(* payment, and chargeLocked never answers hold_missing.                   *)
THEOREM CapturesFindTheirHolds == Spec => []CapturesBacked
<1>1. ASSUME IInv, NEW o \in Orders, payment[o] # None,
             payment[o].status = "reserved"
      PROVE  held[payment[o].customer] >= payment[o].amount
  <2> DEFINE c == payment[o].customer
  <2>1. payment[o] \in PaymentRecord /\ c \in Customers
    BY <1>1 DEF IInv, TypeOK, PaymentRecord
  <2>2. IsFiniteSet(CentsOf(PaymentsOf(c, "reserved")))
    BY <1>1, <2>1 DEF IInv, Counted
  <2>3. Share(payment[o], c, "reserved") = payment[o].amount
    BY <1>1 DEF Share
  <2>4. payment[o].amount \in Nat
    BY <2>1, MaxSafeIsNat DEF PaymentRecord, Cents
  <2>5. /\ Cardinality(Shares(payment, Orders \ {o}, c, "reserved")) \in Nat
        /\ SumOf(PaymentsOf(c, "reserved"))
             = Cardinality(Shares(payment, Orders \ {o}, c, "reserved"))
                 + payment[o].amount
    <3>1. Shares(payment, Orders \ {o}, c, "reserved")
            \subseteq CentsOf(PaymentsOf(c, "reserved"))
      BY CentsAreShares DEF Shares
    <3>2. IsFiniteSet(Shares(payment, Orders \ {o}, c, "reserved"))
      BY <2>2, <3>1, FS_Subset
    <3> QED
      BY <1>1, <2>3, <2>4, <3>2, SharesSplit, CentsAreShares DEF SumOf
  <2>6. held[c] = SumOf(PaymentsOf(c, "reserved"))
    BY <1>1, <2>1 DEF IInv, HoldsMatchPayments
  <2> QED
    BY <2>4, <2>5, <2>6
<1>2. IInv => CapturesBacked
  BY <1>1 DEF CapturesBacked
<1> QED
  BY <1>2, Invariance, PTL

(* The broker carries at most one answer for an order, the one that was    *)
(* stored, and a charge says the amount of the payment (chargeLocked,      *)
(* failReserve and the two finish functions).                              *)
THEOREM AnswersAreTruthful == Spec => []AnswersTruthful
<1>1. IInv => AnswersTruthful
  <2> SUFFICES ASSUME IInv, NEW e \in events
               PROVE  LET p == payment[e.order]
                      IN  /\ p # None /\ p.event = e
                          /\ IF p.status = "charged"
                             THEN /\ e.type = "payment_charged"
                                  /\ e.amount = p.amount
                             ELSE /\ e.type = "payment_failed"
                                  /\ p.status = "failed"
    BY DEF AnswersTruthful
  <2>1. /\ e.order \in Orders /\ e # None
        /\ payment[e.order] # None /\ payment[e.order].event = e
    BY NoneIsNoValue DEF IInv, TypeOK, EventsSound, PaymentEvent
  <2>2. /\ payment[e.order] \in PaymentRecord
        /\ PaymentSound(e.order, payment[e.order])
    BY <2>1 DEF IInv, TypeOK, PaymentsSound
  <2> QED
    BY <2>1, <2>2 DEF PaymentSound, PaymentRecord
<1> QED
  BY <1>1, Invariance, PTL

(* A decided payment whose answer is not on the broker is not marked       *)
(* published, so the next retry publishes it (tryPublish).                 *)
THEOREM UnsentIsRetried == Spec => []UnsentIsRetriable
<1>1. IInv => UnsentIsRetriable
  BY DEF IInv, UnsentIsRetriable, PaymentsSound, PaymentSound, EventsSound
<1> QED
  BY <1>1, Invariance, PTL

(* A charge key keeps its order, and a decided payment keeps its decision  *)
(* and its event, through every later request (bindCharge, chargeLocked).  *)
THEOREM DecisionsAreFinal == Spec => DecisionsStick
<1>1. IInv /\ [Next]_vars =>
        [/\ \A k \in Keys : byCharge[k] # None => byCharge'[k] = byCharge[k]
         /\ \A o \in Orders :
              payment[o] # None /\ payment[o].status # "reserved" =>
                  /\ payment'[o].status = payment[o].status
                  /\ payment'[o].event = payment[o].event]_vars
  BY StepKeeps DEF StepSticks
<1> QED
  BY <1>1, Invariance, PTL DEF Spec, DecisionsStick
=============================================================================
