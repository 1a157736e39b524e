------------------------------ MODULE MCNotices -------------------------------
(***************************************************************************)
(* A finite instance of Notices: an order that inventory refuses, having   *)
(* no stock at all, and whose customer may be charged all the same.        *)
(***************************************************************************)
EXTENDS Notices, TLC

CONSTANTS order, basket, stockId, payId, created, refused, charged, customer,
          key1, key2, mail, phone, thread

MCInbound ==
    {[type |-> "order_created", id |-> created, source |-> "orders",
      order |-> order, price |-> 1, basket |-> basket],
     [type |-> "inventory_reservation_failed", id |-> refused,
      source |-> "inventory", order |-> order],
     [type |-> "payment_charged", id |-> charged, source |-> "payments",
      order |-> order, payment_id |-> payId, price |-> 1]}

MCLots == {<<1, 1>>}
MCDemands == {1 :> 1}
MCDemandOf == basket :> (1 :> 1)

MCReserveRequests ==
    {[order |-> order, customer |-> customer, amount |-> 1, key |-> key1,
      causation_ok |-> TRUE]}
MCChargeRequests == {[order |-> order, key |-> key2, causation_ok |-> TRUE]}

MCCustomerOf == order :> customer
MCContacts == {[email |-> mail, sms |-> phone], [email |-> None, sms |-> None]}
=============================================================================
