----------------------------- MODULE OrdersProofs -----------------------------
(***************************************************************************)
(* Proofs about Orders, and about PlaceOrder, which composes it with the   *)
(* gateway, for every set of commands, keys, bodies and fingerprints.  The *)
(* inductive invariant says that an order is what its command asked for    *)
(* (OrdersFit); for the composition, that a command made an order only     *)
(* when it was out (OrdersWereAsked), and what the gateway answered then.  *)
(***************************************************************************)
EXTENDS PlaceOrder, TLAPS

-----------------------------------------------------------------------------
(* The inductive invariant.                                                *)

(* An order has its command's fingerprint and event.                       *)
OrdersFit ==
    \A k \in Keys : order[k] # None =>
        /\ order[k].event = order[k].source_message_id
        /\ order[k].request_hash = Fingerprint[order[k].source_message_id]

IInv ==
    /\ TypeOK
    /\ OrdersFit
    /\ OneEventPerOrder
    /\ AnswersTruthful

-----------------------------------------------------------------------------
LEMMA InitIInv == Init => IInv
BY KeyTyped, NoneIsNoRecord
   DEF Init, IInv, TypeOK, OrdersFit, OneEventPerOrder, AnswersTruthful,
       Done, Outcomes

(* Publishing the order of a key that has none, or the same one, for a     *)
(* command with the fingerprint of that order.                             *)
LEMMA TryPublishKeepsIInv ==
    ASSUME IInv, NEW m \in Messages, NEW rec \in OrderRecord,
           order[Key[m]] \in {None, rec},
           Key[rec.source_message_id] = Key[m],
           rec.source_message_id \notin Overflowing,
           rec.event = rec.source_message_id,
           rec.request_hash = Fingerprint[rec.source_message_id],
           rec.request_hash = Fingerprint[m],
           ~rec.published,
           NEW kind \in Done, TryPublish(m, rec, kind)
    PROVE  IInv'
<1> DEFINE k == Key[m]
<1>1. k \in Keys
  BY KeyTyped
<1>2. PICK b \in BOOLEAN, said \in Outcomes :
        /\ order' = [order EXCEPT ![k] = [rec EXCEPT !.published = b]]
        /\ events' \in {events, events \cup {rec.event}}
        /\ b => rec.event \in events'
        /\ said \in Done => b
        /\ said # "conflict"
        /\ outcome' = [outcome EXCEPT ![m] = said]
  <2>1. CASE /\ order' = [order EXCEPT ![k] = [rec EXCEPT !.published = TRUE]]
             /\ events' = events \cup {rec.event}
             /\ Answers(m, kind)
    BY <2>1 DEF Answers, Done, Outcomes
  <2>2. CASE /\ order' = [order EXCEPT ![k] = rec]
             /\ events' \in {events, events \cup {rec.event}}
             /\ Answers(m, "publish_failed")
    <3>1. rec = [rec EXCEPT !.published = FALSE]
      BY DEF OrderRecord
    <3> QED
      BY <2>2, <3>1 DEF Answers, Done, Outcomes
  <2> QED
    BY <2>1, <2>2 DEF TryPublish
<1> DEFINE new == [rec EXCEPT !.published = b]
<1>3. /\ new \in OrderRecord /\ new # None
      /\ new.event = rec.event /\ new.source_message_id = rec.source_message_id
      /\ new.request_hash = rec.request_hash /\ new.published = b
  BY NoneIsNoRecord DEF OrderRecord
<1> HIDE DEF new
<1>4. order'[k] = new /\ \A j \in Keys \ {k} : order'[j] = order[j]
  BY <1>1, <1>2 DEF IInv, TypeOK, new
<1>5. TypeOK'
  <2>1. rec.event \in Messages
    BY DEF OrderRecord
  <2>2. order' \in [Keys -> OrderRecord \cup {None}]
    BY <1>2, <1>3 DEF IInv, TypeOK, new
  <2> QED
    BY <1>2, <1>3, <1>4, <2>1, <2>2 DEF IInv, TypeOK
<1>6. OrdersFit'
  BY <1>3, <1>4 DEF IInv, OrdersFit
<1>7. OneEventPerOrder'
  <2>1. ASSUME NEW e \in events' PROVE order'[Key[e]] # None /\ order'[Key[e]].event = e
    <3>1. CASE e = rec.event
      BY <1>3, <1>4, <3>1
    <3>2. CASE e # rec.event
      <4>1. e \in events /\ order[Key[e]] # None /\ order[Key[e]].event = e /\ Key[e] \in Keys
        BY <1>2, <3>2, <2>1, KeyTyped DEF IInv, OneEventPerOrder, TypeOK
      <4>2. Key[e] # k
        BY <3>2, <4>1
      <4> QED
        BY <1>4, <4>1, <4>2
    <3> QED
      BY <3>1, <3>2
  <2>2. ASSUME NEW j \in Keys, order'[j] # None, order'[j].published
        PROVE  order'[j].event \in events'
    BY <1>2, <1>3, <1>4, <2>2 DEF IInv, OneEventPerOrder
  <2> QED
    BY <2>1, <2>2 DEF OneEventPerOrder
<1>8. AnswersTruthful'
  <2> SUFFICES ASSUME NEW n \in Messages
               PROVE  /\ outcome'[n] \in Done =>
                           /\ order'[Key[n]] # None
                           /\ order'[Key[n]].request_hash = Fingerprint[n]
                           /\ order'[Key[n]].event \in events'
                      /\ outcome'[n] = "conflict" =>
                           /\ order'[Key[n]] # None
                           /\ order'[Key[n]].request_hash # Fingerprint[n]
    BY DEF AnswersTruthful
  <2>1. Key[n] \in Keys
    BY KeyTyped
  <2>2. CASE n = m
    BY <1>2, <1>3, <1>4, <2>2 DEF IInv, TypeOK
  <2>3. CASE n # m
    <3>1. outcome'[n] = outcome[n]
      BY <1>2, <2>3 DEF IInv, TypeOK
    <3>2. CASE Key[n] = k
      BY <1>2, <1>3, <1>4, <3>1, <3>2 DEF IInv, AnswersTruthful
    <3>3. CASE Key[n] # k
      BY <1>2, <1>4, <2>1, <3>1, <3>3 DEF IInv, AnswersTruthful
    <3> QED
      BY <3>2, <3>3
  <2> QED
    BY <2>2, <2>3
<1> QED
  BY <1>5, <1>6, <1>7, <1>8 DEF IInv

(* An answer that changes nothing else.                                    *)
LEMMA AnswerKeepsIInv ==
    ASSUME IInv, NEW m \in Messages, NEW kind \in Outcomes,
           Answers(m, kind), UNCHANGED <<order, events>>,
           kind \in Done =>
             /\ order[Key[m]] # None /\ order[Key[m]].request_hash = Fingerprint[m]
             /\ order[Key[m]].event \in events,
           kind = "conflict" =>
             order[Key[m]] # None /\ order[Key[m]].request_hash # Fingerprint[m]
    PROVE  IInv'
<1>1. /\ outcome' \in [Messages -> Outcomes \cup {None}]
      /\ outcome'[m] = kind /\ \A n \in Messages \ {m} : outcome'[n] = outcome[n]
  BY DEF Answers, IInv, TypeOK
<1>2. TypeOK' /\ OrdersFit' /\ OneEventPerOrder'
  BY <1>1 DEF IInv, TypeOK, OrdersFit, OneEventPerOrder
<1>3. AnswersTruthful'
  BY <1>1 DEF IInv, AnswersTruthful
<1> QED
  BY <1>2, <1>3 DEF IInv

LEMMA FinishExistingKeepsIInv ==
    ASSUME IInv, NEW m \in Messages, order[Key[m]] # None,
           order[Key[m]].request_hash = Fingerprint[m], FinishExisting(m)
    PROVE  IInv'
<1> DEFINE rec == order[Key[m]]
<1>1. rec \in OrderRecord /\ Key[m] \in Keys
  BY KeyTyped DEF IInv, TypeOK
<1>2. /\ Key[rec.source_message_id] = Key[m] /\ rec.source_message_id \notin Overflowing
      /\ rec.event = rec.source_message_id
      /\ rec.request_hash = Fingerprint[rec.source_message_id]
  BY <1>1 DEF IInv, TypeOK, OrdersFit
<1>3. CASE rec.published /\ Answers(m, "duplicate") /\ UNCHANGED <<order, events>>
  <2>1. rec.event \in events
    BY <1>1, <1>3 DEF IInv, OneEventPerOrder
  <2> QED
    BY <1>3, <2>1, AnswerKeepsIInv DEF Done, Outcomes
<1>4. CASE ~rec.published /\ TryPublish(m, rec, "replayed")
  BY <1>1, <1>2, <1>4, TryPublishKeepsIInv DEF Done
<1> QED
  BY <1>3, <1>4 DEF FinishExisting

LEMMA NextKeepsIInv == IInv /\ [Next]_vars => IInv'
<1> SUFFICES ASSUME IInv, [Next]_vars PROVE IInv'
  OBVIOUS
<1>1. ASSUME NEW m \in Messages, Redelivered(m) PROVE IInv'
  <2>1. order[Key[m]] # None /\ order[Key[m]].request_hash = Fingerprint[m]
    BY <1>1, KeyTyped DEF Redelivered, Known, IInv, OrdersFit
  <2> QED
    BY <1>1, <2>1, FinishExistingKeepsIInv DEF Redelivered
<1>2. ASSUME NEW m \in Messages, Reject(m) PROVE IInv'
  BY <1>2, AnswerKeepsIInv DEF Reject, Done, Outcomes
<1>3. ASSUME NEW m \in Messages, Repeated(m) PROVE IInv'
  <2>1. CASE /\ order[Key[m]].request_hash # Fingerprint[m]
             /\ Answers(m, "conflict")
             /\ UNCHANGED <<order, events>>
    BY <1>3, <2>1, AnswerKeepsIInv DEF Repeated, Done, Outcomes
  <2>2. CASE order[Key[m]].request_hash = Fingerprint[m] /\ FinishExisting(m)
    BY <1>3, <2>2, FinishExistingKeepsIInv DEF Repeated
  <2> QED
    BY <1>3, <2>1, <2>2 DEF Repeated
<1>4. ASSUME NEW m \in Messages, Create(m) PROVE IInv'
  <2> DEFINE rec == [source_message_id |-> m, request_hash |-> Fingerprint[m],
                     event |-> m, published |-> FALSE]
  <2>1. rec \in OrderRecord
    BY FingerprintTyped DEF OrderRecord
  <2>2. m \notin Overflowing /\ order[Key[m]] = None /\ TryPublish(m, rec, "created")
    BY <1>4 DEF Create
  <2>3. "created" \in Done
    BY DEF Done
  <2>4. /\ rec.source_message_id = m /\ rec.event = m /\ ~rec.published
        /\ rec.request_hash = Fingerprint[m]
    OBVIOUS
  <2> HIDE DEF rec
  <2> QED
    BY <2>1, <2>2, <2>3, <2>4, TryPublishKeepsIInv
<1>5. CASE UNCHANGED vars
  BY <1>5 DEF vars, IInv, TypeOK, OrdersFit, OneEventPerOrder, AnswersTruthful
<1> QED
  BY <1>1, <1>2, <1>3, <1>4, <1>5 DEF Next, Handle

-----------------------------------------------------------------------------
(* The inductive invariant holds in every reachable state.                 *)
THEOREM Invariance == Spec => []IInv
BY InitIInv, NextKeepsIInv, PTL DEF Spec

(* Every reachable state is well typed: orders stand under their command's *)
(* key and have a total.                                                   *)
THEOREM TypeCorrect == Spec => []TypeOK
<1>1. IInv => TypeOK
  BY DEF IInv
<1> QED
  BY <1>1, Invariance, PTL

(* Whatever is retried, a key has one event on the broker, its order's.    *)
THEOREM OneEventOnly == Spec => []OneEventPerOrder
<1>1. IInv => OneEventPerOrder
  BY DEF IInv
<1> QED
  BY <1>1, Invariance, PTL

(* What orders answered stays true.                                        *)
THEOREM AnswersAreTruthful == Spec => []AnswersTruthful
<1>1. IInv => AnswersTruthful
  BY DEF IInv
<1> QED
  BY <1>1, Invariance, PTL

-----------------------------------------------------------------------------
(* The gateway and the orders service together.                            *)

RequestProofs == INSTANCE GatewayProofs WITH Requests <- Messages

LEMMA RequestsAssumed ==
    /\ RequestProofs!KeyTyped /\ RequestProofs!BodyTyped
    /\ RequestProofs!NoneIsNoRequest /\ RequestProofs!NoneIsNoResponse
BY RequestAssumptions
   DEF Requesting!KeyTyped, Requesting!BodyTyped, Requesting!NoneIsNoRequest,
       Requesting!NoneIsNoResponse, Requesting!Responses,
       RequestProofs!KeyTyped, RequestProofs!BodyTyped,
       RequestProofs!NoneIsNoRequest, RequestProofs!NoneIsNoResponse,
       RequestProofs!Responses

(* Every step of the gateway is one of the instance that proves about it.  *)
LEMMA SameRequests == Requesting!Next => RequestProofs!Next
<1>1. ASSUME NEW r
      PROVE  /\ Requesting!Arrive(r) => RequestProofs!Arrive(r)
             /\ Requesting!Claim(r) => RequestProofs!Claim(r)
             /\ Requesting!Join(r) => RequestProofs!Join(r)
             /\ Requesting!StartOver(r) => RequestProofs!StartOver(r)
             /\ Requesting!Publish(r) => RequestProofs!Publish(r)
             /\ Requesting!Release(r) => RequestProofs!Release(r)
  BY DEF Requesting!Arrive, Requesting!Claim, Requesting!Join,
         Requesting!StartOver, Requesting!Publish, Requesting!Release,
         Requesting!Goes, RequestProofs!Arrive, RequestProofs!Claim,
         RequestProofs!Join, RequestProofs!StartOver,
         RequestProofs!Publish, RequestProofs!Release, RequestProofs!Goes
<1>2. ASSUME NEW r
      PROVE  /\ Requesting!Repeat(r) => RequestProofs!Repeat(r)
             /\ Requesting!Finish(r) => RequestProofs!Finish(r)
             /\ Requesting!Close(r) => RequestProofs!Close(r)
  BY DEF Requesting!Repeat, Requesting!Finish, Requesting!Close,
         Requesting!Goes, Requesting!Answers, Requesting!Accepted,
         Requesting!Conflict, Requesting!Unavailable,
         RequestProofs!Repeat, RequestProofs!Finish, RequestProofs!Close,
         RequestProofs!Goes, RequestProofs!Answers, RequestProofs!Accepted,
         RequestProofs!Conflict, RequestProofs!Unavailable
<1> QED
  BY <1>1, <1>2 DEF Requesting!Next, Requesting!Proceed, RequestProofs!Next,
                    RequestProofs!Proceed

OrdersWereAsked ==
    \A k \in Keys : order[k] # None => order[k].source_message_id \in commands

PlaceOrderInv ==
    /\ IInv /\ RequestProofs!IInv /\ RequestProofs!OwnersAnswered
    /\ OrdersWereAsked

LEMMA DeliverKeepsAsked ==
    ASSUME IInv, OrdersWereAsked, NEW r \in Messages, Deliver(r)
    PROVE  OrdersWereAsked'
<1>1. /\ r \in commands /\ commands' = commands /\ Key[r] \in Keys
      /\ order \in [Keys -> OrderRecord \cup {None}]
  BY KeyTyped DEF Deliver, requestVars, IInv, TypeOK
<1>2. ASSUME NEW rec \in OrderRecord, rec.source_message_id \in commands,
             NEW kind, TryPublish(r, rec, kind)
      PROVE  OrdersWereAsked'
  BY <1>1, <1>2 DEF TryPublish, OrdersWereAsked, OrderRecord
<1>3. ASSUME order[Key[r]] # None, FinishExisting(r) PROVE OrdersWereAsked'
  BY <1>1, <1>2, <1>3 DEF FinishExisting, OrdersWereAsked
<1>4. CASE Redelivered(r)
  BY <1>3, <1>4 DEF Redelivered, Known
<1>5. CASE Reject(r) \/ Repeated(r)
  BY <1>1, <1>3, <1>5 DEF Reject, Repeated, OrdersWereAsked
<1>6. CASE Create(r)
  <2> DEFINE rec == [source_message_id |-> r, request_hash |-> Fingerprint[r],
                     event |-> r, published |-> FALSE]
  <2>1. rec \in OrderRecord /\ rec.source_message_id = r
    BY FingerprintTyped DEF OrderRecord
  <2>2. TryPublish(r, rec, "created")
    BY <1>6 DEF Create
  <2> HIDE DEF rec
  <2> QED
    BY <1>1, <1>2, <2>1, <2>2
<1> QED
  BY <1>4, <1>5, <1>6 DEF Deliver, Handle

(* The invariants of both services and what links them.                    *)
THEOREM PlaceOrderInvariance == PlaceOrderSpec => []PlaceOrderInv
<1>1. PlaceOrderInit => PlaceOrderInv
  <2>1. Requesting!Init => RequestProofs!Init
    BY DEF Requesting!Init, RequestProofs!Init
  <2> QED
    BY <2>1, InitIInv, RequestsAssumed, RequestProofs!InitIInv,
       RequestProofs!InitAnswers
       DEF PlaceOrderInit, PlaceOrderInv, OrdersWereAsked, Init
<1>2. ASSUME PlaceOrderInv, [PlaceOrderNext]_allVars PROVE PlaceOrderInv'
  <2>1. [Next]_vars /\ [RequestProofs!Next]_RequestProofs!vars
    BY <1>2, SameRequests
       DEF PlaceOrderNext, Deliver, Next, allVars, requestVars,
           RequestProofs!vars
  <2>2. /\ IInv' /\ RequestProofs!IInv' /\ RequestProofs!OwnersAnswered'
    BY <1>2, <2>1, NextKeepsIInv, RequestsAssumed,
       RequestProofs!NextKeepsIInv, RequestProofs!NextKeepsAnswers
       DEF PlaceOrderInv
  <2>3. CASE \E r \in Messages : Deliver(r)
    BY <1>2, <2>2, <2>3, DeliverKeepsAsked DEF PlaceOrderInv
  <2>4. CASE UNCHANGED vars /\ [Requesting!Next]_requestVars
    <3>1. order' = order /\ commands \subseteq commands'
      BY <2>4 DEF vars, requestVars, Requesting!Next, Requesting!Proceed,
         Requesting!Arrive, Requesting!Claim, Requesting!Join,
         Requesting!StartOver, Requesting!Repeat, Requesting!Publish,
         Requesting!Finish, Requesting!Release, Requesting!Close
    <3> QED
      BY <1>2, <2>2, <3>1 DEF PlaceOrderInv, OrdersWereAsked
  <2> QED
    BY <1>2, <2>3, <2>4 DEF PlaceOrderNext, allVars
<1> QED
  BY <1>1, <1>2, PTL DEF PlaceOrderSpec

(* Two accepted requests never conflict: the one that made the order would *)
(* hold the key's slot for good, as the other does (gateway.go             *)
(* finishIdempotent, orders.ts handleLocked).                              *)
THEOREM ConflictsHaveACause == PlaceOrderSpec => []ConflictOnlyAfterUnconfirmed
<1>1. ASSUME PlaceOrderInv, NEW r \in Messages, outcome[r] = "conflict",
             answer[r] = Requesting!Accepted(r)
      PROVE  LET s == order[Key[r]].source_message_id IN
             /\ Fingerprint[s] # Fingerprint[r]
             /\ answer[s] \in {None, Requesting!Unavailable}
  <2> DEFINE s == order[Key[r]].source_message_id
  <2>1. /\ Key[r] \in Keys /\ order[Key[r]] # None
        /\ Fingerprint[s] # Fingerprint[r] /\ Key[s] = Key[r]
    BY <1>1, KeyTyped
       DEF PlaceOrderInv, IInv, TypeOK, OrdersFit, AnswersTruthful
  <2>2. s \in commands /\ s \in Messages
    BY <1>1, <2>1
       DEF PlaceOrderInv, OrdersWereAsked, RequestProofs!IInv,
           RequestProofs!TypeOK
  <2>3. answer[s] # Requesting!Accepted(s)
    <3>1. SUFFICES ASSUME answer[s] = Requesting!Accepted(s) PROVE FALSE
      OBVIOUS
    <3>2. r \in finished /\ s \in finished
      BY <1>1, <2>2, <3>1
         DEF PlaceOrderInv, RequestProofs!OwnersAnswered,
             Requesting!Accepted, RequestProofs!Accepted
    <3>3. seen[Key[r]] = r /\ seen[Key[s]] = s
      BY <1>1, <3>2
         DEF PlaceOrderInv, RequestProofs!IInv, RequestProofs!FinishedHold
    <3> QED
      BY <2>1, <3>3
  <2> QED
    BY <1>1, <2>1, <2>2, <2>3
       DEF PlaceOrderInv, RequestProofs!OwnersAnswered,
           Requesting!Accepted, RequestProofs!Accepted,
           Requesting!Unavailable, RequestProofs!Unavailable
<1>2. PlaceOrderInv => ConflictOnlyAfterUnconfirmed
  BY <1>1 DEF ConflictOnlyAfterUnconfirmed
<1> QED
  BY <1>2, PlaceOrderInvariance, PTL
=============================================================================
