-------------------------------- MODULE Orders --------------------------------
(***************************************************************************)
(* The orders service of src/src/orders.ts: place_order commands become    *)
(* orders, at most one per idempotency key, and each order is announced by *)
(* the order_created event that is stored with it (the outbox).  serialize *)
(* runs one handler at a time, its publish included, so a handler is one   *)
(* action.  A publish may succeed, or fail with or without the event       *)
(* having reached the broker.                                              *)
(*                                                                         *)
(* Data abstractions.  An order goes by the command it was made from, and  *)
(* so does its event; byIdem, byMessage and byId, which put fills in       *)
(* together, are one function of the key.  A command is an envelope of the *)
(* right type and source: others are rejected before any state is read.    *)
(*                                                                         *)
(* A definition introduced by "Fault" is a variant of the one after it     *)
(* with a bug; no specification here uses it.                              *)
(***************************************************************************)
CONSTANTS
    Messages,      \* message ids of place_order commands
    Keys,          \* idempotency keys
    Key,           \* Key[m] is the key of command m
    Fingerprints,  \* request fingerprints
    Fingerprint,   \* Fingerprint[m] is the fingerprint of command m's payload
    Overflowing,   \* commands whose total is not a safe integer
    None           \* an undefined value

ASSUME KeyTyped == Key \in [Messages -> Keys]
ASSUME FingerprintTyped == Fingerprint \in [Messages -> Fingerprints]

OrderRecord == [source_message_id : Messages, request_hash : Fingerprints,
                event : Messages, published : BOOLEAN]

Done == {"created", "replayed", "duplicate"}
Outcomes == Done \cup {"publish_failed", "conflict", "rejected"}

ASSUME NoneIsNoRecord == None \notin OrderRecord \cup Outcomes

VARIABLES
    order,    \* key -> its OrderRecord, or None
    events,   \* order_created events that reached the broker
    outcome   \* command -> the outcome of its last delivery, or None

vars == <<order, events, outcome>>

(* An order stands under its command's key, and its total is an integer.   *)
TypeOK ==
    /\ order \in [Keys -> OrderRecord \cup {None}]
    /\ events \subseteq Messages
    /\ outcome \in [Messages -> Outcomes \cup {None}]
    /\ \A k \in Keys : order[k] # None =>
         /\ Key[order[k].source_message_id] = k
         /\ order[k].source_message_id \notin Overflowing

Init ==
    /\ order = [k \in Keys |-> None]
    /\ events = {}
    /\ outcome = [m \in Messages |-> None]

Answers(m, kind) == outcome' = [outcome EXCEPT ![m] = kind]

(* tryPublish of the order that command m makes or finds.                  *)
TryPublish(m, rec, kind) ==
    \/ /\ order' = [order EXCEPT ![Key[m]] = [rec EXCEPT !.published = TRUE]]
       /\ events' = events \cup {rec.event}
       /\ Answers(m, kind)
    \/ /\ order' = [order EXCEPT ![Key[m]] = rec]
       /\ events' \in {events, events \cup {rec.event}}
       /\ Answers(m, "publish_failed")

(* Fault: the event is built anew from the command at hand.                *)
FinishAnew(m) ==
    LET rec == order[Key[m]] IN
    \/ rec.published /\ Answers(m, "duplicate") /\ UNCHANGED <<order, events>>
    \/ ~rec.published /\ TryPublish(m, [rec EXCEPT !.event = m], "replayed")

(* finishExisting: the stored event is published, unless it was.           *)
FinishExisting(m) ==
    LET rec == order[Key[m]] IN
    \/ rec.published /\ Answers(m, "duplicate") /\ UNCHANGED <<order, events>>
    \/ ~rec.published /\ TryPublish(m, rec, "replayed")

Known(m) == order[Key[m]] # None /\ order[Key[m]].source_message_id = m

(* The command has made an order: its payload is not looked at again.      *)
Redelivered(m) == Known(m) /\ FinishExisting(m)

Reject(m) ==
    /\ ~Known(m) /\ m \in Overflowing
    /\ Answers(m, "rejected")
    /\ UNCHANGED <<order, events>>

(* Fault: the fingerprints are not compared.                               *)
Retold(m) ==
    /\ ~Known(m) /\ m \notin Overflowing
    /\ order[Key[m]] # None
    /\ FinishExisting(m)

(* The key has made an order, from another command with the same payload   *)
(* or with another one.                                                    *)
Repeated(m) ==
    /\ ~Known(m) /\ m \notin Overflowing
    /\ order[Key[m]] # None
    /\ \/ /\ order[Key[m]].request_hash # Fingerprint[m]
          /\ Answers(m, "conflict")
          /\ UNCHANGED <<order, events>>
       \/ order[Key[m]].request_hash = Fingerprint[m] /\ FinishExisting(m)

(* The order is stored first, and then its event is published.             *)
Create(m) ==
    /\ m \notin Overflowing
    /\ order[Key[m]] = None
    /\ TryPublish(m, [source_message_id |-> m, request_hash |-> Fingerprint[m],
                      event |-> m, published |-> FALSE], "created")

(* A command is delivered, maybe again.                                    *)
Handle(m) == Redelivered(m) \/ Reject(m) \/ Repeated(m) \/ Create(m)

Next == \E m \in Messages : Handle(m)

Spec == Init /\ [][Next]_vars

-----------------------------------------------------------------------------
(* Properties.                                                             *)

(* All events of a key are the one event that is stored with its order,    *)
(* and an order is marked published only when that event is out, so that   *)
(* an unsent one is published by the next delivery (README.md: "retry      *)
(* republishes the same envelope").                                        *)
OneEventPerOrder ==
    /\ \A e \in events : order[Key[e]] # None /\ order[Key[e]].event = e
    /\ \A k \in Keys : order[k] # None /\ order[k].published => order[k].event \in events

(* What was answered stays true: a command that was answered with an order *)
(* has its very payload ordered and announced, and one that was answered   *)
(* with a conflict has another one ordered under its key.                  *)
AnswersTruthful ==
    \A m \in Messages :
        LET rec == order[Key[m]] IN
        /\ outcome[m] \in Done =>
             rec # None /\ rec.request_hash = Fingerprint[m] /\ rec.event \in events
        /\ outcome[m] = "conflict" =>
             rec # None /\ rec.request_hash # Fingerprint[m]
=============================================================================
