------------------------------ MODULE PlaceOrder ------------------------------
(***************************************************************************)
(* The gateway and the orders service (extended) together: the commands of *)
(* the one are the messages of the other, delivered in any order and any   *)
(* number of times.  The gateway compares the bytes of requests, the       *)
(* orders service the fingerprint of their payload, which ignores how they *)
(* are written.                                                            *)
(***************************************************************************)
EXTENDS Orders

CONSTANTS
    Bodies,  \* request bodies, as in Gateway
    Body     \* Body[r] is the body of request r

(* What the orders service reads of a command is in the body.              *)
ASSUME BodiesTellAll ==
    \A q, r \in Messages : Body[q] = Body[r] =>
        /\ Fingerprint[q] = Fingerprint[r]
        /\ q \in Overflowing <=> r \in Overflowing

VARIABLES seen, ready, finished, at, waitsFor, answer, commands  \* of Gateway

Requesting == INSTANCE Gateway WITH Requests <- Messages

(* What the gateway assumes of its constants.                              *)
ASSUME RequestAssumptions ==
    /\ Requesting!KeyTyped /\ Requesting!BodyTyped
    /\ Requesting!NoneIsNoRequest /\ Requesting!NoneIsNoResponse

requestVars == <<seen, ready, finished, at, waitsFor, answer, commands>>
allVars == <<vars, requestVars>>

PlaceOrderInit == Init /\ Requesting!Init

(* A command that reached the broker is delivered to the orders service.   *)
Deliver(r) ==
    /\ r \in commands
    /\ Handle(r)
    /\ UNCHANGED requestVars

PlaceOrderNext ==
    \/ Requesting!Next /\ UNCHANGED vars
    \/ \E r \in Messages : Deliver(r)

PlaceOrderSpec == PlaceOrderInit /\ [][PlaceOrderNext]_allVars

(* An accepted request whose command is refused as a conflict has lost its *)
(* key to a request with another payload whose publish failed although its *)
(* command got out: two accepted requests never conflict, whatever the     *)
(* interleaving, and although the services compare different things.       *)
ConflictOnlyAfterUnconfirmed ==
    \A r \in Messages :
        outcome[r] = "conflict" /\ answer[r] = Requesting!Accepted(r) =>
            LET s == order[Key[r]].source_message_id IN
            /\ Fingerprint[s] # Fingerprint[r]
            /\ answer[s] \in {None, Requesting!Unavailable}
=============================================================================
