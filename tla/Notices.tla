-------------------------------- MODULE Notices -------------------------------
(***************************************************************************)
(* The mesh (extended) and the notifications worker, which gets            *)
(* order_created and the saga's terminal events, as CATALOG of             *)
(* src/src/contracts.ts routes them, in any order and any number of times. *)
(* A terminal event is its own message id.                                 *)
(***************************************************************************)
EXTENDS Mesh

CONSTANTS
    CustomerOf,                   \* order -> the customer it was placed by
    Addresses, Contacts, Threads  \* as in Notifications

VARIABLES directory, view, dispatch, lock, at, job, sending, outcome, sent

(* The envelope the worker reads of an order_created or a terminal event.  *)
Notice(m) ==
    [type |-> CASE m.type = "order_created" -> "created"
                [] m.type = "order_completed" -> "completed"
                [] m.type = "order_cancelled" -> "cancelled",
     order |-> m.order, customer |-> CustomerOf[m.order],
     notify |-> m.type = "order_cancelled" /\ "notify_customer" \in m.compensations]

Worker == INSTANCE Notifications WITH
    Messages <- Placed \cup TerminalEvent,
    Msg <- [m \in Placed \cup TerminalEvent |-> Notice(m)]

workerVars == <<directory, view, dispatch, lock, at, job, sending, outcome, sent>>

(* Only what is on the broker is delivered.                                *)
WorkerHandles ==
    /\ Worker!Next
    /\ \A t \in Threads : job'[t] \in {None} \cup Placed \cup events
    /\ UNCHANGED meshVars

NoticesNext ==
    \/ MeshNext /\ UNCHANGED workerVars
    \/ WorkerHandles

NoticesSpec ==
    /\ MeshInit /\ Worker!Init
    /\ [][NoticesNext]_<<meshVars, workerVars>>

(* "A realistic microservices mesh for placing an order, reserving         *)
(* inventory, charging payment, and notifying the customer" (README.md):   *)
(* the worker refuses an event that asks for a notice only because of      *)
(* another one of the order that asks for a notice too.                    *)
CustomerIsTold ==
    \A t \in Threads :
        /\ outcome[t] = "conflict" /\ job[t].type # "order_created"
        /\ Worker!Wanted(job[t]) # {}
        => LET m == view[job[t].order].dispatch
           IN  m = None \/ Worker!Wanted(m) # {}
=============================================================================
