---------------------------- MODULE OrderVerdict -----------------------------
(***************************************************************************)
(* What the order saga promises, without messages, parking or retries.     *)
(* An order is undecided, then completed or cancelled for good.  Effects   *)
(* of other services become known one after the other, also after a        *)
(* cancellation.  Compensations are announced only for a cancelled order,  *)
(* only for known effects, and the customer is told before anything else   *)
(* is undone on its own.                                                   *)
(***************************************************************************)
CONSTANTS Orders

Effects == {"stock", "charge"}
Verdicts == {"open", "completed", "cancelled"}
Undoing == {"release_inventory", "refund_payment", "notify_customer"}

(* The compensations a cancelled order with these known effects owes.      *)
Owed(known) ==
    {c \in Undoing : \/ c = "notify_customer"
                     \/ c = "release_inventory" /\ "stock" \in known
                     \/ c = "refund_payment" /\ "charge" \in known}

VARIABLES
    verdict,    \* of each order
    effects,    \* known effects of each order
    announced   \* compensations the broker carries for each order

vars == <<verdict, effects, announced>>

Init ==
    /\ verdict = [o \in Orders |-> "open"]
    /\ effects = [o \in Orders |-> {}]
    /\ announced = [o \in Orders |-> {}]

(* An effect becomes known while the order is undecided.                   *)
Learn(o) ==
    /\ verdict[o] = "open"
    /\ \E e \in Effects : effects' = [effects EXCEPT ![o] = @ \cup {e}]
    /\ UNCHANGED <<verdict, announced>>

(* Only an order with both effects completes.                              *)
Complete(o) ==
    /\ verdict[o] = "open"
    /\ verdict' = [verdict EXCEPT ![o] = "completed"]
    /\ effects' = [effects EXCEPT ![o] = Effects]
    /\ UNCHANGED announced

(* The cancellation and all it owes are announced at once, or not at all   *)
(* for now.                                                                *)
Cancel(o) ==
    /\ verdict[o] = "open"
    /\ verdict' = [verdict EXCEPT ![o] = "cancelled"]
    /\ \E known \in SUBSET Effects :
         /\ effects[o] \subseteq known
         /\ effects' = [effects EXCEPT ![o] = known]
         /\ \/ UNCHANGED announced
            \/ announced' = [announced EXCEPT ![o] = Owed(known)]

(* After the cancellation an effect may surface, and something owed may    *)
(* be announced: one step for an order whose customer knows, or all of it. *)
Compensate(o) ==
    /\ verdict[o] = "cancelled"
    /\ UNCHANGED verdict
    /\ \E known \in SUBSET Effects :
         /\ effects[o] \subseteq known
         /\ effects' = [effects EXCEPT ![o] = known]
         /\ \/ UNCHANGED announced
            \/ announced' = [announced EXCEPT ![o] = Owed(known)]
            \/ /\ "notify_customer" \in announced[o]
               /\ \E c \in Owed(known) :
                    announced' = [announced EXCEPT ![o] = @ \cup {c}]

Next == \E o \in Orders : Learn(o) \/ Complete(o) \/ Cancel(o) \/ Compensate(o)

Spec == Init /\ [][Next]_vars
=============================================================================
