--------------------------- MODULE MCNotifications ----------------------------
(***************************************************************************)
(* A finite instance of Notifications: two threads; an order whose events  *)
(* are a completion, a cancellation and two order_created that disagree on *)
(* the customer; an order cancelled without notice to the customer; and    *)
(* customers with both, one or none of their addresses in the directory.   *)
(***************************************************************************)
EXTENDS Notifications, TLC

CONSTANTS order1, order2, alice, bob, mail, phone, thread1, thread2,
          created1, wrong1, completed1, cancelled1, created2, cancelled2

MCMsg ==
    LET Env(type, o, c, notify) ==
            [type |-> type, order |-> o, customer |-> c, notify |-> notify]
    IN  (created1 :> Env("created", order1, alice, FALSE))
        @@ (wrong1 :> Env("created", order1, bob, FALSE))
        @@ (completed1 :> Env("completed", order1, alice, FALSE))
        @@ (cancelled1 :> Env("cancelled", order1, alice, TRUE))
        @@ (created2 :> Env("created", order2, bob, FALSE))
        @@ (cancelled2 :> Env("cancelled", order2, bob, FALSE))

MCMessages == DOMAIN MCMsg

MCContacts == {[email |-> mail, sms |-> phone], [email |-> mail, sms |-> None], NoContact}

ThreadsAlike == Permutations({thread1, thread2})
=============================================================================
