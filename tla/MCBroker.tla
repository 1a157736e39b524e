------------------------------ MODULE MCBroker -------------------------------
(***************************************************************************)
(* Finite instances of Broker.  In the first one, a fan-out subscription   *)
(* to everything, which gets the dead letters too, stands beside a queue   *)
(* group of two whose pattern "*.*" covers m1 but not its dead letter, and *)
(* not m2 but its dead letter; sick has a pattern that subscribe()         *)
(* rejects.  In the others, messages go to one consumer.                   *)
(***************************************************************************)
EXTENDS Broker, TLC

CONSTANTS fan, ann, bob, grp, sick, m1, m2

Created == <<"orders", "created">>

MCSubjects == (m1 :> Created) @@ (m2 :> <<"orders">>)
MCGroup == (fan :> None) @@ (ann :> grp) @@ (bob :> grp) @@ (sick :> None)
MCPattern ==
    (fan :> <<">">>) @@ (ann :> <<"*", "*">>) @@ (bob :> <<"*", "*">>)
      @@ (sick :> <<"orders", "", ">">>)

MCSubject == [c \in Calls |-> Created]
MCFanout == (fan :> None)
MCFanoutPattern == (fan :> <<"orders", "*">>)
=============================================================================
