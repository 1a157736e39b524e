---------------------------- MODULE IdempotentKeys ----------------------------
(***************************************************************************)
(* What an idempotency key promises, without slots, locks or waiting.  A   *)
(* key is taken by at most one request, for good, and only by a request    *)
(* whose command is on the broker.  Whoever uses a taken key is answered   *)
(* from it: with the same answer for the same body, with a conflict for    *)
(* another one.  A request that could not be carried out takes no key.     *)
(***************************************************************************)
CONSTANTS Requests, Keys, Key, Body, None

Accepted(r) == [code |-> "accepted", command |-> r]
Conflict == [code |-> "conflict", command |-> None]
Unavailable == [code |-> "unavailable", command |-> None]

VARIABLES
    commands,  \* requests whose command is on the broker
    taken,     \* key -> the request it is taken by, or None
    answer     \* request -> its answer, or None

vars == <<commands, taken, answer>>

Init ==
    /\ commands = {}
    /\ taken = [k \in Keys |-> None]
    /\ answer = [r \in Requests |-> None]

Answer(r, a) == answer[r] = None /\ answer' = [answer EXCEPT ![r] = a]

Send(r) ==
    /\ answer[r] = None
    /\ commands' = commands \cup {r}
    /\ UNCHANGED <<taken, answer>>

Take(r) ==
    /\ taken[Key[r]] = None /\ r \in commands
    /\ taken' = [taken EXCEPT ![Key[r]] = r]
    /\ Answer(r, Accepted(r))
    /\ UNCHANGED commands

Repeat(r) ==
    /\ taken[Key[r]] # None
    /\ Answer(r, IF Body[taken[Key[r]]] = Body[r]
                 THEN Accepted(taken[Key[r]]) ELSE Conflict)
    /\ UNCHANGED <<commands, taken>>

GiveUp(r) ==
    /\ Answer(r, Unavailable)
    /\ UNCHANGED <<commands, taken>>

Next == \E r \in Requests : Send(r) \/ Take(r) \/ Repeat(r) \/ GiveUp(r)

Spec == Init /\ [][Next]_vars
=============================================================================
