------------------------------- MODULE Gateway --------------------------------
(***************************************************************************)
(* POST /v1/orders of src/services/gateway/gateway.go: requests handled by *)
(* concurrent goroutines, which share a slot per idempotency key.  The     *)
(* first request with a key owns its slot and publishes the command; the   *)
(* others wait for the slot's channel, and then repeat its answer, refuse  *)
(* another body, or start over when the owner has failed.                  *)
(*                                                                         *)
(* A critical section of g.mu does not block and is one action, and so is  *)
(* each channel operation and the publish.  The publisher may succeed,     *)
(* fail, or fail after the command reached the broker, as broker.Bus does  *)
(* when the request's context ends between two deliveries.                 *)
(*                                                                         *)
(* Data abstractions.  A request is one that passed validation: the others *)
(* are answered before they touch a key.  Body stands for the hash of the  *)
(* raw bytes.  A request owns at most one slot, which therefore goes by    *)
(* the request's name, as do its command and its stored response; status   *)
(* 202 is "accepted".  A client that gives up does not end its goroutine.  *)
(*                                                                         *)
(* A definition introduced by "Fault" is a variant of the one after it     *)
(* with a bug; no specification here uses it.                              *)
(***************************************************************************)
CONSTANTS
    Requests,  \* requests, retries by clients included
    Keys,      \* idempotency keys
    Key,       \* Key[r] is the key of request r
    Bodies,    \* request bodies
    Body,      \* Body[r] is the body of request r
    None       \* an undefined value

ASSUME KeyTyped == Key \in [Requests -> Keys]
ASSUME BodyTyped == Body \in [Requests -> Bodies]
ASSUME NoneIsNoRequest == None \notin Requests

Accepted(r) == [code |-> "accepted", command |-> r]
Conflict == [code |-> "conflict", command |-> None]
Unavailable == [code |-> "unavailable", command |-> None]
Responses == [code : {"accepted", "conflict", "unavailable"},
              command : Requests \cup {None}]

ASSUME NoneIsNoResponse == None \notin Responses

VARIABLES
    seen,      \* key -> the request whose slot it holds, or None
    ready,     \* requests whose slot's channel is closed
    finished,  \* requests whose slot has status 202
    at,        \* request -> where its goroutine is
    waitsFor,  \* request -> the slot it waits for, or None
    answer,    \* request -> the response it got, or None
    commands   \* requests whose command reached the broker

vars == <<seen, ready, finished, at, waitsFor, answer, commands>>

TypeOK ==
    /\ seen \in [Keys -> Requests \cup {None}]
    /\ ready \subseteq Requests /\ finished \subseteq Requests
    /\ at \in [Requests -> {"new", "begin", "waiting", "publishing",
                            "finishing", "failing", "closing", "done"}]
    /\ waitsFor \in [Requests -> Requests \cup {None}]
    /\ answer \in [Requests -> Responses \cup {None}]
    /\ commands \subseteq Requests
    /\ \A r \in Requests : at[r] = "waiting" => waitsFor[r] # None

Init ==
    /\ seen = [k \in Keys |-> None]
    /\ ready = {} /\ finished = {}
    /\ at = [r \in Requests |-> "new"]
    /\ waitsFor = [r \in Requests |-> None]
    /\ answer = [r \in Requests |-> None]
    /\ commands = {}

Goes(r, from, to) == at[r] = from /\ at' = [at EXCEPT ![r] = to]

Answers(r, response) == answer' = [answer EXCEPT ![r] = response]

-----------------------------------------------------------------------------
(* beginIdempotent.                                                        *)

Arrive(r) ==
    /\ Goes(r, "new", "begin")
    /\ UNCHANGED <<seen, ready, finished, waitsFor, answer, commands>>

(* Fault: the slot is looked up and stored in two critical sections.       *)
ClaimUnchecked(r) ==
    /\ Goes(r, "begin", "publishing")
    /\ seen' = [seen EXCEPT ![Key[r]] = r]
    /\ UNCHANGED <<ready, finished, waitsFor, answer, commands>>

Claim(r) ==
    /\ Goes(r, "begin", "publishing")
    /\ seen[Key[r]] = None
    /\ seen' = [seen EXCEPT ![Key[r]] = r]
    /\ UNCHANGED <<ready, finished, waitsFor, answer, commands>>

Join(r) ==
    /\ Goes(r, "begin", "waiting")
    /\ seen[Key[r]] # None
    /\ waitsFor' = [waitsFor EXCEPT ![r] = seen[Key[r]]]
    /\ UNCHANGED <<seen, ready, finished, answer, commands>>

(* The channel is closed, with status 0: the owner failed.                 *)
StartOver(r) ==
    /\ Goes(r, "waiting", "begin")
    /\ waitsFor[r] \in ready \ finished
    /\ waitsFor' = [waitsFor EXCEPT ![r] = None]
    /\ UNCHANGED <<seen, ready, finished, answer, commands>>

(* Fault: the hashes are not compared.                                     *)
RepeatAny(r) ==
    /\ Goes(r, "waiting", "done")
    /\ waitsFor[r] \in ready \cap finished
    /\ Answers(r, Accepted(waitsFor[r]))
    /\ UNCHANGED <<seen, ready, finished, waitsFor, commands>>

(* The channel is closed, with a status: the answer is repeated, or the    *)
(* body is another one.                                                    *)
Repeat(r) ==
    /\ Goes(r, "waiting", "done")
    /\ waitsFor[r] \in ready \cap finished
    /\ Answers(r, IF Body[waitsFor[r]] = Body[r]
                  THEN Accepted(waitsFor[r]) ELSE Conflict)
    /\ UNCHANGED <<seen, ready, finished, waitsFor, commands>>

-----------------------------------------------------------------------------
(* placeOrder, by the owner of a slot.                                     *)

Publish(r) ==
    /\ \/ Goes(r, "publishing", "finishing") /\ commands' = commands \cup {r}
       \/ /\ Goes(r, "publishing", "failing")
          /\ commands' \in {commands, commands \cup {r}}
    /\ UNCHANGED <<seen, ready, finished, waitsFor, answer>>

(* finishIdempotent: status and response are set before the channel is     *)
(* closed, and read by others only after.                                  *)
Finish(r) ==
    /\ Goes(r, "finishing", "done")
    /\ finished' = finished \cup {r}
    /\ ready' = ready \cup {r}
    /\ Answers(r, Accepted(r))
    /\ UNCHANGED <<seen, waitsFor, commands>>

(* Fault: the slot of a failed request stays.                              *)
ReleaseNothing(r) ==
    /\ Goes(r, "failing", "closing")
    /\ UNCHANGED <<seen, ready, finished, waitsFor, answer, commands>>

(* failIdempotent: the slot is deleted first, ...                          *)
Release(r) ==
    /\ Goes(r, "failing", "closing")
    /\ seen' = IF seen[Key[r]] = r THEN [seen EXCEPT ![Key[r]] = None] ELSE seen
    /\ UNCHANGED <<ready, finished, waitsFor, answer, commands>>

(* ... and then its channel is closed.                                     *)
Close(r) ==
    /\ Goes(r, "closing", "done")
    /\ ready' = ready \cup {r}
    /\ Answers(r, Unavailable)
    /\ UNCHANGED <<seen, finished, waitsFor, commands>>

Proceed(r) ==
    \/ Claim(r)
    \/ Join(r)
    \/ StartOver(r)
    \/ Repeat(r)
    \/ Publish(r)
    \/ Finish(r)
    \/ Release(r)
    \/ Close(r)

Next == \E r \in Requests : Arrive(r) \/ Proceed(r)

Spec == Init /\ [][Next]_vars

(* The goroutine of a request that arrived runs on, and a publish returns. *)
FairSpec == Spec /\ \A r \in Requests : WF_vars(Proceed(r))

-----------------------------------------------------------------------------
(* Properties.                                                             *)

(* At most one request of a key publishes or is about to answer: the       *)
(* others wait, also when the owner fails and several waiters race for the *)
(* key while it is being released.                                         *)
OneOwner ==
    \A r, s \in Requests :
        /\ Key[r] = Key[s]
        /\ {at[r], at[s]} \subseteq {"publishing", "finishing", "failing"}
        => r = s

(* A key is taken once and for good, and everyone who uses it is answered  *)
(* from the request that took it, whose command is on the broker.          *)
Taken(k) == IF seen[k] \in finished THEN seen[k] ELSE None

KeysSpec == INSTANCE IdempotentKeys WITH taken <- [k \in Keys |-> Taken(k)]

ImplementsIdempotentKeys == KeysSpec!Spec

(* Every request is answered, provided that publishes return: no waiter is *)
(* left behind by an owner that fails, and the race for the key ends.      *)
EveryRequestAnswered == \A r \in Requests : at[r] = "begin" ~> at[r] = "done"
=============================================================================
