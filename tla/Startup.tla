-------------------------------- MODULE Startup -------------------------------
(***************************************************************************)
(* startupOrder of src/src/compose.ts, and what checkComposePolicy makes   *)
(* of it: the services of a compose file in an order in which each comes   *)
(* after those it depends on.  An action is one turn of the while loop.    *)
(*                                                                         *)
(* Services are numbers, compared as sort() orders their names.  The queue *)
(* q is sorted whenever it is read, so it is the set of its elements, and  *)
(* shift() takes the least.  The conditions of depends_on are left out.    *)
(*                                                                         *)
(* A definition introduced by "Fault" is a variant of the one after it     *)
(* with a bug; no specification here uses it.                              *)
(***************************************************************************)
EXTENDS Integers, Sequences, FiniteSets, FiniteSetsExt, SequencesExt

CONSTANT Names  \* names a compose file may use

ASSUME NamesOrdered == Names \subseteq Nat /\ IsFiniteSet(Names)

VARIABLES
    services,   \* the services of the file
    dependsOn,  \* service -> what it depends on, maybe no service
    indeg,      \* service -> how many of its dependencies are not out
    q,          \* services that wait for nothing
    out         \* the order, as far as it is known

vars == <<services, dependsOn, indeg, q, out>>

TypeOK ==
    /\ services \in SUBSET Names
    /\ dependsOn \in [services -> SUBSET Names]
    /\ indeg \in [services -> Nat]
    /\ q \in SUBSET services
    /\ out \in Seq(services)

(* A dependency that is no service is not waited for.                      *)
Init ==
    /\ services \in SUBSET Names
    /\ dependsOn \in [services -> SUBSET Names]
    /\ indeg = [s \in services |-> Cardinality(dependsOn[s] \cap services)]
    /\ q = {s \in services : indeg[s] = 0}
    /\ out = <<>>

(* Fault: a service is queued with its first dependency.                   *)
TakeEager ==
    /\ q # {}
    /\ LET n == Min(q)
           freed == {m \in services : n \in dependsOn[m]}
       IN  /\ out' = Append(out, n)
           /\ indeg' = [m \in services |-> IF m \in freed THEN indeg[m] - 1
                                                          ELSE indeg[m]]
           /\ q' = (q \ {n}) \cup freed
    /\ UNCHANGED <<services, dependsOn>>

(* Fault: the queue is not sorted again.                                   *)
TakeAny ==
    /\ \E n \in q :
         /\ out' = Append(out, n)
         /\ indeg' = [m \in services |-> IF n \in dependsOn[m]
                                         THEN indeg[m] - 1 ELSE indeg[m]]
         /\ q' = (q \ {n}) \cup {m \in services : n \in dependsOn[m] /\ indeg'[m] = 0}
    /\ UNCHANGED <<services, dependsOn>>

(* The first service in the queue comes next, and those that waited for it *)
(* alone are queued.                                                       *)
Take ==
    /\ q # {}
    /\ LET n == Min(q) IN
         /\ out' = Append(out, n)
         /\ indeg' = [m \in services |-> IF n \in dependsOn[m]
                                         THEN indeg[m] - 1 ELSE indeg[m]]
         /\ q' = (q \ {n}) \cup {m \in services : n \in dependsOn[m] /\ indeg'[m] = 0}
    /\ UNCHANGED <<services, dependsOn>>

Next == Take

Spec == Init /\ [][Next]_vars

(* The order is returned, or null.                                         *)
Returned == q = {}
IsNull == Len(out) # Cardinality(services)

(* checkComposePolicy: the findings about dependencies.                    *)
Findings ==
    {code \in {"dangling", "cycle"} :
        \/ code = "dangling" /\ \E s \in services : dependsOn[s] \ services # {}
        \/ code = "cycle" /\ IsNull}

-----------------------------------------------------------------------------
(* Properties.                                                             *)

(* Services that all wait for one of themselves.                           *)
Circular(S) == S # {} /\ \A s \in S : dependsOn[s] \cap S # {}

(* null is returned for the files whose services depend on each other in a *)
(* circle, and for no others, whatever else depends on the circle, hangs   *)
(* off it or is missing from the file.                                     *)
NullOnlyForCycles ==
    Returned => (IsNull <=> \E S \in SUBSET services : Circular(S))

(* A file without findings starts every service, once, after everything it *)
(* depends on, and with the least name of those that could start; an order *)
(* that is cut short by a circle is still right as far as it goes.         *)
StartsInOrder ==
    /\ \A i \in DOMAIN out :
         LET before == {out[j] : j \in 1..(i - 1)}
             startable == {s \in services \ before : dependsOn[s] \cap services \subseteq before}
         IN  out[i] \in startable /\ \A s \in startable : out[i] <= s
    /\ Returned /\ Findings = {} =>
         /\ ToSet(out) = services
         /\ \A i \in DOMAIN out : dependsOn[out[i]] \subseteq {out[j] : j \in 1..(i - 1)}
=============================================================================
