---------------------------- MODULE StartupProofs ----------------------------
(***************************************************************************)
(* Proofs about Startup, for every compose file: the queue holds exactly   *)
(* the services that can start (QueueRight), so what is put out comes in   *)
(* order, and what is left when it runs empty waits for itself.            *)
(***************************************************************************)
EXTENDS Startup, FiniteSetTheorems, TLAPS

(* A nonempty set of numbers has a least one: what shift() takes.          *)
LEMMA MinIsLeast ==
    ASSUME NEW S \in SUBSET Nat, S # {}
    PROVE  Min(S) \in S /\ \A y \in S : Min(S) <= y
<1>1. PICK x \in S : \A y \in S : ~(<<y, x>> \in OpToRel(<, Nat))
  BY NatLessThanWellFounded, WFMin
<1>2. OpToRel(<, Nat) = {ss \in Nat \X Nat : ss[1] < ss[2]}
  BY Zenon DEF OpToRel
<1>3. \A y \in S : x <= y
  <2>1. SUFFICES ASSUME NEW y \in S PROVE x <= y
    OBVIOUS
  <2>2. ~(<<y, x>> \in {ss \in Nat \X Nat : ss[1] < ss[2]})
    BY <1>1, <1>2
  <2> QED
    BY <2>2
<1> QED
  BY <1>3 DEF Min

-----------------------------------------------------------------------------
(* The inductive invariant.                                                *)

(* What s waits for that is not out.                                       *)
Missing(s) == (dependsOn[s] \cap services) \ ToSet(out)

OutBefore(i) == {out[j] : j \in 1..(i - 1)}
Startable(before) ==
    {s \in services \ before : dependsOn[s] \cap services \subseteq before}

FileTyped ==
    /\ services \subseteq Names
    /\ dependsOn \in [services -> SUBSET Names]

OutRight == out \in Seq(services) /\ IsInjective(out)

(* The counters count, and the queue holds who waits for nothing.          *)
CountersRight == indeg = [s \in services |-> Cardinality(Missing(s))]
QueueRight == q = Startable(ToSet(out))

InOrder ==
    \A i \in 1..Len(out) :
        /\ out[i] \in Startable(OutBefore(i))
        /\ \A s \in Startable(OutBefore(i)) : out[i] <= s

IInv == FileTyped /\ OutRight /\ CountersRight /\ QueueRight /\ InOrder

-----------------------------------------------------------------------------
(* It holds.                                                               *)

LEMMA MissingFinite ==
    ASSUME FileTyped, NEW s \in services
    PROVE  /\ IsFiniteSet(Missing(s)) /\ IsFiniteSet(services)
           /\ Cardinality(Missing(s)) \in Nat
           /\ Cardinality(Missing(s)) = 0 <=> Missing(s) = {}
<1>1. IsFiniteSet(services)
  BY NamesOrdered, FS_Subset DEF FileTyped
<1>2. Missing(s) \subseteq services
  BY DEF Missing
<1>3. IsFiniteSet(Missing(s))
  BY <1>1, <1>2, FS_Subset
<1>4. Cardinality(Missing(s)) \in Nat
  BY <1>3, FS_CardinalityType
<1>5. Cardinality(Missing(s)) = 0 <=> Missing(s) = {}
  BY <1>3, FS_EmptySet
<1> QED
  BY <1>1, <1>3, <1>4, <1>5

LEMMA InitIInv == Init => IInv
<1> SUFFICES ASSUME Init PROVE IInv
  OBVIOUS
<1>1. FileTyped /\ OutRight /\ InOrder
  BY DEF Init, FileTyped, OutRight, IsInjective, InOrder
<1>2. ToSet(out) = {}
  BY DEF Init, ToSet
<1>3. \A s \in services : Missing(s) = dependsOn[s] \cap services
  BY <1>2 DEF Missing
<1>4. CountersRight
  BY <1>3 DEF Init, CountersRight
<1>5. \A s \in services : indeg[s] = 0 <=> Missing(s) = {}
  BY <1>1, <1>4, MissingFinite DEF CountersRight
<1>6. QueueRight
  <2>1. q = {s \in services : indeg[s] = 0}
    BY DEF Init
  <2> QED
    BY <1>2, <1>3, <1>5, <2>1 DEF QueueRight, Startable
<1> QED
  BY <1>1, <1>4, <1>6 DEF IInv

(* Whoever is out has what it depends on out.                              *)
LEMMA OutIsClosed ==
    ASSUME IInv, NEW s \in ToSet(out)
    PROVE  s \in services /\ Missing(s) = {}
<1>1. DOMAIN out = 1..Len(out) /\ Len(out) \in Nat
  BY DEF IInv, OutRight
<1>2. PICK i \in 1..Len(out) : out[i] = s
  BY <1>1 DEF ToSet
<1>3. s \in Startable(OutBefore(i))
  BY <1>2 DEF IInv, InOrder
<1>4. OutBefore(i) \subseteq ToSet(out)
  <2>1. \A j \in 1..(i - 1) : j \in 1..Len(out)
    BY <1>1
  <2> QED
    BY <1>1, <2>1 DEF OutBefore, ToSet
<1> QED
  BY <1>3, <1>4 DEF Startable, Missing

LEMMA TakeKeeps ==
    ASSUME IInv, Take
    PROVE  IInv'
<1> DEFINE n == Min(q)
           k == Len(out)
           done == ToSet(out)
<1>1. FileTyped /\ OutRight /\ CountersRight /\ QueueRight /\ InOrder
  BY DEF IInv
<1>2. n \in q /\ \A s \in q : n <= s
  <2>1. q \subseteq Nat /\ q # {}
    BY <1>1, NamesOrdered DEF Take, QueueRight, Startable, FileTyped
  <2> QED
    BY <2>1, MinIsLeast
<1>3. /\ out' = Append(out, n)
      /\ indeg' = [m \in services |-> IF n \in dependsOn[m]
                                      THEN indeg[m] - 1 ELSE indeg[m]]
      /\ q' = (q \ {n})
                \cup {m \in services : n \in dependsOn[m] /\ indeg'[m] = 0}
      /\ UNCHANGED <<services, dependsOn>>
  BY DEF Take
<1> HIDE DEF n
<1>4. /\ n \in services \ done
      /\ dependsOn[n] \cap services \subseteq done
  BY <1>1, <1>2 DEF QueueRight, Startable
<1>5. /\ out' \in Seq(services) /\ k \in Nat
      /\ DOMAIN out = 1..k /\ DOMAIN out' = 1..(k + 1)
      /\ Len(out') = k + 1 /\ out'[k + 1] = n
      /\ \A i \in 1..k : out'[i] = out[i]
  BY <1>1, <1>3, <1>4 DEF OutRight
<1>6. \A i \in 1..(k + 1) : i \in 1..k \/ i = k + 1
  BY <1>5
<1> HIDE DEF k
<1>7. ToSet(out') = done \cup {n}
  <2>1. \A i \in 1..k : i \in 1..(k + 1)
    BY <1>5
  <2>2. k + 1 \in 1..(k + 1)
    BY <1>5
  <2>3. \A x \in ToSet(out') : x \in done \cup {n}
    BY <1>5, <1>6 DEF ToSet
  <2>4. \A x \in done : x \in ToSet(out')
    BY <1>5, <2>1 DEF ToSet
  <2>5. n \in ToSet(out')
    BY <1>5, <2>2 DEF ToSet
  <2> QED
    BY <2>3, <2>4, <2>5
<1>8. FileTyped'
  BY <1>1, <1>3 DEF FileTyped
<1>9. OutRight'
  <2>1. \A i \in 1..k : out[i] # n
    BY <1>4, <1>5 DEF ToSet
  <2>2. \A i, j \in 1..k : out[i] = out[j] => i = j
    BY <1>1, <1>5 DEF OutRight, IsInjective
  <2>3. \A i, j \in 1..(k + 1) : out'[i] = out'[j] => i = j
    BY <1>5, <1>6, <2>1, <2>2
  <2> QED
    BY <1>3, <1>5, <2>3 DEF OutRight, IsInjective
<1>10. \A s \in services : Missing(s)' = Missing(s) \ {n}
  BY <1>3, <1>7 DEF Missing
<1>11. ASSUME NEW s \in services
       PROVE  indeg'[s] = Cardinality(Missing(s)')
  <2>1. indeg[s] = Cardinality(Missing(s))
    BY <1>1 DEF CountersRight
  <2>2. n \in Missing(s) <=> n \in dependsOn[s]
    BY <1>4 DEF Missing
  <2>3. Cardinality(Missing(s) \ {n})
          = IF n \in Missing(s) THEN Cardinality(Missing(s)) - 1
                                ELSE Cardinality(Missing(s))
    BY <1>1, MissingFinite, FS_RemoveElement
  <2>4. indeg'[s] = IF n \in dependsOn[s] THEN indeg[s] - 1 ELSE indeg[s]
    BY <1>3
  <2> QED
    BY <1>10, <2>1, <2>2, <2>3, <2>4
<1>12. CountersRight'
  BY <1>3, <1>11 DEF CountersRight
<1>13. \A s \in services : indeg'[s] = 0 <=> Missing(s)' = {}
  <2>1. ASSUME NEW s \in services
        PROVE  IsFiniteSet(Missing(s)')
    BY <1>1, <1>10, MissingFinite, FS_RemoveElement
  <2>2. ASSUME NEW s \in services
        PROVE  Cardinality(Missing(s)') = 0 <=> Missing(s)' = {}
    BY <2>1, FS_EmptySet
  <2> QED
    BY <1>11, <2>2
<1>14. QueueRight'
  <2> DEFINE freed == {m \in services : n \in dependsOn[m] /\ indeg'[m] = 0}
             next == {s \in services \ (done \cup {n}) :
                        dependsOn[s] \cap services \subseteq done \cup {n}}
  <2>1. \A s \in services : Missing(s)' = {}
           <=> dependsOn[s] \cap services \subseteq done \cup {n}
    BY <1>3, <1>7 DEF Missing
  <2>2. Startable(ToSet(out))' = next
    BY <1>3, <1>7 DEF Startable
  <2>3. \A s \in done : n \notin dependsOn[s]
    BY <1>4, OutIsClosed DEF Missing
  <2>4. n \notin dependsOn[n]
    BY <1>4
  <2>5. ASSUME NEW s \in q, s # n PROVE s \in next
    <3>1. s \in services \ done /\ dependsOn[s] \cap services \subseteq done
      BY <1>1 DEF QueueRight, Startable
    <3> QED
      BY <2>5, <3>1
  <2>6. ASSUME NEW s \in freed PROVE s \in next
    BY <1>13, <2>1, <2>3, <2>4
  <2>7. ASSUME NEW s \in next PROVE s \in (q \ {n}) \cup freed
    <3>1. CASE n \in dependsOn[s]
      BY <1>13, <2>1, <3>1
    <3>2. CASE n \notin dependsOn[s]
      BY <1>1, <3>2 DEF QueueRight, Startable
    <3> QED
      BY <3>1, <3>2
  <2> HIDE DEF next, freed
  <2>8. q' = next
    BY <1>3, <2>5, <2>6, <2>7 DEF freed
  <2> QED
    BY <2>2, <2>8 DEF QueueRight
<1>15. InOrder'
  <2>1. ASSUME NEW i \in 1..k
        PROVE  /\ out'[i] \in Startable(OutBefore(i))'
               /\ \A s \in Startable(OutBefore(i))' : out'[i] <= s
    <3>1. \A j \in 1..(i - 1) : out'[j] = out[j]
      BY <1>5
    <3>2. OutBefore(i)' = OutBefore(i)
      BY <3>1 DEF OutBefore
    <3>3. Startable(OutBefore(i))' = Startable(OutBefore(i))
      BY <1>3, <3>2 DEF Startable
    <3>4. i \in 1..Len(out)
      BY DEF k
    <3> QED
      BY <1>1, <1>5, <3>3, <3>4 DEF InOrder
  <2>2. ASSUME NEW i \in Nat, i = k + 1
        PROVE  /\ out'[i] \in Startable(OutBefore(i))'
               /\ \A s \in Startable(OutBefore(i))' : out'[i] <= s
    <3>1. i - 1 = k
      BY <1>5, <2>2
    <3>2. OutBefore(i)' = done
      <4>1. OutBefore(i)' = {out'[j] : j \in 1..k}
        BY <3>1 DEF OutBefore
      <4>2. {out'[j] : j \in 1..k} = {out[j] : j \in 1..k}
        BY <1>5
      <4> QED
        BY <1>5, <4>1, <4>2 DEF ToSet
    <3>3. Startable(OutBefore(i))' = q
      BY <1>1, <1>3, <3>2 DEF QueueRight, Startable
    <3> QED
      BY <1>2, <1>5, <2>2, <3>3
  <2>3. ASSUME NEW i \in 1..Len(out')
        PROVE  /\ out'[i] \in Startable(OutBefore(i))'
               /\ \A s \in Startable(OutBefore(i))' : out'[i] <= s
    <3>1. i \in Nat /\ (i \in 1..k \/ i = k + 1)
      BY <1>5, <1>6
    <3> QED
      BY <2>1, <2>2, <3>1
  <2> QED
    BY <2>3 DEF InOrder
<1> QED
  BY <1>8, <1>9, <1>12, <1>14, <1>15 DEF IInv

(* The inductive invariant holds in every reachable state.                 *)
THEOREM StartupInvariance == Spec => []IInv
<1>1. IInv /\ [Next]_vars => IInv'
  <2> SUFFICES ASSUME IInv, [Next]_vars PROVE IInv'
    OBVIOUS
  <2>1. CASE Take
    BY <2>1, TakeKeeps
  <2>2. CASE UNCHANGED vars
    BY <2>2 DEF vars, IInv, FileTyped, OutRight, CountersRight, QueueRight,
                InOrder, Missing, Startable, OutBefore
  <2> QED
    BY <2>1, <2>2 DEF Next
<1> QED
  BY InitIInv, <1>1, PTL DEF Spec

-----------------------------------------------------------------------------
(* What it implies.                                                        *)

(* The order is complete exactly when it holds every service.              *)
LEMMA NullWhenIncomplete ==
    ASSUME IInv
    PROVE  IsNull <=> ToSet(out) # services
<1> DEFINE k == Len(out)
<1>1. /\ k \in Nat /\ out \in [1..k -> services] /\ DOMAIN out = 1..k
      /\ \A i, j \in 1..k : out[i] = out[j] => i = j
  BY DEF IInv, OutRight, IsInjective
<1>2. out \in Injection(1..k, services)
  BY <1>1 DEF Injection, IsInjective
<1>3. IsFiniteSet(services)
  BY NamesOrdered, FS_Subset DEF IInv, FileTyped
<1>4. Cardinality(1..k) = Cardinality(services)
        <=> out \in Surjection(1..k, services)
  BY <1>2, <1>3, FS_Injection
<1>5. Cardinality(1..k) = k
  <2>1. Cardinality(1..k) = IF 1 > k THEN 0 ELSE k - 1 + 1
    BY <1>1, FS_Interval
  <2> QED
    BY <1>1, <2>1
<1>6. ToSet(out) \subseteq services
  BY <1>1 DEF ToSet
<1>7. out \in Surjection(1..k, services) <=> ToSet(out) = services
  BY <1>1, <1>6 DEF Surjection, ToSet
<1> QED
  BY <1>4, <1>5, <1>7 DEF IsNull

(* Nobody in a circle is ever put out.                                     *)
LEMMA CirclesStayIn ==
    ASSUME IInv, NEW S \in SUBSET services, Circular(S)
    PROVE  ToSet(out) \cap S = {}
<1> DEFINE I == {i \in 1..Len(out) : out[i] \in S}
           i == Min(I)
<1>1. DOMAIN out = 1..Len(out) /\ Len(out) \in Nat
  BY DEF IInv, OutRight
<1>2. SUFFICES ASSUME I # {} PROVE FALSE
  BY <1>1 DEF ToSet
<1>3. i \in I /\ \A j \in I : i <= j
  <2>1. I \in SUBSET Nat
    BY <1>1
  <2> HIDE DEF I
  <2> QED
    BY <1>2, <2>1, MinIsLeast
<1> HIDE DEF i
<1>4. out[i] \in S /\ out[i] \in Startable(OutBefore(i))
  BY <1>3 DEF IInv, InOrder
<1>5. PICK t \in dependsOn[out[i]] \cap S : TRUE
  BY <1>4 DEF Circular
<1>6. t \in OutBefore(i)
  BY <1>4, <1>5 DEF Startable
<1>7. PICK j \in 1..(i - 1) : out[j] = t
  BY <1>6 DEF OutBefore
<1>8. j \in I /\ ~(i <= j)
  BY <1>1, <1>3, <1>5, <1>7
<1> QED
  BY <1>3, <1>8

(* startupOrder returns null for the files whose services depend on each   *)
(* other in a circle, and for no others (out.length === names.length).     *)
THEOREM NullExactlyForCycles == Spec => []NullOnlyForCycles
<1>1. ASSUME IInv PROVE NullOnlyForCycles
  <2>1. ASSUME Returned, IsNull
        PROVE  \E S \in SUBSET services : Circular(S)
    <3> DEFINE S == services \ ToSet(out)
    <3>1. ToSet(out) \subseteq services
      BY <1>1 DEF IInv, OutRight, ToSet
    <3>2. S # {}
      BY <1>1, <2>1, <3>1, NullWhenIncomplete
    <3>3. ASSUME NEW s \in S PROVE dependsOn[s] \cap S # {}
      <4>1. s \notin Startable(ToSet(out))
        BY <1>1, <2>1 DEF IInv, QueueRight, Returned
      <4> QED
        BY <4>1 DEF Startable
    <3> QED
      BY <3>2, <3>3 DEF Circular
  <2>2. ASSUME NEW S \in SUBSET services, Circular(S)
        PROVE  IsNull
    <3>1. ToSet(out) \cap S = {} /\ S # {}
      BY <1>1, <2>2, CirclesStayIn DEF Circular
    <3> QED
      BY <1>1, <3>1, NullWhenIncomplete
  <2> QED
    BY <2>1, <2>2 DEF NullOnlyForCycles
<1> QED
  BY <1>1, StartupInvariance, PTL

(* Whatever startupOrder puts out comes after everything it waits for, the *)
(* least name first; a file without findings has all of it put out.        *)
THEOREM StartsAreInOrder == Spec => []StartsInOrder
<1>1. ASSUME IInv PROVE StartsInOrder
  <2>1. DOMAIN out = 1..Len(out)
    BY <1>1 DEF IInv, OutRight
  <2>2. ASSUME NEW i \in DOMAIN out
        PROVE  LET before == {out[j] : j \in 1..(i - 1)}
                   startable == {s \in services \ before :
                                   dependsOn[s] \cap services \subseteq before}
               IN  out[i] \in startable /\ \A s \in startable : out[i] <= s
    BY <1>1, <2>1 DEF IInv, InOrder, Startable, OutBefore
  <2>3. ASSUME Returned, Findings = {}
        PROVE  /\ ToSet(out) = services
               /\ \A i \in DOMAIN out :
                    dependsOn[out[i]] \subseteq {out[j] : j \in 1..(i - 1)}
    <3>1. ~IsNull /\ \A s \in services : dependsOn[s] \subseteq services
      BY <2>3 DEF Findings
    <3>2. ToSet(out) = services
      BY <1>1, <3>1, NullWhenIncomplete
    <3> QED
      BY <2>2, <3>1, <3>2
  <2> QED
    BY <2>2, <2>3 DEF StartsInOrder
<1> QED
  BY <1>1, StartupInvariance, PTL
=============================================================================
