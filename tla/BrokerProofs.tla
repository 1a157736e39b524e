----------------------------- MODULE BrokerProofs ----------------------------
(***************************************************************************)
(* Proofs about Broker, for every set of subscriptions, queue groups and   *)
(* calls and every option.                                                 *)
(*                                                                         *)
(* First the operators: Only keeps what it should, matchSubject finds what *)
(* the wildcards promise, and pick returns one subscription for each       *)
(* recipient entitled to a subject.  Then the breakers (IInv): no          *)
(* interleaving of deliveries leaves one half-open without a trial in      *)
(* flight; what pick returns plays no part there.  Last what deliveries    *)
(* count (DInv), which rests on both.                                      *)
(***************************************************************************)
EXTENDS Broker, SequenceTheorems, FiniteSetTheorems, WellFoundedInduction,
        TLAPS

-----------------------------------------------------------------------------
(* Induction on the natural numbers, from their well-foundedness.          *)
LEMMA NatInd ==
    ASSUME NEW S, 0 \in S, \A n \in Nat : n \in S => n + 1 \in S
    PROVE  \A n \in Nat : n \in S
<1> DEFINE out == {n \in Nat : n \notin S}
<1>1. SUFFICES ASSUME out # {} PROVE FALSE
  OBVIOUS
<1>2. PICK x \in out : \A y \in out : ~(<<y, x>> \in OpToRel(<, Nat))
  BY <1>1, NatLessThanWellFounded, WFMin
<1>3. OpToRel(<, Nat) = {ss \in Nat \X Nat : ss[1] < ss[2]}
  BY Zenon DEF OpToRel
<1>4. x # 0 /\ x - 1 \in Nat
  OBVIOUS
<1>5. x - 1 \notin out
  <2>1. <<x - 1, x>> \in {ss \in Nat \X Nat : ss[1] < ss[2]}
    BY <1>4
  <2> QED
    BY <1>2, <1>3, <2>1
<1>6. (x - 1) + 1 \in S
  BY <1>4, <1>5
<1> QED
  BY <1>6

-----------------------------------------------------------------------------
(* Only.                                                                   *)

OnlyUpTo(f, s, S, n) ==
    f = [i \in 0..n |->
           IF i = 0 THEN <<>>
           ELSE IF s[i] \in S THEN Append(f[i - 1], s[i]) ELSE f[i - 1]]

LEMMA OnlyUpToAt ==
    ASSUME NEW f, NEW s, NEW S, NEW n \in Nat, OnlyUpTo(f, s, S, n),
           NEW i \in 0..n
    PROVE  f[i] = IF i = 0 THEN <<>>
                  ELSE IF s[i] \in S THEN Append(f[i - 1], s[i]) ELSE f[i - 1]
<1> DEFINE value(j) == IF j = 0 THEN <<>>
                       ELSE IF s[j] \in S THEN Append(f[j - 1], s[j])
                                          ELSE f[j - 1]
<1>1. f = [j \in 0..n |-> value(j)]
  BY DEF OnlyUpTo
<1> HIDE DEF value
<1>2. f[i] = value(i)
  BY <1>1
<1> QED
  BY <1>2 DEF value

LEMMA OnlyExists ==
    ASSUME NEW s, NEW S
    PROVE  \A n \in Nat : \E f : OnlyUpTo(f, s, S, n)
<1> DEFINE good == {n \in Nat : \E f : OnlyUpTo(f, s, S, n)}
<1>1. 0 \in good
  <2>1. OnlyUpTo([i \in 0..0 |-> <<>>], s, S, 0)
    BY DEF OnlyUpTo
  <2> QED
    BY <2>1
<1>2. ASSUME NEW n \in Nat, n \in good PROVE n + 1 \in good
  <2>1. PICK f : OnlyUpTo(f, s, S, n)
    BY <1>2
  <2> DEFINE last == IF s[n + 1] \in S THEN Append(f[n], s[n + 1]) ELSE f[n]
             g == [i \in 0..(n + 1) |-> IF i = n + 1 THEN last ELSE f[i]]
  <2>2. ASSUME NEW i \in 0..(n + 1)
        PROVE  g[i] = IF i = 0 THEN <<>>
                      ELSE IF s[i] \in S THEN Append(g[i - 1], s[i])
                                         ELSE g[i - 1]
    <3>1. CASE i = n + 1
      BY <3>1
    <3>2. CASE i = 0
      BY <2>1, <3>2 DEF OnlyUpTo
    <3>3. CASE i \in 1..n
      <4>1. g[i] = f[i] /\ g[i - 1] = f[i - 1]
        BY <3>3
      <4>2. f[i] = IF s[i] \in S THEN Append(f[i - 1], s[i]) ELSE f[i - 1]
        BY <2>1, <3>3, OnlyUpToAt
      <4> QED
        BY <3>3, <4>1, <4>2
    <3> QED
      BY <3>1, <3>2, <3>3
  <2>3. g = [i \in 0..(n + 1) |-> g[i]]
    OBVIOUS
  <2> HIDE DEF g
  <2>4. OnlyUpTo(g, s, S, n + 1)
    BY <2>2, <2>3 DEF OnlyUpTo
  <2> QED
    BY <2>4
<1> HIDE DEF good
<1>3. \A n \in Nat : n \in good
  BY <1>1, <1>2, NatInd
<1> QED
  BY <1>3 DEF good

LEMMA OnlyUnfolds ==
    ASSUME NEW T, NEW s \in Seq(T), NEW S
    PROVE  \E f : OnlyUpTo(f, s, S, Len(s)) /\ Only(s, S) = f[Len(s)]
<1> DEFINE f == CHOOSE f : OnlyUpTo(f, s, S, Len(s))
<1>1. Len(s) \in Nat
  OBVIOUS
<1>2. OnlyUpTo(f, s, S, Len(s))
  BY <1>1, OnlyExists
<1>3. Only(s, S) = f[Len(s)]
  BY DEF Only, OnlyUpTo
<1> QED
  BY <1>2, <1>3

(* Only keeps exactly the elements of S, each as often as it was there.    *)
LEMMA OnlyKeeps ==
    ASSUME NEW T, NEW s \in Seq(T), NEW S
    PROVE  /\ Only(s, S) \in Seq(T)
           /\ ToSet(Only(s, S)) = ToSet(s) \cap S
           /\ IsInjective(s) => IsInjective(Only(s, S))
<1>1. PICK f : OnlyUpTo(f, s, S, Len(s)) /\ Only(s, S) = f[Len(s)]
  BY OnlyUnfolds
<1> DEFINE upto(i) == {s[j] : j \in 1..i}
           Right(i) == /\ f[i] \in Seq(T)
                       /\ {f[i][j] : j \in 1..Len(f[i])} = upto(i) \cap S
                       /\ IsInjective(s) =>
                            \A j, k \in 1..Len(f[i]) :
                              f[i][j] = f[i][k] => j = k
           good == {i \in Nat : i <= Len(s) => Right(i)}
<1>2. Len(s) \in Nat /\ DOMAIN s = 1..Len(s)
  OBVIOUS
<1>3. 0 \in good
  <2>1. f[0] = <<>>
    BY <1>1, <1>2, OnlyUpToAt
  <2>2. upto(0) = {}
    OBVIOUS
  <2>3. {f[0][j] : j \in 1..Len(f[0])} = {} /\ 1..Len(f[0]) = {}
    BY <2>1
  <2>4. f[0] \in Seq(T)
    BY <2>1
  <2>5. Right(0)
    BY <2>2, <2>3, <2>4
  <2> HIDE DEF Right
  <2> QED
    BY <2>5
<1>4. ASSUME NEW i \in Nat, i \in good PROVE i + 1 \in good
  <2>1. SUFFICES ASSUME i + 1 <= Len(s) PROVE Right(i + 1)
    <3> HIDE DEF Right
    <3> QED
      OBVIOUS
  <2>2. f[i + 1] = IF s[i + 1] \in S THEN Append(f[i], s[i + 1]) ELSE f[i]
    BY <1>1, <1>2, <2>1, OnlyUpToAt
  <2>3. Right(i)
    <3> HIDE DEF Right
    <3> QED
      BY <1>4, <1>2, <2>1
  <2>4. upto(i + 1) = upto(i) \cup {s[i + 1]} /\ s[i + 1] \in T
    BY <1>2, <2>1
  <2>5. CASE s[i + 1] \notin S
    BY <2>2, <2>3, <2>4, <2>5
  <2>6. CASE s[i + 1] \in S
    <3> DEFINE a == f[i]
               b == f[i + 1]
    <3>1. /\ b \in Seq(T) /\ Len(b) = Len(a) + 1 /\ Len(a) \in Nat
          /\ \A j \in 1..Len(a) : b[j] = a[j]
          /\ b[Len(a) + 1] = s[i + 1]
      BY <2>2, <2>3, <2>4, <2>6
    <3>2. {a[j] : j \in 1..Len(a)} = upto(i) \cap S
      BY <2>3
    <3>3. IsInjective(s) =>
             \A j, k \in 1..Len(a) : a[j] = a[k] => j = k
      BY <2>3
    <3>4. IsInjective(s) => s[i + 1] \notin upto(i)
      BY <1>2, <2>1 DEF IsInjective
    <3> HIDE DEF a, b
    <3>5. {b[j] : j \in 1..Len(b)} = {a[j] : j \in 1..Len(a)} \cup {s[i + 1]}
      BY <3>1
    <3>6. {b[j] : j \in 1..Len(b)} = upto(i + 1) \cap S
      BY <2>4, <2>6, <3>2, <3>5
    <3>7. ASSUME IsInjective(s), NEW j \in 1..Len(b), NEW k \in 1..Len(b),
                 b[j] = b[k]
          PROVE  j = k
      <4>1. \A x \in 1..Len(a) : a[x] # s[i + 1]
        BY <3>2, <3>4, <3>7
      <4> QED
        BY <3>1, <3>3, <3>7, <4>1
    <3> QED
      BY <3>1, <3>6, <3>7 DEF b
  <2> QED
    BY <2>5, <2>6
<1> HIDE DEF good
<1>5. \A i \in Nat : i \in good
  BY <1>3, <1>4, NatInd
<1>6. Right(Len(s))
  <2> HIDE DEF Right
  <2> QED
    BY <1>2, <1>5 DEF good
<1>7. DOMAIN Only(s, S) = 1..Len(Only(s, S))
  BY <1>1, <1>6
<1>8. upto(Len(s)) = ToSet(s)
  BY <1>2 DEF ToSet
<1>9. ToSet(Only(s, S)) = ToSet(s) \cap S
  <2>1. ToSet(Only(s, S)) = {f[Len(s)][j] : j \in 1..Len(f[Len(s)])}
    BY <1>1, <1>7 DEF ToSet
  <2> QED
    BY <1>6, <1>8, <2>1
<1>10. IsInjective(s) => IsInjective(Only(s, S))
  BY <1>1, <1>6, <1>7 DEF IsInjective
<1> QED
  BY <1>1, <1>6, <1>9, <1>10

-----------------------------------------------------------------------------
(* Subjects.                                                               *)

(* The strings, and one the provers do not know to be a string.            *)
Token == STRING \cup {"dlq"}

LEMMA SubjectsAreTokens ==
    /\ \A c \in Calls : Subject[c] \in Seq(Token)
    /\ \A s \in Subs : Pattern[s] \in Seq(Token)
<1>1. \A s \in Seq(STRING) : s \in Seq(Token)
  BY DEF Token
<1> QED
  BY <1>1, SubjectsTyped

LEMMA AllPublished ==
    \A c \in Calls :
        Subject[c] \in Published /\ DeadLetterSubject(Subject[c]) \in Published
<1>1. ASSUME NEW c \in Calls
      PROVE  /\ Subject[c] \in Published
             /\ DeadLetterSubject(Subject[c]) \in Published
  <2> DEFINE both == {Subject[c], DeadLetterSubject(Subject[c])}
  <2>1. Subject[c] \in both /\ DeadLetterSubject(Subject[c]) \in both
    OBVIOUS
  <2>2. both \subseteq Published
    BY DEF Published
  <2> QED
    BY <2>1, <2>2
<1> QED
  BY <1>1

(* What is left of the pattern from i on matches, given what the rest does. *)
MatchesAt(s, p, i, next) ==
    IF i > Len(p) THEN i = Len(s) + 1
    ELSE /\ i <= Len(s)
         /\ \/ p[i] = ">"
            \/ p[i] \in {"*", s[i]} /\ next

MatchesUpFrom(f, s, p, n) ==
    f = [i \in (Len(p) + 1 - n)..(Len(p) + 1) |->
           MatchesAt(s, p, i, f[i + 1])]

LEMMA MatchesUpFromAt ==
    ASSUME NEW f, NEW s, NEW p, NEW n, MatchesUpFrom(f, s, p, n),
           NEW i \in (Len(p) + 1 - n)..(Len(p) + 1)
    PROVE  f[i] = MatchesAt(s, p, i, f[i + 1])
BY DEF MatchesUpFrom

LEMMA PastTheEnd ==
    ASSUME NEW s, NEW p, NEW k \in Nat, k = Len(p), NEW x, NEW y
    PROVE  MatchesAt(s, p, k + 1, x) = MatchesAt(s, p, k + 1, y)
<1>1. k + 1 > Len(p)
  OBVIOUS
<1> QED
  BY <1>1, Zenon DEF MatchesAt

LEMMA MatchesExtend ==
    ASSUME NEW s, NEW p, NEW k \in Nat, NEW n \in Nat, k = Len(p), n + 1 <= k,
           NEW f, MatchesUpFrom(f, s, p, n)
    PROVE  \E g : MatchesUpFrom(g, s, p, n + 1)
<1> DEFINE b == k - n
           g == [i \in b..(k + 1) |->
                   IF i = b THEN MatchesAt(s, p, b, f[b + 1]) ELSE f[i]]
<1>1. b \in Nat /\ b <= k /\ k + 1 - n = b + 1 /\ k + 1 - (n + 1) = b
  OBVIOUS
<1>2. g[b] = MatchesAt(s, p, b, f[b + 1])
  BY <1>1
<1>3. \A i \in (b + 1)..(k + 1) : g[i] = f[i]
  BY <1>1
<1>4. g = [i \in b..(k + 1) |-> g[i]]
  OBVIOUS
<1> HIDE DEF g
<1>5. \A i \in (b + 1)..(k + 1) : f[i] = MatchesAt(s, p, i, f[i + 1])
  BY <1>1, MatchesUpFromAt
<1> HIDE DEF b
<1>6. MatchesAt(s, p, k + 1, g[k + 2]) = MatchesAt(s, p, k + 1, f[k + 2])
  BY PastTheEnd
<1>7. ASSUME NEW i \in b..(k + 1)
      PROVE  g[i] = MatchesAt(s, p, i, g[i + 1])
  <2>1. CASE i = b
    <3>1. g[b + 1] = f[b + 1]
      BY <1>1, <1>3
    <3> QED
      BY <1>2, <2>1, <3>1
  <2>2. CASE i \in (b + 1)..k
    <3>1. g[i] = f[i] /\ g[i + 1] = f[i + 1]
      BY <1>1, <1>3, <2>2
    <3>2. f[i] = MatchesAt(s, p, i, f[i + 1])
      BY <1>1, <1>5, <2>2
    <3> QED
      BY <3>1, <3>2
  <2>3. CASE i = k + 1
    <3>1. k + 1 \in (b + 1)..(k + 1) /\ (k + 1) + 1 = k + 2
      BY <1>1
    <3>2. g[k + 1] = f[k + 1]
      BY <1>3, <3>1
    <3>3. f[k + 1] = MatchesAt(s, p, k + 1, f[k + 2])
      BY <1>5, <3>1
    <3> QED
      BY <1>6, <2>3, <3>1, <3>2, <3>3
  <2> QED
    BY <1>1, <2>1, <2>2, <2>3
<1>8. g = [i \in b..(k + 1) |-> MatchesAt(s, p, i, g[i + 1])]
  BY <1>4, <1>7
<1>9. MatchesUpFrom(g, s, p, n + 1)
  BY <1>1, <1>8 DEF MatchesUpFrom
<1> QED
  BY <1>9

LEMMA MatchesExists ==
    ASSUME NEW s, NEW p \in Seq(Token)
    PROVE  \E f : MatchesUpFrom(f, s, p, Len(p))
<1> DEFINE good == {n \in Nat : n <= Len(p) => \E f : MatchesUpFrom(f, s, p, n)}
<1>1. Len(p) \in Nat
  OBVIOUS
<1>2. 0 \in good
  <2> DEFINE k == Len(p)
             g == [i \in (k + 1)..(k + 1) |-> MatchesAt(s, p, i, TRUE)]
  <2>1. g[k + 1] = MatchesAt(s, p, k + 1, TRUE)
    BY <1>1
  <2>2. \A x : MatchesAt(s, p, k + 1, TRUE) = MatchesAt(s, p, k + 1, x)
    <3> HIDE DEF g
    <3> QED
      BY <1>1, PastTheEnd
  <2>3. g = [i \in (k + 1)..(k + 1) |-> g[i]]
    OBVIOUS
  <2> HIDE DEF g
  <2>4. \A i \in (k + 1)..(k + 1) : g[i] = MatchesAt(s, p, i, g[i + 1])
    <3>1. (k + 1)..(k + 1) = {k + 1}
      BY <1>1
    <3> QED
      BY <2>1, <2>2, <3>1
  <2>5. (Len(p) + 1 - 0)..(Len(p) + 1) = (k + 1)..(k + 1)
    BY <1>1
  <2> HIDE DEF k
  <2>6. MatchesUpFrom(g, s, p, 0)
    BY <2>3, <2>4, <2>5 DEF MatchesUpFrom
  <2> QED
    BY <2>6
<1>3. ASSUME NEW n \in Nat, n \in good PROVE n + 1 \in good
  BY <1>1, <1>3, MatchesExtend
<1> HIDE DEF good
<1>4. Len(p) \in good
  BY <1>1, <1>2, <1>3, NatInd
<1> QED
  BY <1>4 DEF good

LEMMA MatchUnfolds ==
    ASSUME NEW s, NEW p \in Seq(Token),
           ValidSubject(s, FALSE), ValidSubject(p, TRUE)
    PROVE  \E f : /\ MatchesUpFrom(f, s, p, Len(p))
                  /\ MatchSubject(s, p) <=> f[1]
<1> DEFINE Solves(f) ==
             f = [i \in 1..(Len(p) + 1) |->
                    IF i > Len(p) THEN i = Len(s) + 1
                    ELSE /\ i <= Len(s)
                         /\ \/ p[i] = ">"
                            \/ p[i] \in {"*", s[i]} /\ f[i + 1]]
           f == CHOOSE f : Solves(f)
<1>1. Len(p) + 1 - Len(p) = 1
  OBVIOUS
<1>2. \A g : Solves(g) <=> MatchesUpFrom(g, s, p, Len(p))
  BY <1>1 DEF MatchesUpFrom, MatchesAt
<1>3. Solves(f)
  <2> HIDE DEF Solves
  <2> QED
    BY <1>2, MatchesExists
<1>4. MatchSubject(s, p) <=> f[1]
  BY Zenon DEF MatchSubject
<1> HIDE DEF f, Solves
<1> QED
  BY <1>2, <1>3, <1>4

(* matchSubject finds exactly what the wildcards promise.                  *)
THEOREM MatchIsCover ==
    ASSUME NEW s \in Seq(Token), NEW p \in Seq(Token),
           ValidSubject(s, FALSE), ValidSubject(p, TRUE)
    PROVE  MatchSubject(s, p) <=> Covers(p, s)
<1> DEFINE k == Len(p)
           open == p[k] = ">"
           last == IF open THEN k ELSE k + 1
           long == IF open THEN Len(s) >= k ELSE Len(s) = k
           Fits(j) == p[j] = "*" \/ p[j] = s[j]
           FitsFrom(i) == long /\ \A j \in i..(last - 1) : Fits(j)
<1>1. /\ k \in Nat \ {0} /\ Len(s) \in Nat /\ last \in {k, k + 1}
      /\ \A i \in 1..k : p[i] = ">" => i = k
  <2>1. p # <<>> /\ \A i \in 1..k : p[i] = ">" => i = k
    BY Zenon DEF ValidSubject
  <2> QED
    BY <2>1
<1>2. PICK f : /\ MatchesUpFrom(f, s, p, Len(p))
               /\ MatchSubject(s, p) <=> f[1]
  BY MatchUnfolds
<1>3. \A i \in 1..(k + 1) : f[i] = MatchesAt(s, p, i, f[i + 1])
  BY <1>1, <1>2, MatchesUpFromAt
<1>4. f[last] <=> long
  <2>1. CASE open
    <3>1. f[k] = MatchesAt(s, p, k, f[k + 1]) /\ ~(k > k)
      BY <1>1, <1>3
    <3> QED
      BY <1>1, <2>1, <3>1 DEF MatchesAt
  <2>2. CASE ~open
    <3>1. f[k + 1] = MatchesAt(s, p, k + 1, f[k + 2]) /\ k + 1 > k
      BY <1>1, <1>3
    <3>2. MatchesAt(s, p, k + 1, f[k + 2]) <=> k + 1 = Len(s) + 1
      BY <3>1, Zenon DEF MatchesAt
    <3>3. k + 1 = Len(s) + 1 <=> Len(s) = k
      BY <1>1
    <3>4. f[k + 1] <=> Len(s) = k
      BY <3>1, <3>2, <3>3, Zenon
    <3> QED
      BY <2>2, <3>4
  <2> QED
    BY <2>1, <2>2
<1>5. \A i \in 1..(last - 1) : f[i] <=> i <= Len(s) /\ Fits(i) /\ f[i + 1]
  <2> SUFFICES ASSUME NEW i \in 1..(last - 1)
               PROVE  f[i] <=> i <= Len(s) /\ Fits(i) /\ f[i + 1]
    OBVIOUS
  <2>1. i \in 1..k /\ p[i] # ">"
    BY <1>1
  <2>2. f[i] = MatchesAt(s, p, i, f[i + 1]) /\ ~(i > Len(p))
    BY <1>1, <1>3, <2>1
  <2> QED
    BY <2>1, <2>2, Zenon DEF MatchesAt
<1>6. long => \A i \in 1..(last - 1) : i <= Len(s)
  BY <1>1
<1> DEFINE good == {n \in Nat :
                      n < last => (f[last - n] <=> FitsFrom(last - n))}
<1> HIDE DEF Fits, long, last
<1>7. 0 \in good
  <2>1. last - 0 = last /\ last..(last - 1) = {}
    BY <1>1
  <2> QED
    BY <1>4, <2>1
<1>8. ASSUME NEW n \in Nat, n \in good PROVE n + 1 \in good
  <2>1. SUFFICES ASSUME n + 1 < last
                 PROVE  f[last - (n + 1)] <=> FitsFrom(last - (n + 1))
    <3> HIDE DEF FitsFrom
    <3> QED
      OBVIOUS
  <2> DEFINE i == last - (n + 1)
  <2>2. i \in 1..(last - 1) /\ i + 1 = last - n /\ n < last
    BY <1>1, <2>1
  <2>3. f[i + 1] <=> FitsFrom(i + 1)
    <3> HIDE DEF FitsFrom
    <3> QED
      BY <1>8, <2>2
  <2>4. f[i] <=> i <= Len(s) /\ Fits(i) /\ f[i + 1]
    BY <1>5, <2>2
  <2>5. i..(last - 1) = {i} \cup ((i + 1)..(last - 1))
    BY <1>1, <2>2
  <2>6. FitsFrom(i) <=> Fits(i) /\ FitsFrom(i + 1)
    BY <2>5, Zenon
  <2>7. FitsFrom(i + 1) => i <= Len(s)
    BY <1>6, <2>2
  <2> HIDE DEF i, FitsFrom
  <2>8. f[i] <=> FitsFrom(i)
    BY <2>3, <2>4, <2>6, <2>7
  <2> QED
    BY <2>8 DEF i
<1>9. f[1] <=> FitsFrom(1)
  <2>1. last - 1 \in Nat /\ last - 1 < last /\ last - (last - 1) = 1
    BY <1>1
  <2>2. last - 1 \in good
    <3> HIDE DEF good
    <3> QED
      BY <1>7, <1>8, <2>1, NatInd
  <2> HIDE DEF FitsFrom
  <2> QED
    BY <2>1, <2>2
<1>10. last - 1 = IF open THEN Len(p) - 1 ELSE Len(p)
  BY <1>1 DEF last
<1>11. FitsFrom(1) <=> Covers(p, s)
  BY <1>10 DEF Covers, Fits, long
<1> QED
  BY <1>2, <1>9, <1>11

-----------------------------------------------------------------------------
(* pick.                                                                   *)

(* The live subscriptions: each is there once, and its pattern is one.     *)
SubsRight ==
    /\ subs \in Seq(Subs)
    /\ IsInjective(subs)
    /\ \A s \in ToSet(subs) : ValidSubject(Pattern[s], TRUE)

LEMMA MembersRight ==
    ASSUME SubsRight, NEW q
    PROVE  /\ Members(q) \in Seq(Subs)
           /\ ToSet(Members(q)) = {s \in ToSet(subs) : Queue[s] = q}
           /\ \A i \in 1..Len(Members(q)) :
                  Members(q)[i] \in ToSet(subs) /\ Queue[Members(q)[i]] = q
           /\ \A s \in ToSet(subs) : Queue[s] = q => Members(q) # <<>>
<1> DEFINE S == {s \in Subs : Queue[s] = q}
           m == Members(q)
<1>1. m \in Seq(Subs) /\ ToSet(m) = ToSet(subs) \cap S
  BY OnlyKeeps DEF SubsRight, Members
<1>2. ToSet(subs) \subseteq Subs
  BY DEF SubsRight, ToSet
<1>3. DOMAIN m = 1..Len(m)
  BY <1>1
<1> HIDE DEF m
<1>4. ToSet(m) = {s \in ToSet(subs) : Queue[s] = q}
  BY <1>1, <1>2
<1>5. \A i \in 1..Len(m) : m[i] \in ToSet(m)
  BY <1>3 DEF ToSet
<1>6. m = <<>> => ToSet(m) = {}
  BY DEF ToSet
<1> QED
  BY <1>1, <1>4, <1>5, <1>6 DEF m

LEMMA ChosenIsMember ==
    ASSUME SubsRight, NEW q \in Queues, NEW robins \in [Queues -> Nat],
           Members(q) # <<>>
    PROVE  Chosen(q, robins) \in ToSet(subs) /\ Queue[Chosen(q, robins)] = q
<1> DEFINE m == Members(q)
           i == 1 + (robins[q] % Len(m))
<1>1. Len(m) \in Nat \ {0}
  BY MembersRight
<1>2. robins[q] \in Nat
  OBVIOUS
<1> HIDE DEF m
<1>3. i \in 1..Len(m)
  BY <1>1, <1>2
<1> QED
  BY <1>3, MembersRight DEF Chosen, m

(* What a group picks from is entitled when any of its members is.         *)
LEMMA MatchingRight ==
    ASSUME SubsRight, NEW subject \in Seq(Token), subject \in Published,
           ValidSubject(subject, FALSE)
    PROVE  /\ \A s \in ToSet(subs) :
                 s \in Matching[subject] <=> Covers(Pattern[s], subject)
           /\ \A s, t \in ToSet(subs) :
                 Queue[s] = Queue[t] /\ Queue[s] # None =>
                   (s \in Matching[subject] <=> t \in Matching[subject])
<1>1. ToSet(subs) \subseteq Subs
  BY DEF SubsRight, ToSet
<1>2. ASSUME NEW s \in ToSet(subs)
      PROVE  s \in Matching[subject] <=> Covers(Pattern[s], subject)
  <2>1. Pattern[s] \in Seq(Token) /\ ValidSubject(Pattern[s], TRUE)
    BY <1>1, SubjectsAreTokens DEF SubsRight
  <2> QED
    BY <1>1, <2>1, MatchIsCover DEF Matching
<1>3. ASSUME NEW s \in ToSet(subs), NEW t \in ToSet(subs),
             Queue[s] = Queue[t], Queue[s] # None
      PROVE  s \in Matching[subject] <=> t \in Matching[subject]
  <2>1. Pattern[s] = Pattern[t]
    BY <1>1, <1>3, OnePatternPerQueue
  <2> QED
    BY <1>2, <2>1
<1> QED
  BY <1>2, <1>3

(* Of every group the first member leads, and no other.                    *)
LEMMA OneLeader ==
    ASSUME SubsRight
    PROVE  /\ \A s \in ToSet(subs) : Queue[s] # None =>
                 /\ Queue[s] \in Queues /\ Members(Queue[s]) # <<>>
                 /\ \E t \in Leading : Queue[t] = Queue[s]
           /\ \A s, t \in Leading : Queue[s] = Queue[t] => s = t
           /\ Leading \subseteq ToSet(subs)
           /\ \A s \in Leading : Queue[s] # None
<1>1. ToSet(subs) \subseteq Subs
  BY DEF SubsRight, ToSet
<1>2. Leading \subseteq ToSet(subs) /\ \A s \in Leading : Queue[s] # None
  BY <1>1 DEF Leading, FanOut
<1>3. ASSUME NEW s \in ToSet(subs), Queue[s] # None
      PROVE  /\ Queue[s] \in Queues /\ Members(Queue[s]) # <<>>
             /\ \E t \in Leading : Queue[t] = Queue[s]
  <2>1. Queue[s] \in Queues
    BY <1>1, <1>3, QueuesTyped
  <2> DEFINE m == Members(Queue[s])
  <2>2. m \in Seq(Subs) /\ m # <<>>
    BY MembersRight
  <2>3. 1 \in 1..Len(m)
    BY <2>2
  <2>4. m[1] \in ToSet(subs) /\ Queue[m[1]] = Queue[s]
    BY <2>3, MembersRight
  <2>5. m[1] \in Leading
    BY <1>3, <2>4 DEF Leading, FanOut
  <2> QED
    BY <2>1, <2>2, <2>4, <2>5
<1>4. \A s, t \in Leading : Queue[s] = Queue[t] => s = t
  BY DEF Leading
<1> QED
  BY <1>2, <1>3, <1>4

LEMMA Concat ==
    ASSUME NEW T, NEW s \in Seq(T), NEW t \in Seq(T)
    PROVE  /\ s \o t \in Seq(T) /\ Len(s \o t) = Len(s) + Len(t)
           /\ \A i \in 1..Len(s) : (s \o t)[i] = s[i]
           /\ \A i \in 1..Len(t) : (s \o t)[Len(s) + i] = t[i]
OBVIOUS

(* pick() returns, for a subject, one subscription for every fan-out       *)
(* subscription and every group that it is promised to, and no other.      *)
LEMMA PickRight ==
    ASSUME SubsRight, NEW subject \in Seq(Token), subject \in Published,
           ValidSubject(subject, FALSE), NEW robins \in [Queues -> Nat]
    PROVE  /\ Pick(subject, robins) \in Seq(Subs)
           /\ Recipients(ToSet(Pick(subject, robins))) = Entitled(subject)
           /\ Len(Pick(subject, robins)) = Cardinality(Entitled(subject))
<1> DEFINE M == Matching[subject]
           fans == Only(subs, M \cap FanOut)
           leaders == Only(subs, M \cap Leading)
           leads == [i \in 1..Len(leaders) |->
                       Chosen(Queue[leaders[i]], robins)]
           picked == fans \o leads
           a == Len(fans)
           b == Len(leaders)
           rec == [i \in 1..(a + b) |-> Recipient(picked[i])]
<1>1. ToSet(subs) \subseteq Subs /\ IsInjective(subs) /\ subs \in Seq(Subs)
  BY DEF SubsRight, ToSet
<1>2. /\ fans \in Seq(Subs) /\ IsInjective(fans)
      /\ ToSet(fans) = ToSet(subs) \cap (M \cap FanOut)
  BY <1>1, OnlyKeeps
<1>3. /\ leaders \in Seq(Subs) /\ IsInjective(leaders)
      /\ ToSet(leaders) = ToSet(subs) \cap (M \cap Leading)
  BY <1>1, OnlyKeeps
<1>4. /\ a \in Nat /\ b \in Nat
      /\ DOMAIN fans = 1..a /\ DOMAIN leaders = 1..b
  BY <1>2, <1>3
<1> HIDE DEF M, fans, leaders
<1>5. \A i \in 1..a : fans[i] \in ToSet(subs) \cap (M \cap FanOut)
  BY <1>2, <1>4 DEF ToSet
<1>6. \A i \in 1..b : leaders[i] \in ToSet(subs) \cap (M \cap Leading)
  BY <1>3, <1>4 DEF ToSet
<1>7. \A i \in 1..b : /\ leads[i] \in ToSet(subs)
                      /\ Queue[leads[i]] = Queue[leaders[i]]
                      /\ Queue[leaders[i]] \in Queues
  <2> SUFFICES ASSUME NEW i \in 1..b
               PROVE  /\ leads[i] \in ToSet(subs)
                      /\ Queue[leads[i]] = Queue[leaders[i]]
                      /\ Queue[leaders[i]] \in Queues
    OBVIOUS
  <2> DEFINE q == Queue[leaders[i]]
  <2>1. q \in Queues /\ Members(q) # <<>>
    BY <1>6, OneLeader
  <2>2. leads[i] = Chosen(q, robins)
    OBVIOUS
  <2> HIDE DEF q, leads
  <2>3. leads[i] \in ToSet(subs) /\ Queue[leads[i]] = q
    BY <2>1, <2>2, ChosenIsMember
  <2> QED
    BY <2>1, <2>3 DEF q
<1>8. leads \in Seq(Subs) /\ Len(leads) = b
  BY <1>1, <1>4, <1>7
<1> HIDE DEF leads, b
<1>9. /\ picked \in Seq(Subs) /\ Len(picked) = a + b
      /\ \A i \in 1..a : picked[i] = fans[i]
      /\ \A i \in 1..b : picked[a + i] = leads[i]
  <2>1. fans \in Seq(Subs) /\ leads \in Seq(Subs)
    BY <1>2, <1>8
  <2>2. picked \in Seq(Subs) /\ Len(picked) = a + b
    BY <1>8, <2>1, Concat
  <2>3. \A i \in 1..Len(fans) : picked[i] = fans[i]
    BY <2>1, Concat
  <2>4. \A i \in 1..Len(leads) : picked[Len(fans) + i] = leads[i]
    BY <2>1, Concat
  <2> QED
    BY <1>8, <2>2, <2>3, <2>4
<1>9a. DOMAIN picked = 1..(a + b)
  <2> HIDE DEF picked, a, b
  <2> QED
    BY <1>9
<1> HIDE DEF picked
<1>10. \A i \in 1..a : rec[i] = fans[i]
  <2> SUFFICES ASSUME NEW i \in 1..a PROVE rec[i] = fans[i]
    OBVIOUS
  <2>1. rec[i] = Recipient(picked[i])
    BY <1>4
  <2>2. picked[i] = fans[i] /\ Queue[fans[i]] = None
    BY <1>5, <1>9 DEF FanOut
  <2> HIDE DEF rec
  <2> QED
    BY <2>1, <2>2 DEF Recipient
<1>11. \A i \in 1..b : rec[a + i] = Queue[leaders[i]]
  <2> SUFFICES ASSUME NEW i \in 1..b PROVE rec[a + i] = Queue[leaders[i]]
    OBVIOUS
  <2>1. rec[a + i] = Recipient(picked[a + i])
    BY <1>4
  <2>2. picked[a + i] = leads[i] /\ Queue[leads[i]] = Queue[leaders[i]]
        /\ Queue[leaders[i]] # None
    BY <1>7, <1>9, QueuesTyped
  <2> HIDE DEF rec
  <2> QED
    BY <2>1, <2>2 DEF Recipient
<1>12. \A x \in 1..(a + b) : x \in 1..a \/ \E i \in 1..b : x = a + i
  <2> SUFFICES ASSUME NEW x \in 1..(a + b), x \notin 1..a
               PROVE  \E i \in 1..b : x = a + i
    OBVIOUS
  <2>1. x - a \in 1..b /\ x = a + (x - a)
    BY <1>4
  <2> QED
    BY <2>1
<1> DEFINE E == Entitled(subject)
           C == {s \in ToSet(subs) : Covers(Pattern[s], subject)}
<1>13. C = ToSet(subs) \cap M /\ E = {Recipient(s) : s \in C}
  BY MatchingRight DEF M, Entitled, Recipients
<1> HIDE DEF rec, a, b, C, E
<1>14. \A x \in 1..(a + b) : rec[x] \in E
  <2>1. ASSUME NEW i \in 1..a PROVE rec[i] \in E
    <3>1. fans[i] \in C /\ Recipient(fans[i]) = fans[i]
      BY <1>5, <1>13 DEF Recipient, FanOut
    <3> QED
      BY <1>10, <1>13, <3>1
  <2>2. ASSUME NEW i \in 1..b PROVE rec[a + i] \in E
    <3>1. leaders[i] \in C /\ Recipient(leaders[i]) = Queue[leaders[i]]
      BY <1>6, <1>13, OneLeader DEF Recipient
    <3> QED
      BY <1>11, <1>13, <3>1
  <2> QED
    BY <1>12, <2>1, <2>2
<1>15. \A x, y \in 1..(a + b) : rec[x] = rec[y] => x = y
  <2>1. ASSUME NEW i \in 1..a, NEW j \in 1..a, rec[i] = rec[j] PROVE i = j
    BY <1>2, <1>4, <1>10, <2>1 DEF IsInjective
  <2>2. ASSUME NEW i \in 1..a, NEW j \in 1..b PROVE rec[i] # rec[a + j]
    <3>1. rec[i] \in Subs /\ rec[a + j] \in Queues
      BY <1>1, <1>5, <1>7, <1>10, <1>11
    <3> QED
      BY <3>1, QueuesAreNoSubs
  <2>3. ASSUME NEW i \in 1..b, NEW j \in 1..b, rec[a + i] = rec[a + j]
        PROVE  i = j
    <3>1. leaders[i] = leaders[j]
      BY <1>6, <1>11, <2>3, OneLeader
    <3> QED
      BY <1>3, <1>4, <3>1 DEF IsInjective
  <2> SUFFICES ASSUME NEW x \in 1..(a + b), NEW y \in 1..(a + b),
                      rec[x] = rec[y]
               PROVE  x = y
    OBVIOUS
  <2>4. CASE x \in 1..a
    BY <1>12, <2>1, <2>2, <2>4
  <2>5. CASE \E i \in 1..b : x = a + i
    BY <1>12, <2>2, <2>3, <2>5
  <2> QED
    BY <1>12, <2>4, <2>5
<1>16. \A e \in E : \E x \in 1..(a + b) : rec[x] = e
  <2> SUFFICES ASSUME NEW s \in C
               PROVE  \E x \in 1..(a + b) : rec[x] = Recipient(s)
    BY <1>13
  <2>1. s \in ToSet(subs) /\ s \in M /\ s \in Subs
    BY <1>1, <1>13
  <2>2. CASE Queue[s] = None
    <3>1. s \in ToSet(fans)
      BY <1>2, <2>1, <2>2 DEF FanOut
    <3>2. PICK i \in 1..a : fans[i] = s
      BY <1>4, <3>1 DEF ToSet
    <3>3. i \in 1..(a + b)
      BY <1>4 DEF a, b
    <3> QED
      BY <1>10, <2>2, <3>2, <3>3 DEF Recipient
  <2>3. CASE Queue[s] # None
    <3>1. PICK t \in Leading : Queue[t] = Queue[s]
      BY <2>1, <2>3, OneLeader
    <3>2. t \in ToSet(leaders)
      BY <1>3, <2>1, <2>3, <3>1, OneLeader, MatchingRight DEF M
    <3>3. PICK i \in 1..b : leaders[i] = t
      BY <1>4, <3>2 DEF ToSet
    <3>4. a + i \in 1..(a + b)
      BY <1>4 DEF a, b
    <3> QED
      BY <1>11, <2>3, <3>1, <3>3, <3>4 DEF Recipient
  <2> QED
    BY <2>2, <2>3
<1>17. a + b \in Nat /\ DOMAIN rec = 1..(a + b)
       /\ rec = [x \in 1..(a + b) |-> rec[x]]
  BY <1>4 DEF rec, a, b
<1>18. rec \in Bijection(1..(a + b), E)
  BY <1>14, <1>15, <1>16, <1>17
     DEF Bijection, Injection, Surjection, IsInjective
<1>19. Cardinality(E) = a + b
  <2>1. ExistsBijection(1..(a + b), E)
    BY <1>18 DEF ExistsBijection
  <2> QED
    BY <1>17, <2>1, FS_CountingElements
<1>20. Recipients(ToSet(picked)) = E
  <2>1. ToSet(picked) = {picked[x] : x \in 1..(a + b)}
    BY <1>9a DEF ToSet
  <2>2. \A x \in 1..(a + b) : rec[x] = Recipient(picked[x])
    BY DEF rec
  <2>3. Recipients(ToSet(picked)) = {rec[x] : x \in 1..(a + b)}
    BY <2>1, <2>2 DEF Recipients
  <2> QED
    BY <1>14, <1>16, <2>3
<1>21. Pick(subject, robins) = picked
  BY DEF Pick, picked, fans, leaders, leads, M
<1> QED
  BY <1>9, <1>19, <1>20, <1>21 DEF E, a, b

-----------------------------------------------------------------------------
(* The inductive invariant.                                                *)

(* A record with the fields of a call; what they hold is typed only as far *)
(* as the breakers depend on it.                                           *)
IsCall(r) == DOMAIN r = {"at", "sub", "attempt", "trial", "rest",
                          "letters"}

Shape ==
    /\ now \in 0..MaxTime
    /\ breaker \in [Subs -> Breaker]
    /\ call = [c \in Calls |-> call[c]]
    /\ \A c \in Calls : IsCall(call[c]) /\ call[c].trial \in BOOLEAN

(* A breaker is half-open exactly while it takes a trial to be in flight.  *)
FlagAgrees ==
    \A s \in Subs :
        breaker[s].state = "half-open" <=> breaker[s].trialInFlight

IInv ==
    /\ Shape
    /\ FlagAgrees
    /\ HalfOpenHasTrial

-----------------------------------------------------------------------------
(* Deliveries.                                                             *)

(* A trial in flight stays in flight through a step that leaves its call   *)
(* alone.                                                                  *)
LEMMA TrialsStay ==
    ASSUME NEW c \in Calls, NEW s \in Subs,
           \A d \in Calls \ {c} : call'[d] = call[d],
           c \notin Trials(s) \/ c \in Trials(s)',
           Trials(s) # {}
    PROVE  Trials(s)' # {}
BY DEF Trials, InFlight

(* Where deadLetter leaves its call.                                       *)
Refused(s, rest, letters) ==
    [Idle EXCEPT !.at = IF letters = <<>> THEN "returning" ELSE "lettering",
                 !.sub = s, !.rest = rest, !.letters = letters]

LEMMA RefusedIsCall ==
    ASSUME NEW s, NEW rest, NEW letters
    PROVE  /\ IsCall(Refused(s, rest, letters))
           /\ Refused(s, rest, letters).trial = FALSE
BY DEF IsCall, Refused, Idle

LEMMA DeliverKeeps ==
    ASSUME IInv, UNCHANGED now,
           NEW c \in Calls, call[c].at # "handling",
           NEW s, NEW attempt, NEW rest, NEW robins,
           Deliver(c, s, attempt, rest, robins)
    PROVE  IInv'
<1> DEFINE trial == Allows(s) /\ breaker[s].state = "open"
           subject == DeadLetterSubject(Subject[c])
           r == IF Allows(s)
                THEN [at |-> "handling", sub |-> s, attempt |-> attempt,
                      trial |-> breaker[s].state = "open", rest |-> rest,
                      letters |-> <<>>]
                ELSE Refused(s, rest, Pick(subject, robins))
<1>1. call' = [call EXCEPT ![c] = r]
  BY DEF Deliver, DeadLetter, Refused
<1>2. call'[c] = r /\ \A d \in Calls \ {c} : call'[d] = call[d]
  BY <1>1 DEF IInv, Shape
<1>3. call' = [d \in Calls |-> call'[d]]
  BY <1>1 DEF IInv, Shape
<1>4. IsCall(r) /\ trial \in BOOLEAN /\ r.trial = trial
  <2>1. CASE Allows(s)
    BY <2>1 DEF IsCall
  <2>2. CASE ~Allows(s)
    BY <2>2, RefusedIsCall
  <2> QED
    BY <2>1, <2>2
<1>5. ASSUME NEW d \in Calls
      PROVE  IsCall(call'[d]) /\ call'[d].trial \in BOOLEAN
  <2>1. CASE d = c
    <3>1. call'[d] = r /\ r.trial = trial
      BY <1>2, <1>4, <2>1
    <3> HIDE DEF r, trial
    <3> QED
      BY <1>4, <3>1
  <2>2. CASE d # c
    BY <1>2, <2>2, Zenon DEF IInv, Shape
  <2> QED
    BY <2>1, <2>2
<1>6. CASE trial /\ s \in Subs
  <2>1. breaker' = [breaker EXCEPT ![s].state = "half-open",
                                   ![s].trialInFlight = TRUE]
    BY <1>6 DEF Deliver, Admitted
  <2>2. breaker' \in [Subs -> Breaker]
    BY <2>1, <1>6 DEF IInv, Shape, Breaker
  <2>3. \A t \in Subs \ {s} : breaker'[t] = breaker[t]
    BY <2>1 DEF IInv, Shape
  <2>4. c \in Trials(s)'
    <3>1. r.at = "handling" /\ r.sub = s /\ r.trial = TRUE
      BY <1>6
    <3> HIDE DEF r
    <3> QED
      BY <1>2, <3>1 DEF Trials, InFlight
  <2>5. \A t \in Subs : c \notin Trials(t)
    BY DEF Trials, InFlight
  <2>6. HalfOpenHasTrial'
    BY <2>3, <2>4, <2>5, <1>2, TrialsStay DEF IInv, HalfOpenHasTrial
  <2>7. FlagAgrees'
    BY <2>1, <2>3, <1>6 DEF IInv, Shape, Breaker, FlagAgrees
  <2> QED
    BY <2>2, <2>6, <2>7, <1>3, <1>5 DEF IInv, Shape
<1>7. CASE ~(trial /\ s \in Subs)
  <2>1. breaker' = breaker
    BY <1>7 DEF Deliver, Admitted, IInv, Shape
  <2>2. \A t \in Subs : c \notin Trials(t)
    BY DEF Trials, InFlight
  <2>3. HalfOpenHasTrial'
    BY <2>1, <2>2, <1>2, TrialsStay DEF IInv, HalfOpenHasTrial
  <2> QED
    BY <2>1, <2>3, <1>3, <1>5 DEF IInv, Shape, FlagAgrees
<1> QED
  BY <1>6, <1>7

(* A handler that ends ends the half-open state of its breaker, and is a   *)
(* trial of no other.                                                      *)
LEMMA EndKeeps ==
    ASSUME IInv, UNCHANGED now,
           NEW c \in Calls,
           \A d \in Calls \ {c} : call'[d] = call[d],
           call' = [d \in Calls |-> call'[d]],
           IsCall(call'[c]), call'[c].trial \in BOOLEAN,
           breaker' \in [Subs -> Breaker],
           \A t \in Subs \ {call[c].sub} : breaker'[t] = breaker[t],
           call[c].sub \in Subs =>
             /\ breaker'[call[c].sub].state # "half-open"
             /\ ~breaker'[call[c].sub].trialInFlight
    PROVE  IInv'
<1> DEFINE s == call[c].sub
<1>1. \A t \in Subs \ {s} : c \notin Trials(t)
  BY DEF Trials, InFlight
<1>2. HalfOpenHasTrial'
  <2>1. SUFFICES ASSUME NEW t \in Subs,
                        breaker'[t].state = "half-open"
                          \/ breaker'[t].trialInFlight
                 PROVE  Trials(t)' # {}
    BY DEF HalfOpenHasTrial
  <2>2. t # s
    BY <2>1
  <2>3. Trials(t) # {}
    BY <2>1, <2>2 DEF IInv, HalfOpenHasTrial
  <2> QED
    BY <2>2, <2>3, <1>1, TrialsStay
<1>3. FlagAgrees'
  BY DEF IInv, FlagAgrees
<1>4. \A d \in Calls : IsCall(call'[d]) /\ call'[d].trial \in BOOLEAN
  BY Zenon DEF IInv, Shape
<1> QED
  BY <1>2, <1>3, <1>4 DEF IInv, Shape

LEMMA AcksKeeps ==
    ASSUME IInv, NEW c \in Calls, HandlerAcks(c)
    PROVE  IInv'
<1> DEFINE s == call[c].sub
<1>1. /\ call' = [call EXCEPT ![c] =
                    [Idle EXCEPT !.at = "returning", !.rest = call[c].rest]]
      /\ breaker' = [breaker EXCEPT ![s].failures = 0, ![s].state = "closed",
                                    ![s].trialInFlight = FALSE]
      /\ UNCHANGED now
  BY DEF HandlerAcks, RecordSuccess
<1>2. /\ \A d \in Calls \ {c} : call'[d] = call[d]
      /\ call' = [d \in Calls |-> call'[d]]
      /\ IsCall(call'[c]) /\ call'[c].trial \in BOOLEAN
  BY <1>1 DEF IInv, Shape, IsCall, Idle
<1>3. breaker' \in [Subs -> Breaker]
  <2>1. ASSUME NEW x \in Breaker
        PROVE  /\ [x EXCEPT !.failures = 0] \in Breaker
               /\ [x EXCEPT !.state = "closed"] \in Breaker
               /\ [x EXCEPT !.trialInFlight = FALSE] \in Breaker
    <3>1. 0 \in 0..(FailureThreshold - 1)
      BY OptionsTyped
    <3>2. [x EXCEPT !.failures = 0] \in Breaker
      BY <3>1 DEF Breaker
    <3>3. [x EXCEPT !.state = "closed"] \in Breaker
      BY DEF Breaker
    <3>4. [x EXCEPT !.trialInFlight = FALSE] \in Breaker
      BY DEF Breaker
    <3> QED
      BY <3>2, <3>3, <3>4
  <2>2. [breaker EXCEPT ![s].failures = 0] \in [Subs -> Breaker]
    BY <2>1 DEF IInv, Shape
  <2>3. [breaker EXCEPT ![s].failures = 0, ![s].state = "closed"]
          \in [Subs -> Breaker]
    BY <2>1, <2>2
  <2> QED
    BY <1>1, <2>1, <2>3
<1>4. /\ \A t \in Subs \ {s} : breaker'[t] = breaker[t]
      /\ s \in Subs => /\ breaker'[s].state # "half-open"
                       /\ ~breaker'[s].trialInFlight
  BY <1>1 DEF IInv, Shape, Breaker
<1> QED
  BY <1>1, <1>2, <1>3, <1>4, EndKeeps

LEMMA FailsKeeps ==
    ASSUME IInv, NEW c \in Calls, HandlerFails(c)
    PROVE  IInv'
<1> DEFINE s == call[c].sub
           old == breaker[s]
           b == IF old.state = "half-open" THEN Opened(old, FALSE)
                ELSE IF old.failures + 1 >= FailureThreshold
                     THEN Opened(old, old.trialInFlight)
                     ELSE [old EXCEPT !.failures = @ + 1]
<1>1. breaker' = [breaker EXCEPT ![s] = b] /\ UNCHANGED now
  BY DEF HandlerFails, RecordFailure
<1>2. /\ \A d \in Calls \ {c} : call'[d] = call[d]
      /\ call' = [d \in Calls |-> call'[d]]
      /\ IsCall(call'[c]) /\ call'[c].trial \in BOOLEAN
  <2> DEFINE r == Refused(s, call[c].rest,
                          Pick(DeadLetterSubject(Subject[c]), rr))
  <2>1. CASE call' = [call EXCEPT ![c] = r]
    <3>1. IsCall(r) /\ r.trial = FALSE
      BY RefusedIsCall
    <3> HIDE DEF r
    <3> QED
      BY <2>1, <3>1 DEF IInv, Shape
  <2>2. CASE call' = [call EXCEPT ![c].at = "sleeping", ![c].trial = FALSE]
    BY <2>2 DEF IInv, Shape, IsCall
  <2> QED
    BY <2>1, <2>2 DEF HandlerFails, DeadLetter, Refused
<1>3. s \in Subs => b \in Breaker /\ b.state # "half-open" /\ ~b.trialInFlight
  <2>1. SUFFICES ASSUME s \in Subs
                 PROVE  b \in Breaker /\ b.state # "half-open"
                        /\ ~b.trialInFlight
    OBVIOUS
  <2>2. old \in Breaker /\ (old.state = "half-open" <=> old.trialInFlight)
    BY <2>1 DEF IInv, Shape, FlagAgrees
  <2>3. b \in Breaker
    BY <2>2, OptionsTyped DEF IInv, Shape, Breaker, Opened
  <2>4. b.state # "half-open" /\ ~b.trialInFlight
    BY <2>2 DEF Breaker, Opened
  <2> QED
    BY <2>3, <2>4
<1> HIDE DEF b
<1>4. /\ breaker' \in [Subs -> Breaker]
      /\ \A t \in Subs \ {s} : breaker'[t] = breaker[t]
      /\ s \in Subs => /\ breaker'[s].state # "half-open"
                       /\ ~breaker'[s].trialInFlight
  BY <1>1, <1>3 DEF IInv, Shape
<1> QED
  BY <1>1, <1>2, <1>4, EndKeeps

(* A call that reaches its end without calling a handler.                  *)
LEMMA DoneKeeps ==
    ASSUME IInv, UNCHANGED <<now, breaker>>,
           NEW c \in Calls, call[c].at # "handling",
           NEW r, IsCall(r), r.trial \in BOOLEAN,
           call' = [call EXCEPT ![c] = r]
    PROVE  IInv'
<1>1. /\ \A d \in Calls \ {c} : call'[d] = call[d]
      /\ call' = [d \in Calls |-> call'[d]]
      /\ call'[c] = r
  BY DEF IInv, Shape
<1>2. \A t \in Subs : c \notin Trials(t)
  BY DEF Trials, InFlight
<1>3. HalfOpenHasTrial'
  BY <1>1, <1>2, TrialsStay DEF IInv, HalfOpenHasTrial
<1> QED
  BY <1>1, <1>3 DEF IInv, Shape, FlagAgrees

-----------------------------------------------------------------------------
(* Every step keeps the invariant.                                         *)

LEMMA InitEstablishes == Init => IInv
<1> SUFFICES ASSUME Init PROVE IInv
  OBVIOUS
<1>1. breaker \in [Subs -> Breaker] /\ now \in 0..MaxTime
  BY OptionsTyped DEF Init, Breaker
<1>2. /\ call = [c \in Calls |-> call[c]]
      /\ \A c \in Calls : IsCall(call[c]) /\ call[c].trial \in BOOLEAN
  BY DEF Init, Idle, IsCall
<1>3. HalfOpenHasTrial /\ FlagAgrees
  BY DEF Init, HalfOpenHasTrial, FlagAgrees
<1> QED
  BY <1>1, <1>2, <1>3 DEF IInv, Shape

LEMMA StepKeeps ==
    ASSUME IInv, [Next]_vars
    PROVE  IInv'
<1>1. ASSUME NEW c \in Calls, Publish(c) PROVE IInv'
  <2>1. call[c].at # "handling" /\ UNCHANGED now
    BY <1>1 DEF Publish
  <2> DEFINE picked == Pick(Subject[c], rr)
  <2>2. CASE Deliver(c, Head(picked), 1, Tail(picked),
                     AfterPick(Subject[c], rr))
    BY <2>1, <2>2, DeliverKeeps
  <2>3. CASE UNCHANGED breaker /\ call' = [call EXCEPT ![c].at = "done"]
    <3> DEFINE r == [call[c] EXCEPT !.at = "done"]
    <3>1. IsCall(r) /\ r.trial \in BOOLEAN
      BY DEF IInv, Shape, IsCall
    <3>2. call' = [call EXCEPT ![c] = r]
      BY <2>3 DEF IInv, Shape
    <3> HIDE DEF r
    <3> QED
      BY <2>1, <2>3, <3>1, <3>2, DoneKeeps
  <2> QED
    BY <1>1, <2>2, <2>3 DEF Publish
<1>2. ASSUME NEW c \in Calls, Retry(c) PROVE IInv'
  <2> DEFINE s == IF Queue[call[c].sub] = None
                       \/ Members(Queue[call[c].sub]) = <<>>
                  THEN call[c].sub ELSE Chosen(Queue[call[c].sub], rr)
           robins == Advanced({Queue[call[c].sub]}, rr)
  <2>1. /\ call[c].at # "handling" /\ UNCHANGED now
        /\ Deliver(c, s, call[c].attempt + 1, call[c].rest, robins)
    BY <1>2 DEF Retry
  <2> HIDE DEF s, robins
  <2> QED
    BY <2>1, DeliverKeeps
<1>3. ASSUME NEW c \in Calls, NextTarget(c) PROVE IInv'
  <2>1. call[c].at # "handling" /\ UNCHANGED now
    BY <1>3 DEF NextTarget
  <2>2. CASE Deliver(c, Head(call[c].rest), 1, Tail(call[c].rest), rr)
    BY <2>1, <2>2, DeliverKeeps
  <2>3. CASE /\ UNCHANGED breaker
             /\ call' = [call EXCEPT ![c] = [Idle EXCEPT !.at = "done"]]
    <3> DEFINE r == [Idle EXCEPT !.at = "done"]
    <3>1. IsCall(r) /\ r.trial \in BOOLEAN
      BY DEF IsCall, Idle
    <3>2. call' = [call EXCEPT ![c] = r]
      BY <2>3
    <3> HIDE DEF r
    <3> QED
      BY <2>1, <2>3, <3>1, <3>2, DoneKeeps
  <2> QED
    BY <1>3, <2>2, <2>3 DEF NextTarget
<1>9. ASSUME NEW c \in Calls, LetterHandled(c) PROVE IInv'
  <2> DEFINE left == Tail(call[c].letters)
             r == [call[c] EXCEPT !.letters = left,
                     !.at = IF left = <<>> THEN "returning" ELSE @]
  <2>1. call[c].at # "handling" /\ UNCHANGED <<now, breaker>>
    BY <1>9 DEF LetterHandled
  <2>2. IsCall(r) /\ r.trial \in BOOLEAN
    BY DEF IInv, Shape, IsCall
  <2>3. call' = [call EXCEPT ![c] = r]
    BY <1>9 DEF LetterHandled, IInv, Shape
  <2> HIDE DEF r
  <2> QED
    BY <2>1, <2>2, <2>3, DoneKeeps
<1>4. CASE UNCHANGED <<breaker, call>> /\ now' \in 0..MaxTime
  BY <1>4 DEF IInv, Shape, FlagAgrees, HalfOpenHasTrial, Trials, InFlight
<1>5. ASSUME Tick PROVE IInv'
  <2>1. now' \in 0..MaxTime
    BY <1>5, OptionsTyped DEF Tick, IInv, Shape
  <2> QED
    BY <1>4, <1>5, <2>1 DEF Tick
<1>6. ASSUME NEW s \in Subs, Subscribe(s) \/ Unsubscribe(s)
      PROVE  IInv'
  BY <1>4, <1>6 DEF Subscribe, Unsubscribe, IInv, Shape
<1>7. ASSUME Close PROVE IInv'
  BY <1>4, <1>7 DEF Close, IInv, Shape
<1>8. CASE UNCHANGED vars
  BY <1>4, <1>8 DEF vars, IInv, Shape
<1> QED
  BY <1>1, <1>2, <1>3, <1>5, <1>6, <1>7, <1>8, <1>9, AcksKeeps, FailsKeeps
     DEF Next, Advances

-----------------------------------------------------------------------------
(* Deliveries, counted.                                                    *)

Total(o) == o["handled"] + o["max_deliver_exhausted"] + o["circuit_open"]

(* What NothingVanishes says of c.                                         *)
Balanced(c) ==
    targets[c] = Total(outcomes[c]) + Len(call[c].rest)
                   + (IF call[c].at \in {"handling", "sleeping"} THEN 1 ELSE 0)

CallRight(c) ==
    /\ call[c].at = "idle" =>
          call[c] = Idle /\ targets[c] = 0 /\ Total(outcomes[c]) = 0
    /\ call[c].at # "idle" => ValidSubject(Subject[c], FALSE)
    /\ call[c].at \in {"handling", "sleeping"} =>
          call[c].sub \in Subs /\ call[c].attempt \in 1..MaxDeliver
    /\ call[c].at = "sleeping" => call[c].attempt < MaxDeliver
    /\ call[c].at = "lettering" => call[c].letters # <<>>

Typed ==
    /\ removed \subseteq Subs /\ closed \in BOOLEAN
    /\ rr \in [Queues -> Nat]
    /\ call \in [Calls -> CallState]
    /\ targets \in [Calls -> Nat]
    /\ outcomes \in [Calls -> [Outcomes -> Nat]]

DInv ==
    /\ Typed
    /\ SubsRight
    /\ \A c \in Calls : CallRight(c) /\ Balanced(c)

LEMMA DeadLetterSubjectValid ==
    ASSUME NEW subject \in Seq(Token), ValidSubject(subject, FALSE)
    PROVE  /\ DeadLetterSubject(subject) \in Seq(Token)
           /\ ValidSubject(DeadLetterSubject(subject), FALSE)
<1> DEFINE dead == DeadLetterSubject(subject)
<1>1. /\ dead \in Seq(Token) /\ Len(dead) = Len(subject) + 1
      /\ dead[1] = "dlq"
      /\ \A i \in 1..Len(subject) : dead[1 + i] = subject[i]
  <2> DEFINE dlq == <<"dlq">>
  <2>1. dlq \in Seq(Token) /\ Len(dlq) = 1 /\ dlq[1] = "dlq"
    <3>1. dlq \in Seq(Token)
      BY DEF Token
    <3>2. Len(dlq) = 1
      OBVIOUS
    <3>3. dlq[1] = "dlq"
      OBVIOUS
    <3> QED
      BY <3>1, <3>2, <3>3
  <2> HIDE DEF dlq
  <2>2. dead = dlq \o subject
    BY DEF DeadLetterSubject, dlq
  <2>3. dead \in Seq(Token) /\ Len(dead) = Len(dlq) + Len(subject)
    <3>1. dlq \o subject \in Seq(Token)
      BY <2>1, Concat
    <3>2. Len(dlq \o subject) = Len(dlq) + Len(subject)
      BY <2>1, Concat
    <3> QED
      BY <2>2, <3>1, <3>2
  <2>4. \A i \in 1..Len(dlq) : dead[i] = dlq[i]
    BY <2>1, <2>2, Concat
  <2>5. \A i \in 1..Len(subject) : dead[Len(dlq) + i] = subject[i]
    BY <2>1, <2>2, Concat
  <2> HIDE DEF dead
  <2> QED
    BY <2>1, <2>3, <2>4, <2>5
<1>2. \A i \in 1..Len(subject) : subject[i] \notin {"", Malformed, "*", ">"}
  BY Zenon DEF ValidSubject
<1> HIDE DEF dead
<1>3. ASSUME NEW i \in 1..Len(dead)
      PROVE  dead[i] \notin {"", Malformed, "*", ">"}
  <2>1. CASE i = 1
    BY <1>1, <2>1 DEF Malformed
  <2>2. CASE i # 1
    <3>1. i - 1 \in 1..Len(subject) /\ 1 + (i - 1) = i
      BY <1>1, <2>2
    <3>2. dead[i] = subject[i - 1]
      BY <1>1, <3>1
    <3> QED
      BY <1>2, <3>1, <3>2
  <2> QED
    BY <2>1, <2>2
<1>4. dead # <<>>
  BY <1>1
<1>5. ValidSubject(dead, FALSE)
  BY <1>3, <1>4, Zenon DEF ValidSubject
<1> QED
  BY <1>1, <1>5 DEF dead

LEMMA AdvancedTyped ==
    ASSUME SubsRight, NEW robins \in [Queues -> Nat], NEW queues
    PROVE  Advanced(queues, robins) \in [Queues -> Nat]
<1> SUFFICES ASSUME NEW q \in Queues, Members(q) # <<>>
             PROVE  1 + (robins[q] % Len(Members(q))) \in Nat
  BY DEF Advanced
<1>1. Len(Members(q)) \in Nat \ {0} /\ robins[q] \in Nat
  BY MembersRight
<1> QED
  BY <1>1

(* The letters of a dead-lettered message go to whom its dead-letter       *)
(* subject is promised to.                                                 *)
LettersRight(c) ==
    LET entitled == Entitled(DeadLetterSubject(Subject[c]))
    IN  /\ Recipients(ToSet(call'[c].letters)) = entitled
        /\ Len(call'[c].letters) = Cardinality(entitled)

(* A step of c alone, to a state of it that is right.                      *)
Moves(c) ==
    /\ call' \in [Calls -> CallState]
    /\ outcomes' \in [Calls -> [Outcomes -> Nat]]
    /\ rr' \in [Queues -> Nat]
    /\ \A d \in Calls \ {c} : call'[d] = call[d] /\ outcomes'[d] = outcomes[d]

(* Where a message for s is lettered.                                      *)
Lettered(c, s, rest, reason) ==
    /\ Moves(c)
    /\ call'[c].sub = s /\ call'[c].rest = rest
    /\ call'[c].at \in {"returning", "lettering"}
    /\ call'[c].at = "lettering" => call'[c].letters # <<>>
    /\ Total(outcomes'[c]) = Total(outcomes[c]) + 1
    /\ outcomes'[c] = [outcomes[c] EXCEPT ![reason] = @ + 1]
    /\ LettersRight(c)

(* Where it is handed to the handler of s.                                 *)
Handed(c, s, rest) ==
    /\ Moves(c)
    /\ call'[c].sub = s /\ call'[c].rest = rest
    /\ call'[c].at = "handling" /\ call'[c].attempt \in 1..MaxDeliver
    /\ outcomes'[c] = outcomes[c]

LEMMA DeadLetterLands ==
    ASSUME DInv, NEW c \in Calls, ValidSubject(Subject[c], FALSE),
           NEW s \in Subs, NEW rest \in Seq(Subs),
           NEW reason \in Outcomes, NEW robins \in [Queues -> Nat],
           DeadLetter(c, s, rest, reason, robins)
    PROVE  Lettered(c, s, rest, reason)
<1> DEFINE subject == DeadLetterSubject(Subject[c])
           letters == Pick(subject, robins)
           r == Refused(s, rest, letters)
<1>1. Subject[c] \in Seq(Token)
  BY SubjectsAreTokens
<1>2. /\ subject \in Seq(Token) /\ ValidSubject(subject, FALSE)
      /\ subject \in Published
  BY <1>1, DeadLetterSubjectValid, AllPublished
<1>3. SubsRight /\ Typed
  BY DEF DInv
<1> HIDE DEF subject
<1>4. /\ letters \in Seq(Subs)
      /\ Recipients(ToSet(letters)) = Entitled(subject)
      /\ Len(letters) = Cardinality(Entitled(subject))
  BY <1>2, <1>3, PickRight
<1>5. /\ call' = [call EXCEPT ![c] = r]
      /\ outcomes' = [outcomes EXCEPT ![c][reason] = @ + 1]
      /\ rr' = AfterPick(subject, robins)
  BY DEF DeadLetter, Refused, Count, subject
<1>6. rr' \in [Queues -> Nat]
  BY <1>3, <1>5, AdvancedTyped DEF AfterPick
<1> HIDE DEF letters
<1>7. /\ r \in CallState
      /\ r.sub = s /\ r.rest = rest /\ r.letters = letters
      /\ r.at \in {"returning", "lettering"}
      /\ r.at = "lettering" => letters # <<>>
  <2>1. 0 \in 0..MaxDeliver
    BY OptionsTyped
  <2> QED
    BY <1>4, <2>1 DEF Refused, Idle, CallState
<1> HIDE DEF r
<1>8. /\ call' \in [Calls -> CallState] /\ call'[c] = r
      /\ \A d \in Calls \ {c} : call'[d] = call[d]
  BY <1>3, <1>5, <1>7 DEF Typed
<1>9. outcomes \in [Calls -> [Outcomes -> Nat]]
  BY <1>3 DEF Typed
<1>10. /\ outcomes'[c] = [outcomes[c] EXCEPT ![reason] = @ + 1]
       /\ outcomes' \in [Calls -> [Outcomes -> Nat]]
       /\ \A d \in Calls \ {c} : outcomes'[d] = outcomes[d]
  BY <1>5, <1>9
<1>11. Total(outcomes'[c]) = Total(outcomes[c]) + 1
  BY <1>9, <1>10 DEF Total, Outcomes
<1>12. LettersRight(c)
  BY <1>4, <1>7, <1>8 DEF LettersRight, subject
<1> QED
  BY <1>6, <1>7, <1>8, <1>10, <1>11, <1>12 DEF Lettered, Moves

LEMMA DeliverLands ==
    ASSUME DInv, NEW c \in Calls, ValidSubject(Subject[c], FALSE),
           NEW s \in Subs, NEW attempt \in 1..MaxDeliver,
           NEW rest \in Seq(Subs), NEW robins \in [Queues -> Nat],
           Deliver(c, s, attempt, rest, robins)
    PROVE  IF Allows(s) THEN Handed(c, s, rest)
                        ELSE Lettered(c, s, rest, "circuit_open")
<1>1. CASE Allows(s)
  <2> DEFINE r == [at |-> "handling", sub |-> s, attempt |-> attempt,
                   trial |-> breaker[s].state = "open", rest |-> rest,
                   letters |-> <<>>]
  <2>1. call' = [call EXCEPT ![c] = r] /\ outcomes' = outcomes /\ rr' = robins
    BY <1>1 DEF Deliver
  <2>2. /\ r.sub = s /\ r.rest = rest
        /\ r.at = "handling" /\ r.attempt = attempt
    OBVIOUS
  <2>3. r \in CallState
    <3>1. attempt \in 0..MaxDeliver /\ <<>> \in Seq(Subs)
      BY OptionsTyped
    <3> DEFINE trial == breaker[s].state = "open"
    <3>2. trial \in BOOLEAN
      OBVIOUS
    <3> HIDE DEF trial
    <3> QED
      BY <3>1, <3>2 DEF CallState
  <2> HIDE DEF r
  <2>4. Typed
    BY DEF DInv
  <2> QED
    BY <1>1, <2>1, <2>2, <2>3, <2>4 DEF Handed, Moves, Typed
<1>2. CASE ~Allows(s)
  <2>1. DeadLetter(c, s, rest, "circuit_open", robins)
    BY <1>2 DEF Deliver
  <2> QED
    BY <1>2, <2>1, DeadLetterLands DEF Outcomes
<1> QED
  BY <1>1, <1>2

(* What RefusedOnlyWithReason says of c.                                   *)
ReasonOf(c) ==
    outcomes'[c]["circuit_open"] > outcomes[c]["circuit_open"] =>
        LET s == call'[c].sub
        IN  \/ breaker[s].state = "open" /\ CoolingDown(s)
            \/ Trials(s) # {}

(* What ReachesTheEntitled says of the letters of c.                       *)
LettersOf(c) ==
    (\E x \in Outcomes \ {"handled"} : outcomes'[c][x] # outcomes[c][x]) =>
        LettersRight(c)

(* The breaker refuses with a reason.                                      *)
LEMMA RefusalHasReason ==
    ASSUME IInv, NEW s \in Subs, ~Allows(s)
    PROVE  \/ breaker[s].state = "open" /\ CoolingDown(s)
           \/ Trials(s) # {}
<1>1. /\ breaker[s].state \in {"closed", "open", "half-open"}
      /\ breaker[s].trialInFlight => Trials(s) # {}
  BY DEF IInv, Shape, Breaker, HalfOpenHasTrial
<1>2. /\ breaker[s].state # "closed"
      /\ breaker[s].state = "open" => CoolingDown(s) \/ breaker[s].trialInFlight
      /\ breaker[s].state = "half-open" => breaker[s].trialInFlight
  BY Zenon DEF Allows
<1> QED
  BY <1>1, <1>2

(* A delivery leaves its call right, whatever came of it.                  *)
LEMMA DeliverRight ==
    ASSUME IInv, DInv, NEW c \in Calls, ValidSubject(Subject[c], FALSE),
           NEW s \in Subs, NEW attempt \in 1..MaxDeliver,
           NEW rest \in Seq(Subs), NEW robins \in [Queues -> Nat],
           targets'[c] = Total(outcomes[c]) + 1 + Len(rest),
           Deliver(c, s, attempt, rest, robins)
    PROVE  /\ Moves(c) /\ CallRight(c)' /\ Balanced(c)'
           /\ ReasonOf(c) /\ LettersOf(c)
           /\ call'[c].sub = s /\ call'[c].rest = rest
           /\ call'[c].at # "idle"
<1>2. IF Allows(s) THEN Handed(c, s, rest)
                   ELSE Lettered(c, s, rest, "circuit_open")
  BY DeliverLands
<1>3. /\ outcomes \in [Calls -> [Outcomes -> Nat]]
      /\ outcomes[c]["circuit_open"] \in Nat
      /\ Len(rest) \in Nat /\ Total(outcomes[c]) \in Nat
  BY DEF DInv, Typed, Total, Outcomes
<1>4. CASE Allows(s)
  <2>1. Handed(c, s, rest)
    BY <1>2, <1>4
  <2>2. CallRight(c)'
    BY <2>1 DEF Handed, CallRight
  <2>3. Balanced(c)'
    <3>1. targets'[c] = Total(outcomes'[c]) + Len(call'[c].rest) + 1
      BY <1>3, <2>1 DEF Handed
    <3> QED
      BY <2>1, <3>1 DEF Handed, Balanced
  <2>4. ReasonOf(c) /\ LettersOf(c)
    BY <1>3, <2>1 DEF Handed, ReasonOf, LettersOf
  <2> QED
    BY <2>1, <2>2, <2>3, <2>4 DEF Handed
<1>5. CASE ~Allows(s)
  <2>1. Lettered(c, s, rest, "circuit_open")
    BY <1>2, <1>5
  <2>2. CallRight(c)'
    BY <2>1 DEF Lettered, CallRight
  <2>3. Balanced(c)'
    <3>1. targets'[c] = Total(outcomes'[c]) + Len(call'[c].rest) + 0
      BY <1>3, <2>1 DEF Lettered
    <3> QED
      BY <2>1, <3>1 DEF Lettered, Balanced
  <2>4. ReasonOf(c)
    BY <1>5, <2>1, RefusalHasReason DEF Lettered, ReasonOf
  <2>5. LettersOf(c)
    BY <2>1 DEF Lettered, LettersOf
  <2> QED
    BY <2>1, <2>2, <2>3, <2>4, <2>5 DEF Lettered
<1> QED
  BY <1>4, <1>5

(* A step of one call keeps the invariant when it leaves that call right.  *)
LEMMA MoveKeeps ==
    ASSUME DInv, NEW c \in Calls, Moves(c), CallRight(c)', Balanced(c)',
           targets' \in [Calls -> Nat],
           \A d \in Calls \ {c} : targets'[d] = targets[d],
           UNCHANGED <<subs, removed, closed>>
    PROVE  DInv'
<1>1. Typed'
  BY DEF DInv, Typed, Moves
<1>2. SubsRight'
  BY DEF DInv, SubsRight
<1>3. ASSUME NEW d \in Calls PROVE CallRight(d)' /\ Balanced(d)'
  <2>1. CASE d = c
    BY <2>1
  <2>2. CASE d # c
    <3>1. /\ call'[d] = call[d] /\ outcomes'[d] = outcomes[d]
          /\ targets'[d] = targets[d]
      BY <2>2 DEF Moves
    <3>2. CallRight(d) /\ Balanced(d)
      BY DEF DInv
    <3> QED
      BY <3>1, <3>2 DEF CallRight, Balanced
  <2> QED
    BY <2>1, <2>2
<1> QED
  BY <1>1, <1>2, <1>3 DEF DInv

-----------------------------------------------------------------------------
(* Every step of a call leaves it right.                                   *)

(* What ReachesTheEntitled says of c when its publish begins.              *)
SetsOut(c) ==
    LET picked == ToSet(call'[c].rest) \cup ({call'[c].sub} \ {None})
    IN  /\ Recipients(picked) = Entitled(Subject[c])
        /\ targets'[c] = Cardinality(Entitled(Subject[c]))

Right(c) ==
    /\ Moves(c) /\ CallRight(c)' /\ Balanced(c)'
    /\ ReasonOf(c) /\ LettersOf(c)

LEMMA NoChangeNoLetter ==
    ASSUME DInv, NEW c \in Calls, outcomes'[c] = outcomes[c]
    PROVE  ReasonOf(c) /\ LettersOf(c)
<1>1. outcomes[c]["circuit_open"] \in Nat
  BY DEF DInv, Typed, Outcomes
<1> QED
  BY <1>1 DEF ReasonOf, LettersOf

LEMMA PublishRight ==
    ASSUME IInv, DInv, NEW c \in Calls, Publish(c)
    PROVE  /\ Right(c) /\ SetsOut(c)
           /\ targets' \in [Calls -> Nat]
           /\ \A d \in Calls \ {c} : targets'[d] = targets[d]
<1> DEFINE picked == Pick(Subject[c], rr)
<1>1. Typed /\ SubsRight /\ CallRight(c) /\ Balanced(c)
  BY DEF DInv
<1>2. /\ call[c] = Idle /\ Total(outcomes[c]) = 0
      /\ ValidSubject(Subject[c], FALSE)
      /\ targets' = [targets EXCEPT ![c] = Len(picked)]
  BY <1>1 DEF Publish, CallRight
<1>3. /\ Subject[c] \in Seq(Token) /\ rr \in [Queues -> Nat]
      /\ Subject[c] \in Published
  BY <1>1, SubjectsAreTokens, AllPublished DEF Typed
<1>4. /\ picked \in Seq(Subs)
      /\ Recipients(ToSet(picked)) = Entitled(Subject[c])
      /\ Len(picked) = Cardinality(Entitled(Subject[c]))
  BY <1>1, <1>2, <1>3, PickRight
<1>5. AfterPick(Subject[c], rr) \in [Queues -> Nat]
  BY <1>1, <1>3, AdvancedTyped DEF AfterPick
<1> DEFINE robins == AfterPick(Subject[c], rr)
<1>6. IF picked = <<>>
      THEN /\ call' = [call EXCEPT ![c].at = "done"]
           /\ UNCHANGED <<rr, breaker, outcomes>>
      ELSE Deliver(c, Head(picked), 1, Tail(picked), robins)
  BY DEF Publish
<1> HIDE DEF picked, robins
<1>7. /\ targets' \in [Calls -> Nat] /\ targets'[c] = Len(picked)
      /\ \A d \in Calls \ {c} : targets'[d] = targets[d]
  BY <1>1, <1>2, <1>4 DEF Typed
<1>8. CASE picked = <<>>
  <2> DEFINE r == [Idle EXCEPT !.at = "done"]
  <2>1. call' = [call EXCEPT ![c] = r]
    BY <1>1, <1>2, <1>6, <1>8 DEF Typed
  <2>2. r \in CallState /\ r.at = "done" /\ r.rest = <<>> /\ r.sub = None
    <3>1. 0 \in 0..MaxDeliver /\ <<>> \in Seq(Subs)
      BY OptionsTyped
    <3> QED
      BY <3>1 DEF Idle, CallState
  <2> HIDE DEF r
  <2>3. Moves(c) /\ call'[c] = r /\ outcomes' = outcomes
    BY <1>1, <1>3, <1>6, <1>8, <2>1, <2>2 DEF Moves, Typed
  <2>4. CallRight(c)'
    BY <1>2, <2>2, <2>3 DEF CallRight
  <2>5. Balanced(c)'
    BY <1>2, <1>7, <1>8, <2>2, <2>3 DEF Balanced
  <2>6. SetsOut(c)
    <3>1. ToSet(picked) = {} /\ ToSet(r.rest) = {}
      BY <1>8, <2>2 DEF ToSet
    <3>2. ToSet(call'[c].rest) \cup ({call'[c].sub} \ {None}) = ToSet(picked)
      BY <2>2, <2>3, <3>1
    <3> QED
      BY <1>4, <1>7, <3>2 DEF SetsOut
  <2> QED
    BY <1>7, <2>3, <2>4, <2>5, <2>6, NoChangeNoLetter DEF Right
<1>9. CASE picked # <<>>
  <2>1. /\ Head(picked) \in Subs /\ Tail(picked) \in Seq(Subs)
        /\ Len(Tail(picked)) = Len(picked) - 1 /\ Len(picked) \in Nat
    BY <1>4, <1>9
  <2>2. ToSet(picked) = ToSet(Tail(picked)) \cup {Head(picked)}
    <3> DEFINE t == Tail(picked)
    <3>1. /\ DOMAIN picked = 1..Len(picked) /\ DOMAIN t = 1..Len(t)
          /\ picked[1] = Head(picked)
          /\ \A i \in 1..Len(t) : t[i] = picked[i + 1]
          /\ Len(picked) = Len(t) + 1 /\ Len(t) \in Nat
      BY <1>4, <1>9
    <3> HIDE DEF t
    <3>2. \A i \in 1..Len(picked) :
             i = 1 \/ (i - 1 \in 1..Len(t) /\ picked[i] = t[i - 1])
      BY <3>1
    <3>3. \A i \in 1..Len(t) : i + 1 \in 1..Len(picked) /\ picked[i + 1] = t[i]
      BY <3>1
    <3>4. 1 \in 1..Len(picked)
      BY <3>1
    <3>5. ToSet(picked) = ToSet(t) \cup {Head(picked)}
      <4>1. \A x \in ToSet(picked) : x \in ToSet(t) \cup {Head(picked)}
        BY <3>1, <3>2 DEF ToSet
      <4>2. \A x \in ToSet(t) : x \in ToSet(picked)
        BY <3>1, <3>3 DEF ToSet
      <4>3. Head(picked) \in ToSet(picked)
        BY <3>1, <3>4 DEF ToSet
      <4> QED
        BY <4>1, <4>2, <4>3
    <3> QED
      BY <3>5 DEF t
  <2>3. Deliver(c, Head(picked), 1, Tail(picked), robins)
    BY <1>6, <1>9
  <2>4. 1 \in 1..MaxDeliver /\ robins \in [Queues -> Nat]
    BY <1>5, OptionsTyped DEF robins
  <2>5. targets'[c] = Total(outcomes[c]) + 1 + Len(Tail(picked))
    BY <1>2, <1>7, <2>1
  <2>6. /\ Right(c)
        /\ call'[c].sub = Head(picked) /\ call'[c].rest = Tail(picked)
    BY <1>2, <2>1, <2>3, <2>4, <2>5, DeliverRight DEF Right
  <2>7. SetsOut(c)
    <3>1. Head(picked) # None
      BY <2>1, NoneIsNoSub
    <3>2. ToSet(call'[c].rest) \cup ({call'[c].sub} \ {None}) = ToSet(picked)
      BY <2>2, <2>6, <3>1
    <3> QED
      BY <1>4, <1>7, <3>2 DEF SetsOut
  <2> QED
    BY <1>7, <2>6, <2>7
<1> QED
  BY <1>8, <1>9

LEMMA AcksRight ==
    ASSUME IInv, DInv, NEW c \in Calls, HandlerAcks(c)
    PROVE  Right(c)
<1> DEFINE r == [Idle EXCEPT !.at = "returning", !.rest = call[c].rest]
<1>1. /\ call[c].at = "handling" /\ call' = [call EXCEPT ![c] = r]
      /\ outcomes' = [outcomes EXCEPT ![c]["handled"] = @ + 1]
      /\ UNCHANGED <<rr, targets>>
  BY DEF HandlerAcks, Count
<1>2. Typed /\ CallRight(c) /\ Balanced(c)
  BY DEF DInv
<1>3. /\ call[c].rest \in Seq(Subs) /\ outcomes \in [Calls -> [Outcomes -> Nat]]
      /\ call \in [Calls -> CallState] /\ rr \in [Queues -> Nat]
  BY <1>2 DEF Typed, CallState
<1>4. r \in CallState /\ r.at = "returning" /\ r.rest = call[c].rest
  <2>1. 0 \in 0..MaxDeliver /\ <<>> \in Seq(Subs)
    BY OptionsTyped
  <2> QED
    BY <1>3, <2>1 DEF Idle, CallState
<1> HIDE DEF r
<1>5. /\ call' \in [Calls -> CallState] /\ call'[c] = r
      /\ \A d \in Calls \ {c} : call'[d] = call[d]
  BY <1>1, <1>3, <1>4
<1>6. /\ outcomes' \in [Calls -> [Outcomes -> Nat]]
      /\ outcomes'[c] = [outcomes[c] EXCEPT !["handled"] = @ + 1]
      /\ \A d \in Calls \ {c} : outcomes'[d] = outcomes[d]
  BY <1>1, <1>3 DEF Outcomes
<1>7. Moves(c)
  BY <1>1, <1>3, <1>5, <1>6 DEF Moves
<1>8. /\ Total(outcomes'[c]) = Total(outcomes[c]) + 1
      /\ outcomes'[c]["circuit_open"] = outcomes[c]["circuit_open"]
      /\ outcomes[c]["circuit_open"] \in Nat
      /\ \A x \in Outcomes \ {"handled"} : outcomes'[c][x] = outcomes[c][x]
  BY <1>3, <1>6 DEF Total, Outcomes
<1>9. ValidSubject(Subject[c], FALSE)
  BY <1>1, <1>2 DEF CallRight
<1>10. CallRight(c)'
  BY <1>4, <1>5, <1>9 DEF CallRight
<1>11. Balanced(c)'
  <2>1. Len(call[c].rest) \in Nat /\ Total(outcomes[c]) \in Nat
    BY <1>3 DEF Total, Outcomes
  <2>2. targets[c] = Total(outcomes[c]) + Len(call[c].rest) + 1
    BY <1>1, <1>2 DEF Balanced
  <2> QED
    BY <1>1, <1>4, <1>5, <1>8, <2>1, <2>2 DEF Balanced
<1>12. ReasonOf(c)
  BY <1>8 DEF ReasonOf
<1>13. LettersOf(c)
  BY <1>8 DEF LettersOf
<1> QED
  BY <1>7, <1>10, <1>11, <1>12, <1>13 DEF Right

LEMMA FailsRight ==
    ASSUME IInv, DInv, NEW c \in Calls, HandlerFails(c)
    PROVE  Right(c)
<1> DEFINE s == call[c].sub
           rest == call[c].rest
           r == [call[c] EXCEPT !.at = "sleeping", !.trial = FALSE]
<1>1. Typed /\ CallRight(c) /\ Balanced(c)
  BY DEF DInv
<1>2. /\ call[c].at = "handling" /\ UNCHANGED targets
      /\ IF call[c].attempt >= MaxDeliver
         THEN DeadLetter(c, s, rest, "max_deliver_exhausted", rr)
         ELSE /\ call' = [call EXCEPT ![c].at = "sleeping", ![c].trial = FALSE]
              /\ UNCHANGED <<rr, outcomes>>
  BY DEF HandlerFails
<1>3. /\ s \in Subs /\ call[c].attempt \in 1..MaxDeliver
      /\ ValidSubject(Subject[c], FALSE)
      /\ targets[c] = Total(outcomes[c]) + Len(rest) + 1
  BY <1>1, <1>2 DEF CallRight, Balanced
<1>4. /\ call \in [Calls -> CallState] /\ rest \in Seq(Subs)
      /\ outcomes \in [Calls -> [Outcomes -> Nat]] /\ rr \in [Queues -> Nat]
  BY <1>1 DEF Typed, CallState
<1>5. Total(outcomes[c]) \in Nat /\ Len(rest) \in Nat
  BY <1>4 DEF Total, Outcomes
<1>6. CASE call[c].attempt >= MaxDeliver
  <2>1. Lettered(c, s, rest, "max_deliver_exhausted")
    BY <1>2, <1>3, <1>4, <1>6, DeadLetterLands DEF Outcomes
  <2>2. CallRight(c)'
    BY <1>3, <2>1 DEF Lettered, CallRight
  <2>3. Balanced(c)'
    <3>1. targets'[c] = Total(outcomes'[c]) + Len(call'[c].rest) + 0
      BY <1>2, <1>3, <1>5, <2>1 DEF Lettered
    <3> QED
      BY <2>1, <3>1 DEF Lettered, Balanced
  <2>4. ReasonOf(c)
    <3>1. /\ outcomes'[c]["circuit_open"] = outcomes[c]["circuit_open"]
          /\ outcomes[c]["circuit_open"] \in Nat
      BY <1>4, <2>1 DEF Lettered, Outcomes
    <3> QED
      BY <3>1 DEF ReasonOf
  <2>5. LettersOf(c)
    BY <2>1 DEF Lettered, LettersOf
  <2> QED
    BY <2>1, <2>2, <2>3, <2>4, <2>5 DEF Lettered, Right
<1>7. CASE ~(call[c].attempt >= MaxDeliver)
  <2>1. call' = [call EXCEPT ![c] = r] /\ rr' = rr /\ outcomes' = outcomes
    BY <1>2, <1>4, <1>7
  <2>2. /\ r \in CallState /\ r.at = "sleeping" /\ r.sub = s /\ r.rest = rest
        /\ r.attempt = call[c].attempt
    BY <1>4 DEF CallState
  <2> HIDE DEF r
  <2>3. Moves(c) /\ call'[c] = r
    BY <1>4, <2>1, <2>2 DEF Moves
  <2>4. call[c].attempt < MaxDeliver
    BY <1>3, <1>7, OptionsTyped
  <2>5. CallRight(c)'
    BY <1>3, <2>2, <2>3, <2>4 DEF CallRight
  <2>6. Balanced(c)'
    BY <1>2, <1>3, <2>1, <2>2, <2>3 DEF Balanced
  <2> QED
    BY <2>1, <2>3, <2>5, <2>6, NoChangeNoLetter DEF Right
<1> QED
  BY <1>6, <1>7

LEMMA RetryRight ==
    ASSUME IInv, DInv, NEW c \in Calls, Retry(c)
    PROVE  Right(c)
<1> DEFINE q == Queue[call[c].sub]
           s == IF q = None \/ Members(q) = <<>>
                THEN call[c].sub ELSE Chosen(q, rr)
           rest == call[c].rest
           robins == Advanced({q}, rr)
<1>1. Typed /\ SubsRight /\ CallRight(c) /\ Balanced(c)
  BY DEF DInv
<1>2. /\ call[c].at = "sleeping" /\ UNCHANGED targets
      /\ Deliver(c, s, call[c].attempt + 1, rest, robins)
  BY DEF Retry
<1>3. /\ call[c].sub \in Subs /\ call[c].attempt \in 1..MaxDeliver
      /\ call[c].attempt < MaxDeliver /\ ValidSubject(Subject[c], FALSE)
      /\ targets[c] = Total(outcomes[c]) + Len(rest) + 1
  BY <1>1, <1>2 DEF CallRight, Balanced
<1>4. /\ rest \in Seq(Subs) /\ rr \in [Queues -> Nat]
      /\ outcomes \in [Calls -> [Outcomes -> Nat]]
  BY <1>1 DEF Typed, CallState
<1>5. Total(outcomes[c]) \in Nat /\ Len(rest) \in Nat
  BY <1>4 DEF Total, Outcomes
<1>6. robins \in [Queues -> Nat]
  BY <1>1, <1>4, AdvancedTyped
<1>7. s \in Subs
  <2>1. q \in Queues \cup {None} /\ ToSet(subs) \subseteq Subs
    BY <1>1, <1>3, QueuesTyped DEF SubsRight, ToSet
  <2> HIDE DEF q
  <2> QED
    BY <1>1, <1>3, <1>4, <2>1, ChosenIsMember
<1>8. call[c].attempt + 1 \in 1..MaxDeliver
  BY <1>3, OptionsTyped
<1> HIDE DEF s, robins
<1>9. targets'[c] = Total(outcomes[c]) + 1 + Len(rest)
  BY <1>2, <1>3, <1>5
<1> QED
  BY <1>2, <1>3, <1>4, <1>6, <1>7, <1>8, <1>9, DeliverRight DEF Right

LEMMA NextTargetRight ==
    ASSUME IInv, DInv, NEW c \in Calls, NextTarget(c)
    PROVE  Right(c)
<1> DEFINE rest == call[c].rest
           r == [Idle EXCEPT !.at = "done"]
<1>1. Typed /\ CallRight(c) /\ Balanced(c)
  BY DEF DInv
<1>2. /\ call[c].at = "returning" /\ UNCHANGED targets
      /\ IF rest = <<>>
         THEN call' = [call EXCEPT ![c] = r] /\ UNCHANGED <<rr, outcomes>>
         ELSE Deliver(c, Head(rest), 1, Tail(rest), rr)
  BY DEF NextTarget
<1>3. /\ call \in [Calls -> CallState] /\ rest \in Seq(Subs)
      /\ rr \in [Queues -> Nat] /\ outcomes \in [Calls -> [Outcomes -> Nat]]
  BY <1>1 DEF Typed, CallState
<1>4. /\ ValidSubject(Subject[c], FALSE) /\ Total(outcomes[c]) \in Nat
      /\ Len(rest) \in Nat /\ targets[c] = Total(outcomes[c]) + Len(rest)
  <2>1. Total(outcomes[c]) \in Nat /\ Len(rest) \in Nat
    BY <1>3 DEF Total, Outcomes
  <2>2. targets[c] = Total(outcomes[c]) + Len(rest) + 0
    BY <1>1, <1>2 DEF Balanced
  <2>3. ValidSubject(Subject[c], FALSE)
    BY <1>1, <1>2 DEF CallRight
  <2>4. targets[c] = Total(outcomes[c]) + Len(rest)
    BY <2>1, <2>2
  <2> HIDE DEF rest
  <2> QED
    BY <2>1, <2>3, <2>4, Zenon
<1>5. CASE rest = <<>>
  <2>1. r \in CallState /\ r.at = "done" /\ r.rest = <<>>
    <3>1. 0 \in 0..MaxDeliver /\ <<>> \in Seq(Subs)
      BY OptionsTyped
    <3> QED
      BY <3>1 DEF Idle, CallState
  <2>2. call' = [call EXCEPT ![c] = r] /\ rr' = rr /\ outcomes' = outcomes
    BY <1>2, <1>5
  <2> HIDE DEF r
  <2>3. Moves(c) /\ call'[c] = r
    BY <1>3, <2>1, <2>2 DEF Moves
  <2>4. CallRight(c)'
    BY <1>4, <2>1, <2>3 DEF CallRight
  <2>5. Balanced(c)'
    BY <1>2, <1>4, <1>5, <2>1, <2>2, <2>3 DEF Balanced
  <2> QED
    BY <2>2, <2>3, <2>4, <2>5, NoChangeNoLetter DEF Right
<1>6. CASE rest # <<>>
  <2>1. /\ Head(rest) \in Subs /\ Tail(rest) \in Seq(Subs)
        /\ Len(Tail(rest)) = Len(rest) - 1
    BY <1>3, <1>6
  <2>2. Deliver(c, Head(rest), 1, Tail(rest), rr)
    BY <1>2, <1>6
  <2>3. targets'[c] = Total(outcomes[c]) + 1 + Len(Tail(rest))
    BY <1>2, <1>4, <2>1
  <2>4. 1 \in 1..MaxDeliver
    BY OptionsTyped
  <2> QED
    BY <1>3, <1>4, <2>1, <2>2, <2>3, <2>4, DeliverRight DEF Right
<1> QED
  BY <1>5, <1>6

LEMMA LetterHandledRight ==
    ASSUME IInv, DInv, NEW c \in Calls, LetterHandled(c)
    PROVE  Right(c)
<1> DEFINE left == Tail(call[c].letters)
           r == [call[c] EXCEPT !.letters = left,
                   !.at = IF left = <<>> THEN "returning" ELSE @]
<1>1. Typed /\ CallRight(c) /\ Balanced(c)
  BY DEF DInv
<1>2. /\ call[c].at = "lettering" /\ UNCHANGED <<rr, targets, outcomes>>
      /\ call \in [Calls -> CallState]
  BY <1>1 DEF LetterHandled, Typed
<1>3. call' = [call EXCEPT ![c] = r]
  BY <1>2 DEF LetterHandled
<1>4. call[c].letters \in Seq(Subs) /\ call[c].letters # <<>>
  BY <1>1, <1>2 DEF CallRight, CallState
<1>5. left \in Seq(Subs)
  BY <1>4
<1> HIDE DEF left
<1>6. /\ r \in CallState /\ r.rest = call[c].rest
      /\ r.at \in {"lettering", "returning"} /\ r.letters = left
      /\ r.at = "lettering" => left # <<>>
  BY <1>2, <1>5 DEF CallState
<1> HIDE DEF r
<1>7. Moves(c) /\ call'[c] = r
  BY <1>1, <1>2, <1>3, <1>6 DEF Moves, Typed
<1>8. CallRight(c)'
  BY <1>1, <1>2, <1>6, <1>7 DEF CallRight
<1>9. Balanced(c)'
  BY <1>1, <1>2, <1>6, <1>7 DEF Balanced
<1> QED
  BY <1>2, <1>7, <1>8, <1>9, NoChangeNoLetter DEF Right

-----------------------------------------------------------------------------
(* Every step keeps what is counted.                                       *)

LEMMA DInit == Init => DInv
<1> SUFFICES ASSUME Init PROVE DInv
  OBVIOUS
<1>1. Idle \in CallState
  <2>1. 0 \in 0..MaxDeliver /\ <<>> \in Seq(Subs)
    BY OptionsTyped
  <2> QED
    BY <2>1 DEF Idle, CallState
<1>2. Typed
  BY <1>1 DEF Init, Typed
<1>3. SubsRight
  BY DEF Init, SubsRight, IsInjective, ToSet
<1>4. ASSUME NEW c \in Calls PROVE CallRight(c) /\ Balanced(c)
  <2>1. /\ call[c] = Idle /\ targets[c] = 0
        /\ Idle.at = "idle" /\ Idle.rest = <<>>
    BY DEF Init, Idle
  <2>2. Total(outcomes[c]) = 0
    BY DEF Init, Total, Outcomes
  <2>3. CallRight(c)
    BY <2>1, <2>2 DEF CallRight
  <2>4. Balanced(c)
    BY <2>1, <2>2 DEF Balanced
  <2> QED
    BY <2>3, <2>4
<1> QED
  BY <1>2, <1>3, <1>4 DEF DInv

(* Nothing is delivered and no call moves.                                 *)
LEMMA SubsKeep ==
    ASSUME DInv, SubsRight', removed' \subseteq Subs, closed' \in BOOLEAN,
           UNCHANGED <<rr, call, targets, outcomes>>
    PROVE  DInv'
<1>1. Typed'
  BY DEF DInv, Typed
<1>2. ASSUME NEW c \in Calls PROVE CallRight(c)' /\ Balanced(c)'
  BY DEF DInv, CallRight, Balanced
<1> QED
  BY <1>1, <1>2 DEF DInv

LEMMA SubscribeKeeps ==
    ASSUME DInv, NEW s \in Subs, Subscribe(s)
    PROVE  DInv'
<1>1. SubsRight /\ Typed
  BY DEF DInv
<1>2. /\ subs' = Append(subs, s) /\ s \notin ToSet(subs)
      /\ ValidSubject(Pattern[s], TRUE)
      /\ UNCHANGED <<removed, closed, rr, call, targets, outcomes>>
  BY DEF Subscribe
<1> DEFINE n == Len(subs)
<1>3. /\ subs' \in Seq(Subs) /\ n \in Nat
      /\ DOMAIN subs = 1..n /\ DOMAIN subs' = 1..(n + 1)
      /\ subs'[n + 1] = s
      /\ \A i \in 1..n : subs'[i] = subs[i]
  BY <1>1, <1>2 DEF SubsRight
<1>4. \A i \in 1..n : subs[i] # s
  BY <1>2, <1>3 DEF ToSet
<1>5. \A i \in 1..(n + 1) : i \in 1..n \/ i = n + 1
  BY <1>3
<1> HIDE DEF n
<1>6. IsInjective(subs')
  <2>1. \A i, j \in 1..n : subs[i] = subs[j] => i = j
    BY <1>1, <1>3 DEF SubsRight, IsInjective
  <2>2. \A i, j \in 1..(n + 1) : subs'[i] = subs'[j] => i = j
    BY <1>3, <1>4, <1>5, <2>1
  <2> QED
    BY <1>3, <2>2 DEF IsInjective
<1>7. \A t \in ToSet(subs') : t = s \/ t \in ToSet(subs)
  BY <1>3, <1>5 DEF ToSet
<1>8. SubsRight'
  BY <1>1, <1>2, <1>3, <1>6, <1>7 DEF SubsRight
<1> QED
  BY <1>1, <1>2, <1>8, SubsKeep DEF Typed

LEMMA UnsubscribeKeeps ==
    ASSUME DInv, NEW s \in Subs, Unsubscribe(s)
    PROVE  DInv'
<1>1. SubsRight /\ Typed
  BY DEF DInv
<1>2. /\ subs' = Only(subs, Subs \ {s}) /\ removed' = removed \cup {s}
      /\ UNCHANGED <<closed, rr, call, targets, outcomes>>
  BY DEF Unsubscribe
<1>3. subs \in Seq(Subs) /\ IsInjective(subs)
  BY <1>1 DEF SubsRight
<1>4. /\ subs' \in Seq(Subs) /\ IsInjective(subs')
      /\ ToSet(subs') = ToSet(subs) \cap (Subs \ {s})
  BY <1>2, <1>3, OnlyKeeps
<1>5. SubsRight'
  BY <1>1, <1>4 DEF SubsRight
<1> QED
  BY <1>1, <1>2, <1>5, SubsKeep DEF Typed

LEMMA CloseKeeps ==
    ASSUME DInv, Close
    PROVE  DInv'
<1>1. SubsRight /\ Typed
  BY DEF DInv
<1>2. ToSet(subs) \subseteq Subs
  BY <1>1 DEF SubsRight, ToSet
<1>3. SubsRight'
  BY DEF Close, SubsRight, IsInjective, ToSet
<1> QED
  BY <1>1, <1>2, <1>3, SubsKeep DEF Close, Typed

LEMMA DStep ==
    ASSUME IInv, DInv, [Next]_vars
    PROVE  DInv'
<1>1. ASSUME NEW c \in Calls, Publish(c) PROVE DInv'
  <2>1. UNCHANGED <<subs, removed, closed>>
    BY <1>1 DEF Publish
  <2> QED
    BY <1>1, <2>1, PublishRight, MoveKeeps DEF Right
<1>2. ASSUME NEW c \in Calls, Advances(c) PROVE DInv'
  <2>1. UNCHANGED <<subs, removed, closed, targets>>
    BY <1>2 DEF Advances, HandlerAcks, HandlerFails, Retry, LetterHandled,
                NextTarget
  <2>2. Right(c)
    BY <1>2, AcksRight, FailsRight, RetryRight, LetterHandledRight,
       NextTargetRight DEF Advances
  <2>3. /\ targets' \in [Calls -> Nat]
        /\ \A d \in Calls \ {c} : targets'[d] = targets[d]
    BY <2>1 DEF DInv, Typed
  <2> QED
    BY <2>1, <2>2, <2>3, MoveKeeps DEF Right
<1>3. CASE Tick \/ UNCHANGED vars
  <2>1. UNCHANGED <<subs, removed, closed, rr, call, targets, outcomes>>
    BY <1>3 DEF Tick, vars
  <2>2. SubsRight'
    BY <2>1 DEF DInv, SubsRight
  <2> QED
    BY <2>1, <2>2, SubsKeep DEF DInv, Typed
<1> QED
  BY <1>1, <1>2, <1>3, SubscribeKeeps, UnsubscribeKeeps, CloseKeeps DEF Next

(* What a step does to each call.                                          *)
LEMMA StepRight ==
    ASSUME IInv, DInv, [Next]_vars, NEW c \in Calls
    PROVE  /\ ReasonOf(c) /\ LettersOf(c)
           /\ call[c].at = "idle" /\ call'[c].at # "idle" => SetsOut(c)
<1>1. ASSUME NEW d \in Calls, Publish(d)
      PROVE  /\ ReasonOf(c) /\ LettersOf(c)
             /\ call[c].at = "idle" /\ call'[c].at # "idle" => SetsOut(c)
  <2>1. Right(d) /\ SetsOut(d)
    BY <1>1, PublishRight
  <2>2. CASE c = d
    BY <2>1, <2>2 DEF Right
  <2>3. CASE c # d
    <3>1. call'[c] = call[c] /\ outcomes'[c] = outcomes[c]
      BY <2>1, <2>3 DEF Right, Moves
    <3> QED
      BY <3>1, NoChangeNoLetter
  <2> QED
    BY <2>2, <2>3
<1>2. ASSUME NEW d \in Calls, Advances(d)
      PROVE  /\ ReasonOf(c) /\ LettersOf(c)
             /\ call[c].at = "idle" /\ call'[c].at # "idle" => SetsOut(c)
  <2>1. Right(d)
    BY <1>2, AcksRight, FailsRight, RetryRight, LetterHandledRight,
       NextTargetRight DEF Advances
  <2>2. call[d].at # "idle"
    BY <1>2 DEF Advances, HandlerAcks, HandlerFails, Retry, LetterHandled,
                NextTarget
  <2>3. CASE c = d
    BY <2>1, <2>2, <2>3 DEF Right
  <2>4. CASE c # d
    <3>1. call'[c] = call[c] /\ outcomes'[c] = outcomes[c]
      BY <2>1, <2>4 DEF Right, Moves
    <3> QED
      BY <3>1, NoChangeNoLetter
  <2> QED
    BY <2>3, <2>4
<1>3. CASE UNCHANGED <<call, outcomes>>
  BY <1>3, NoChangeNoLetter
<1>4. ASSUME NEW s \in Subs, Subscribe(s) \/ Unsubscribe(s)
      PROVE  UNCHANGED <<call, outcomes>>
  BY <1>4 DEF Subscribe, Unsubscribe
<1>5. Close \/ Tick \/ UNCHANGED vars => UNCHANGED <<call, outcomes>>
  BY DEF Close, Tick, vars
<1> QED
  BY <1>1, <1>2, <1>3, <1>4, <1>5 DEF Next

-----------------------------------------------------------------------------
(* The theorems.                                                           *)

(* The inductive invariant holds in every reachable state.                 *)
THEOREM Invariance == Spec => []IInv
BY InitEstablishes, StepKeeps, PTL DEF Spec

(* A breaker is never left half-open: while it refuses everything for the  *)
(* sake of a trial, a trial is in flight (breakerAllows, recordSuccess and *)
(* recordFailure, with deliveries that began before the breaker opened).   *)
THEOREM HalfOpenIsAlwaysTried == Spec => []HalfOpenHasTrial
<1>1. IInv => HalfOpenHasTrial
  BY DEF IInv
<1> QED
  BY <1>1, Invariance, PTL

(* half-open and trialInFlight mean the same in every reachable state, so  *)
(* breakerAllows never lets a second delivery through a half-open breaker. *)
THEOREM HalfOpenRefuses == Spec => []FlagAgrees
<1>1. IInv => FlagAgrees
  BY DEF IInv
<1> QED
  BY <1>1, Invariance, PTL

(* The same for what is counted.                                           *)
THEOREM Counting == Spec => [](IInv /\ DInv)
<1>1. Init => IInv /\ DInv
  BY InitEstablishes, DInit
<1>2. IInv /\ DInv /\ [Next]_vars => (IInv /\ DInv)'
  BY StepKeeps, DStep
<1> QED
  BY <1>1, <1>2, PTL DEF Spec

(* A publish, a breaker and a round robin are where their types say.       *)
THEOREM TypeCorrect == Spec => []TypeOK
<1>1. IInv /\ DInv => TypeOK
  BY DEF IInv, DInv, Shape, Typed, SubsRight, TypeOK
<1> QED
  BY <1>1, Counting, PTL

(* Whatever a publish set out to deliver is handled, lettered, or still to *)
(* come, though groups empty, breakers open and the broker closes under it *)
(* (publish, deliver and deadLetter).                                      *)
THEOREM NothingIsLost == Spec => []NothingVanishes
<1>1. DInv => NothingVanishes
  BY DEF DInv, Balanced, Total, NothingVanishes
<1> QED
  BY <1>1, Counting, PTL

(* No message is dead-lettered as circuit_open but for a cooldown or for a *)
(* trial that is really in flight (breakerAllows).                         *)
THEOREM RefusalsHaveReasons == Spec => RefusedOnlyWithReason
<1>1. IInv /\ DInv /\ [Next]_vars =>
        [\A c \in Calls :
          outcomes'[c]["circuit_open"] > outcomes[c]["circuit_open"] =>
          LET s == call'[c].sub
          IN  \/ breaker[s].state = "open" /\ CoolingDown(s)
              \/ Trials(s) # {}]_vars
  BY StepRight DEF ReasonOf
<1> QED
  BY <1>1, Counting, PTL DEF Spec, RefusedOnlyWithReason

(* A publish sets out for the recipients the wildcards promise its subject *)
(* to, each once, and so does every dead letter, whoever came and went     *)
(* before (pick, matchSubject, deadLetter).                                *)
THEOREM EntitledAreReached == Spec => ReachesTheEntitled
<1>1. IInv /\ DInv /\ [Next]_vars =>
        [\A c \in Calls :
         LET after == call'[c]
             picked == ToSet(after.rest) \cup ({after.sub} \ {None})
         IN  /\ call[c].at = "idle" /\ after.at # "idle" =>
                  /\ Recipients(picked) = Entitled(Subject[c])
                  /\ targets'[c] = Cardinality(Entitled(Subject[c]))
             /\ (\E x \in Outcomes \ {"handled"} :
                   outcomes'[c][x] # outcomes[c][x]) =>
                LET entitled == Entitled(DeadLetterSubject(Subject[c]))
                IN  /\ Recipients(ToSet(after.letters)) = entitled
                    /\ Len(after.letters) = Cardinality(entitled)]_vars
  BY StepRight DEF SetsOut, LettersOf, LettersRight
<1> QED
  BY <1>1, Counting, PTL DEF Spec, ReachesTheEntitled
=============================================================================
