------------------------------ MODULE Subjects -------------------------------
(***************************************************************************)
(* The subjects and patterns of src/src/broker.ts, as sequences of tokens: *)
(* what split('.') makes of the strings.                                   *)
(*                                                                         *)
(* A definition introduced by "Fault" is a variant of the one after it     *)
(* with a bug; no specification here uses it.                              *)
(***************************************************************************)
EXTENDS Naturals, Sequences

(* Stands for the tokens that hold white space or, among other characters, *)
(* a wildcard.                                                             *)
Malformed == "mal*formed"

(* validSubject.                                                           *)
ValidSubject(value, wildcards) ==
    /\ value # <<>>
    /\ \A i \in 1..Len(value) :
          /\ value[i] \notin {"", Malformed}
          /\ value[i] = "*" => wildcards
          /\ value[i] = ">" => wildcards /\ i = Len(value)

(* Fault: a pattern that the subject goes beyond matches it.               *)
MatchPrefix(s, p) ==
    /\ ValidSubject(s, FALSE) /\ ValidSubject(p, TRUE)
    /\ \A i \in 1..Len(p) : i <= Len(s) /\ p[i] \in {"*", ">", s[i]}

(* matchSubject: the tokens of the pattern are taken off the subject one   *)
(* by one.                                                                 *)
MatchSubject(s, p) ==
    /\ ValidSubject(s, FALSE) /\ ValidSubject(p, TRUE)
    /\ LET matchesFrom[i \in 1..(Len(p) + 1)] ==
             IF i > Len(p) THEN i = Len(s) + 1
             ELSE /\ i <= Len(s)
                  /\ \/ p[i] = ">"
                     \/ p[i] \in {"*", s[i]} /\ matchesFrom[i + 1]
       IN  matchesFrom[1]

(* defaultDeadLetterSubject.                                               *)
DeadLetterSubject(subject) == <<"dlq">> \o subject

-----------------------------------------------------------------------------
(* What the wildcards promise, with no regard to how a match is found: a   *)
(* star is any token, and a greater-than sign any one or more.             *)
Covers(p, s) ==
    LET open == p[Len(p)] = ">"
    IN  /\ IF open THEN Len(s) >= Len(p) ELSE Len(s) = Len(p)
        /\ \A i \in 1..(IF open THEN Len(p) - 1 ELSE Len(p)) :
              p[i] = "*" \/ p[i] = s[i]
=============================================================================
