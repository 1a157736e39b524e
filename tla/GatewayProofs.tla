---------------------------- MODULE GatewayProofs -----------------------------
(***************************************************************************)
(* Proofs about Gateway for every set of requests, keys and bodies.  The   *)
(* inductive invariant says who holds a slot: the request that publishes   *)
(* (OwnersHold), and for good the one that finished (FinishedHold).        *)
(***************************************************************************)
EXTENDS Gateway, TLAPS

-----------------------------------------------------------------------------
(* The inductive invariant.                                                *)

(* An owner holds its key's slot until it answers or releases it.          *)
OwnersHold ==
    \A r \in Requests :
        at[r] \in {"publishing", "finishing", "failing"} => seen[Key[r]] = r

(* A finished request holds its slot for good, and its command is out.     *)
FinishedHold ==
    /\ \A r \in finished :
         /\ seen[Key[r]] = r
         /\ at[r] = "done"
         /\ r \in commands
    /\ \A r \in Requests : at[r] = "finishing" => r \in commands

(* Slots are found, and waited for, under their own key.                   *)
SlotsKeyed ==
    /\ \A k \in Keys : seen[k] # None => Key[seen[k]] = k
    /\ \A r \in Requests : waitsFor[r] # None => Key[waitsFor[r]] = Key[r]

(* A goroutine ends with its answer.                                       *)
DoneIsAnswered ==
    \A r \in Requests : answer[r] = None <=> at[r] # "done"

IInv ==
    /\ TypeOK
    /\ OwnersHold
    /\ FinishedHold
    /\ SlotsKeyed
    /\ DoneIsAnswered

-----------------------------------------------------------------------------
LEMMA InitIInv == Init => IInv
BY KeyTyped, NoneIsNoRequest
   DEF Init, IInv, TypeOK, OwnersHold, FinishedHold, SlotsKeyed, DoneIsAnswered

(* The responses of the handler are responses.                             *)
LEMMA ResponsesTyped ==
    /\ \A r \in Requests : Accepted(r) \in Responses /\ Accepted(r) # None
    /\ Conflict \in Responses /\ Conflict # None
    /\ Unavailable \in Responses /\ Unavailable # None
BY NoneIsNoResponse DEF Accepted, Conflict, Unavailable, Responses

(* What a step of one goroutine leaves to the others.                      *)
LEMMA GoesMovesOne ==
    ASSUME TypeOK, NEW r \in Requests, NEW from, NEW to, Goes(r, from, to)
    PROVE  /\ at[r] = from /\ at'[r] = to
           /\ \A s \in Requests \ {r} : at'[s] = at[s]
BY DEF TypeOK, Goes

LEMMA NextKeepsIInv == IInv /\ [Next]_vars => IInv'
<1> SUFFICES ASSUME IInv, [Next]_vars PROVE IInv'
  OBVIOUS
<1> USE KeyTyped, NoneIsNoRequest
<1>1. ASSUME NEW r \in Requests, Arrive(r) PROVE IInv'
  BY <1>1 DEF Arrive, Goes, IInv, TypeOK, OwnersHold, FinishedHold,
              SlotsKeyed, DoneIsAnswered
<1>2. ASSUME NEW r \in Requests, Claim(r) PROVE IInv'
  BY <1>2 DEF Claim, Goes, IInv, TypeOK, OwnersHold, FinishedHold,
              SlotsKeyed, DoneIsAnswered
<1>3. ASSUME NEW r \in Requests, Join(r) PROVE IInv'
  BY <1>3 DEF Join, Goes, IInv, TypeOK, OwnersHold, FinishedHold,
              SlotsKeyed, DoneIsAnswered
<1>4. ASSUME NEW r \in Requests, StartOver(r) PROVE IInv'
  BY <1>4 DEF StartOver, Goes, IInv, TypeOK, OwnersHold, FinishedHold,
              SlotsKeyed, DoneIsAnswered
<1>5. ASSUME NEW r \in Requests, Repeat(r) PROVE IInv'
  <2>1. PICK a \in Responses : a # None /\ Answers(r, a)
    BY <1>5, ResponsesTyped DEF Repeat, IInv, TypeOK
  <2> QED
    BY <1>5, <2>1 DEF Repeat, Answers, Goes, IInv, TypeOK, OwnersHold,
       FinishedHold, SlotsKeyed, DoneIsAnswered
<1>6. ASSUME NEW r \in Requests, Publish(r) PROVE IInv'
  BY <1>6 DEF Publish, Goes, IInv, TypeOK, OwnersHold, FinishedHold,
              SlotsKeyed, DoneIsAnswered
<1>7. ASSUME NEW r \in Requests, Finish(r) PROVE IInv'
  <2>1. PICK a \in Responses : a # None /\ Answers(r, a)
    BY <1>7, ResponsesTyped DEF Finish
  <2> QED
    BY <1>7, <2>1 DEF Finish, Answers, Goes, IInv, TypeOK, OwnersHold,
       FinishedHold, SlotsKeyed, DoneIsAnswered
<1>8. ASSUME NEW r \in Requests, Release(r) PROVE IInv'
  BY <1>8 DEF Release, Goes, IInv, TypeOK, OwnersHold, FinishedHold,
              SlotsKeyed, DoneIsAnswered
<1>9. ASSUME NEW r \in Requests, Close(r) PROVE IInv'
  <2>1. Answers(r, Unavailable) /\ Unavailable \in Responses
        /\ Unavailable # None
    BY <1>9, ResponsesTyped DEF Close
  <2> QED
    BY <1>9, <2>1 DEF Close, Answers, Goes, IInv, TypeOK, OwnersHold,
       FinishedHold, SlotsKeyed, DoneIsAnswered
<1>10. CASE UNCHANGED vars
  BY <1>10 DEF vars, IInv, TypeOK, OwnersHold, FinishedHold, SlotsKeyed,
     DoneIsAnswered
<1> QED
  BY <1>1, <1>2, <1>3, <1>4, <1>5, <1>6, <1>7, <1>8, <1>9, <1>10
     DEF Next, Proceed

(* The inductive invariant holds in every reachable state.                 *)
THEOREM Invariance == Spec => []IInv
BY InitIInv, NextKeepsIInv, PTL DEF Spec

(* Every reachable state is well typed: nobody waits for a slot that is    *)
(* not there.                                                              *)
THEOREM TypeCorrect == Spec => []TypeOK
<1>1. IInv => TypeOK
  BY DEF IInv
<1> QED
  BY <1>1, Invariance, PTL

(* At most one request of a key is between its claim and its answer or     *)
(* release: both would hold the key's only slot.                           *)
THEOREM OneOwnerPerKey == Spec => []OneOwner
<1>1. IInv => OneOwner
  BY DEF IInv, OwnersHold, OneOwner
<1> QED
  BY <1>1, Invariance, PTL

-----------------------------------------------------------------------------
(* Who is told what.                                                       *)

(* A request whose command is out is answered for itself or not at all,    *)
(* and one that is accepted for itself has finished.                       *)
OwnersAnswered ==
    /\ \A r \in Requests :
         at[r] \in {"new", "begin", "waiting"} => r \notin commands
    /\ \A r \in commands : answer[r] \in {None, Unavailable, Accepted(r)}
    /\ \A r \in Requests : answer[r] = Accepted(r) => r \in finished

LEMMA NextKeepsAnswers == IInv /\ OwnersAnswered /\ [Next]_vars => OwnersAnswered'
<1> SUFFICES ASSUME IInv, OwnersAnswered, [Next]_vars PROVE OwnersAnswered'
  OBVIOUS
<1>1. ASSUME NEW r \in Requests,
             \/ Arrive(r) \/ Claim(r) \/ Join(r) \/ StartOver(r)
             \/ Publish(r) \/ Release(r)
      PROVE  OwnersAnswered'
  <2>1. answer' = answer /\ finished' = finished
    BY <1>1 DEF Arrive, Claim, Join, StartOver, Publish, Release
  <2>2. answer[r] = None
    BY <1>1 DEF Arrive, Claim, Join, StartOver, Publish, Release, Goes, IInv,
       DoneIsAnswered
  <2>3. \A s \in Requests : at'[s] \in {"new", "begin", "waiting"} =>
                                s \notin commands'
    BY <1>1 DEF Arrive, Claim, Join, StartOver, Publish, Release, Goes, IInv,
       TypeOK, OwnersAnswered
  <2>4. commands' \subseteq commands \cup {r}
    BY <1>1 DEF Arrive, Claim, Join, StartOver, Publish, Release
  <2> QED
    BY <2>1, <2>2, <2>3, <2>4 DEF OwnersAnswered, Unavailable, Accepted
<1>2. ASSUME NEW r \in Requests, Repeat(r) PROVE OwnersAnswered'
  <2>1. /\ r \notin commands /\ waitsFor[r] \in finished
        /\ commands' = commands /\ finished' = finished
    BY <1>2 DEF Repeat, Goes, OwnersAnswered
  <2>2. \A s \in Requests : at'[s] \in {"new", "begin", "waiting"} =>
                                s \notin commands'
    BY <1>2 DEF Repeat, Goes, IInv, TypeOK, OwnersAnswered
  <2>3. /\ \A s \in Requests \ {r} : answer'[s] = answer[s]
        /\ answer'[r] \in {Accepted(waitsFor[r]), Conflict}
    BY <1>2 DEF Repeat, Answers, IInv, TypeOK
  <2>4. answer'[r] = Accepted(r) => r \in finished
    BY <2>1, <2>3 DEF Accepted, Conflict
  <2>5. commands \subseteq Requests
    BY DEF IInv, TypeOK
  <2>6. \A s \in commands' : answer'[s] \in {None, Unavailable, Accepted(s)}
    BY <2>1, <2>3, <2>5 DEF OwnersAnswered
  <2>7. \A s \in Requests : answer'[s] = Accepted(s) => s \in finished'
    BY <2>1, <2>3, <2>4 DEF OwnersAnswered
  <2> QED
    BY <2>2, <2>6, <2>7 DEF OwnersAnswered, Accepted, Unavailable
<1>3. ASSUME NEW r \in Requests, Finish(r) \/ Close(r) PROVE OwnersAnswered'
  <2>1. /\ commands' = commands
        /\ finished \subseteq finished'
        /\ Finish(r) => r \in finished'
    BY <1>3 DEF Finish, Close
  <2>2. \A s \in Requests : at'[s] \in {"new", "begin", "waiting"} =>
                                s \notin commands'
    BY <1>3 DEF Finish, Close, Goes, IInv, TypeOK, OwnersAnswered
  <2>3. /\ \A s \in Requests \ {r} : answer'[s] = answer[s]
        /\ \/ Finish(r) /\ answer'[r] = Accepted(r)
           \/ answer'[r] = Unavailable
    BY <1>3 DEF Finish, Close, Answers, IInv, TypeOK
  <2>4. commands \subseteq Requests /\ Unavailable # Accepted(r)
    BY DEF IInv, TypeOK, Unavailable, Accepted
  <2>5. \A s \in commands' : answer'[s] \in {None, Unavailable, Accepted(s)}
    BY <2>1, <2>3, <2>4 DEF OwnersAnswered
  <2>6. \A s \in Requests : answer'[s] = Accepted(s) => s \in finished'
    BY <2>1, <2>3, <2>4 DEF OwnersAnswered
  <2> QED
    BY <2>2, <2>5, <2>6 DEF OwnersAnswered, Accepted, Unavailable
<1>4. CASE UNCHANGED vars
  BY <1>4 DEF vars, OwnersAnswered, Accepted, Unavailable
<1> QED
  BY <1>1, <1>2, <1>3, <1>4 DEF Next, Proceed

LEMMA InitAnswers == Init => OwnersAnswered
BY NoneIsNoResponse DEF Init, OwnersAnswered, Accepted, Responses

-----------------------------------------------------------------------------
(* Refinement of IdempotentKeys.                                           *)

LEMMA InitMaps == Init => KeysSpec!Init
BY DEF Init, KeysSpec!Init, Taken

LEMMA NextMaps == IInv /\ [Next]_vars => [KeysSpec!Next]_(KeysSpec!vars)
<1> SUFFICES ASSUME IInv, [Next]_vars
             PROVE  KeysSpec!Next \/ UNCHANGED KeysSpec!vars
  BY DEF KeysSpec!vars
<1> USE KeyTyped, NoneIsNoRequest
<1> DEFINE taken == [k \in Keys |-> Taken(k)]
<1>1. ASSUME seen' = seen, finished' = finished PROVE taken' = taken
  BY <1>1 DEF Taken
<1>2. ASSUME NEW r \in Requests, Arrive(r) \/ Join(r) \/ StartOver(r)
      PROVE  UNCHANGED KeysSpec!vars
  BY <1>1, <1>2 DEF Arrive, Join, StartOver, KeysSpec!vars
<1>3. ASSUME NEW r \in Requests, Claim(r) PROVE UNCHANGED KeysSpec!vars
  <2>1. r \notin finished /\ None \notin finished
    BY <1>3 DEF Claim, Goes, IInv, TypeOK, FinishedHold
  <2>2. ASSUME NEW k \in Keys PROVE Taken(k)' = Taken(k)
    BY <1>3, <2>1 DEF Claim, Taken, IInv, TypeOK
  <2> QED
    BY <1>3, <2>2 DEF Claim, KeysSpec!vars
<1>4. ASSUME NEW r \in Requests, Release(r) PROVE UNCHANGED KeysSpec!vars
  <2>1. r \notin finished /\ None \notin finished
    BY <1>4 DEF Release, Goes, IInv, TypeOK, FinishedHold
  <2>2. ASSUME NEW k \in Keys PROVE Taken(k)' = Taken(k)
    BY <1>4, <2>1 DEF Release, Taken, IInv, TypeOK
  <2> QED
    BY <1>4, <2>2 DEF Release, KeysSpec!vars
<1>5. ASSUME NEW r \in Requests, Repeat(r) PROVE KeysSpec!Repeat(r)
  <2> DEFINE s == waitsFor[r]
  <2>1. s \in finished /\ s \in Requests /\ Key[s] = Key[r] /\ seen[Key[r]] = s
    BY <1>5 DEF Repeat, IInv, TypeOK, FinishedHold, SlotsKeyed
  <2>2. taken[Key[r]] = s /\ s # None
    BY <2>1 DEF Taken
  <2>3. answer[r] = None
    BY <1>5 DEF Repeat, Goes, IInv, DoneIsAnswered
  <2>4. UNCHANGED <<commands, seen, finished>> /\ taken' = taken
    BY <1>5, <1>1 DEF Repeat
  <2> QED
    BY <1>5, <2>2, <2>3, <2>4 DEF Repeat, Answers, KeysSpec!Repeat,
       KeysSpec!Answer, Accepted, Conflict, KeysSpec!Accepted,
       KeysSpec!Conflict
<1>6. ASSUME NEW r \in Requests, Publish(r)
      PROVE  KeysSpec!Send(r) \/ UNCHANGED KeysSpec!vars
  <2>1. answer[r] = None
    BY <1>6 DEF Publish, Goes, IInv, DoneIsAnswered
  <2>2. taken' = taken /\ answer' = answer
    BY <1>6, <1>1 DEF Publish
  <2>3. commands' = commands \/ commands' = commands \cup {r}
    BY <1>6 DEF Publish
  <2> QED
    BY <2>1, <2>2, <2>3 DEF KeysSpec!Send, KeysSpec!vars
<1>7. ASSUME NEW r \in Requests, Finish(r) PROVE KeysSpec!Take(r)
  <2>1. seen[Key[r]] = r /\ r \notin finished /\ r \in commands
    BY <1>7 DEF Finish, Goes, IInv, TypeOK, OwnersHold, FinishedHold
  <2>2. taken[Key[r]] = None /\ answer[r] = None
    BY <1>7, <2>1 DEF Taken, Finish, Goes, IInv, DoneIsAnswered
  <2>3. ASSUME NEW k \in Keys
        PROVE  Taken(k)' = IF k = Key[r] THEN r ELSE Taken(k)
    BY <1>7, <2>1, <2>3 DEF Finish, Taken, IInv, TypeOK, SlotsKeyed
  <2>4. taken' = [taken EXCEPT ![Key[r]] = r]
    BY <2>3
  <2> QED
    BY <1>7, <2>1, <2>2, <2>4 DEF Finish, Answers, KeysSpec!Take,
       KeysSpec!Answer, Accepted, KeysSpec!Accepted
<1>8. ASSUME NEW r \in Requests, Close(r) PROVE KeysSpec!GiveUp(r)
  <2>1. answer[r] = None /\ taken' = taken
    BY <1>8, <1>1 DEF Close, Goes, IInv, DoneIsAnswered
  <2> QED
    BY <1>8, <2>1 DEF Close, Answers, KeysSpec!GiveUp, KeysSpec!Answer,
       Unavailable, KeysSpec!Unavailable
<1>9. CASE UNCHANGED vars
  BY <1>1, <1>9 DEF vars, KeysSpec!vars
<1> QED
  BY <1>2, <1>3, <1>4, <1>5, <1>6, <1>7, <1>8, <1>9
     DEF Next, Proceed, KeysSpec!Next

(* A key is taken once, for good and only with its command on the broker,  *)
(* and every user of a taken key gets the answer of the request that took  *)
(* it, or a conflict.                                                      *)
THEOREM Refinement == Spec => ImplementsIdempotentKeys
BY InitMaps, NextMaps, Invariance, PTL
   DEF Spec, ImplementsIdempotentKeys, KeysSpec!Spec
=============================================================================
