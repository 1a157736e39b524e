------------------------------- MODULE Broker --------------------------------
(***************************************************************************)
(* The in-process message broker of src/src/broker.ts, createMemoryBroker, *)
(* with its circuitBreaker option set: fan-out subscriptions and queue     *)
(* groups, redelivery with backoff, a breaker per subscription, and the    *)
(* dead-letter path.                                                       *)
(*                                                                         *)
(* A call of publish() delivers to its targets one after the other and     *)
(* suspends while a handler runs, while it sleeps before a retry, and      *)
(* while deadLetter runs.  What happens between two suspensions is one     *)
(* action; calls interleave at the suspensions only.                       *)
(*                                                                         *)
(* Data abstractions.  A queue stands for the pair (pattern, queue), so    *)
(* its members have one pattern; its name is not blank.  A letter is known *)
(* by the outcome of its call.  Backoff delays are left out, a retry may   *)
(* come at any time.  A handler acks or nacks; throwing is a nack.         *)
(*                                                                         *)
(* A definition introduced by "Fault" is a variant of the one after it     *)
(* with a bug; no specification here uses it.                              *)
(***************************************************************************)
EXTENDS Subjects, Integers, Sequences, FiniteSets, SequencesExt

CONSTANTS
    Subs,              \* subscriptions that may be made
    Queues,            \* queue groups
    Queue,             \* Queue[s] is the group of s, None for fan-out
    Pattern,           \* Pattern[s] is the pattern of s
    None,              \* an undefined value
    Calls,             \* calls of publish()
    Subject,           \* Subject[c] is what c publishes to
    MaxDeliver,        \* maxDeliver
    FailureThreshold,  \* circuitBreaker.failureThreshold
    Cooldown,          \* circuitBreaker.cooldownMs
    MaxTime            \* bound on the clock

ASSUME QueuesTyped == None \notin Queues /\ Queue \in [Subs -> Queues \cup {None}]
ASSUME OnePatternPerQueue ==
    \A s, t \in Subs : Queue[s] = Queue[t] /\ Queue[s] # None =>
        Pattern[s] = Pattern[t]
ASSUME NoneIsNoSub == None \notin Subs
ASSUME QueuesAreNoSubs == Subs \cap Queues = {}
ASSUME SubjectsTyped ==
    Subject \in [Calls -> Seq(STRING)] /\ Pattern \in [Subs -> Seq(STRING)]
ASSUME OptionsTyped ==
    /\ MaxDeliver \in Nat \ {0} /\ FailureThreshold \in Nat \ {0}
    /\ Cooldown \in Nat /\ MaxTime \in Nat

VARIABLES
    subs,      \* the live subscriptions, in subscription order
    removed,   \* the subscriptions made and removed
    closed,    \* close() was called
    rr,        \* queue -> the index its round robin is at
    breaker,   \* subscription -> its Breaker
    now,       \* the clock
    call,      \* call -> where its delivery is
    targets,   \* call -> how many targets it set out to deliver to
    outcomes   \* call -> how many of them had each outcome so far

vars == <<subs, removed, closed, rr, breaker, now, call, targets, outcomes>>

Breaker ==
    [state : {"closed", "open", "half-open"},
     failures : 0..(FailureThreshold - 1), openedAt : 0..MaxTime,
     trialInFlight : BOOLEAN]
(* trial tells whether the handler that runs was admitted as a trial, rest *)
(* the targets that remain, letters the subscriptions that remain of those *)
(* a dead letter goes to.                                                  *)
CallState ==
    [at : {"idle", "handling", "sleeping", "lettering", "returning", "done"},
     sub : Subs \cup {None}, attempt : 0..MaxDeliver, trial : BOOLEAN,
     rest : Seq(Subs), letters : Seq(Subs)]
Outcomes == {"handled", "max_deliver_exhausted", "circuit_open"}

TypeOK ==
    /\ subs \in Seq(Subs) /\ removed \subseteq Subs
    /\ closed \in BOOLEAN
    /\ rr \in [Queues -> Nat]
    /\ breaker \in [Subs -> Breaker]
    /\ now \in 0..MaxTime
    /\ call \in [Calls -> CallState]
    /\ targets \in [Calls -> Nat]
    /\ outcomes \in [Calls -> [Outcomes -> Nat]]

Idle == [at |-> "idle", sub |-> None, attempt |-> 0, trial |-> FALSE,
         rest |-> <<>>, letters |-> <<>>]

Init ==
    /\ subs = <<>> /\ removed = {}
    /\ closed = FALSE
    /\ rr = [q \in Queues |-> 0]
    /\ breaker = [s \in Subs |-> [state |-> "closed", failures |-> 0,
                                  openedAt |-> 0, trialInFlight |-> FALSE]]
    /\ now = 0
    /\ call = [c \in Calls |-> Idle]
    /\ targets = [c \in Calls |-> 0]
    /\ outcomes = [c \in Calls |-> [x \in Outcomes |-> 0]]

-----------------------------------------------------------------------------
(* pick.                                                                   *)

(* The elements of s that are in S, in their order.                        *)
Only(s, S) ==
    LET only[i \in 0..Len(s)] ==
          IF i = 0 THEN <<>>
          ELSE IF s[i] \in S THEN Append(only[i - 1], s[i]) ELSE only[i - 1]
    IN  only[Len(s)]

Members(q) == Only(subs, {s \in Subs : Queue[s] = q})

(* What is published: messages and their dead letters.                     *)
Published == UNION {{Subject[c], DeadLetterSubject(Subject[c])} : c \in Calls}
Matching ==
    [subject \in Published |->
        {s \in Subs : MatchSubject(subject, Pattern[s])}]

(* The member a group picks when the round robins are at robins.           *)
Chosen(q, robins) == Members(q)[1 + (robins[q] % Len(Members(q)))]

(* The round robins after each of these groups has picked.                 *)
Advanced(queues, robins) ==
    [q \in Queues |-> IF q \in queues /\ Members(q) # <<>>
                      THEN 1 + (robins[q] % Len(Members(q))) ELSE robins[q]]

FanOut == {s \in Subs : Queue[s] = None}
(* Of every group the first member, at whose place pick() lists the group. *)
Leading == {s \in ToSet(subs) \ FanOut : s = Members(Queue[s])[1]}

(* Every fan-out subscription that matches, then one member of every group *)
(* that does: all members of a group match, or none.                       *)
Pick(subject, robins) ==
    LET leaders == Only(subs, Matching[subject] \cap Leading)
    IN  Only(subs, Matching[subject] \cap FanOut)
          \o [i \in 1..Len(leaders) |-> Chosen(Queue[leaders[i]], robins)]

AfterPick(subject, robins) ==
    Advanced({Queue[s] : s \in Matching[subject]}, robins)

-----------------------------------------------------------------------------
(* The breaker.                                                            *)

CoolingDown(s) == now - breaker[s].openedAt < Cooldown

(* breakerAllows.                                                          *)
Allows(s) ==
    LET b == breaker[s]
    IN  CASE b.state = "closed" -> TRUE
          [] b.state = "open" -> ~CoolingDown(s) /\ ~b.trialInFlight
          [] b.state = "half-open" -> ~b.trialInFlight

Admitted(s) ==
    IF breaker[s].state # "open" THEN breaker
    ELSE [breaker EXCEPT ![s].state = "half-open", ![s].trialInFlight = TRUE]

(* Fault: only the failures are forgotten.                                 *)
RecordSuccessCounting(s) == breaker' = [breaker EXCEPT ![s].failures = 0]

RecordSuccess(s) ==
    breaker' = [breaker EXCEPT ![s].failures = 0, ![s].state = "closed",
                               ![s].trialInFlight = FALSE]

Opened(b, trialInFlight) ==
    [state |-> "open", failures |-> 0, openedAt |-> now,
     trialInFlight |-> trialInFlight]

(* Fault: a failed trial is still taken to be in flight.                   *)
RecordFailureKeepingTrial(s) ==
    LET b == breaker[s]
    IN  breaker' = [breaker EXCEPT ![s] =
          IF b.state = "half-open" \/ b.failures + 1 >= FailureThreshold
          THEN Opened(b, b.trialInFlight)
          ELSE [b EXCEPT !.failures = @ + 1]]

(* Fault: a breaker opens one failure too late.                            *)
RecordFailureLate(s) ==
    LET b == breaker[s]
    IN  breaker' = [breaker EXCEPT ![s] =
          IF b.state = "half-open" THEN Opened(b, FALSE)
          ELSE IF b.failures + 1 > FailureThreshold
               THEN Opened(b, b.trialInFlight)
               ELSE [b EXCEPT !.failures = @ + 1]]

(* recordFailure.  A breaker that is already open counts failures of older *)
(* deliveries too, and opens again from now.                               *)
RecordFailure(s) ==
    LET b == breaker[s]
    IN  breaker' = [breaker EXCEPT ![s] =
          IF b.state = "half-open" THEN Opened(b, FALSE)
          ELSE IF b.failures + 1 >= FailureThreshold
               THEN Opened(b, b.trialInFlight)
               ELSE [b EXCEPT !.failures = @ + 1]]

-----------------------------------------------------------------------------
(* deliver.                                                                *)

Count(c, outcome) == outcomes' = [outcomes EXCEPT ![c][outcome] = @ + 1]

(* deadLetter, up to its first await: who gets the letter is picked at the *)
(* start, and the message is lost to s.                                    *)
DeadLetter(c, s, rest, reason, robins) ==
    LET subject == DeadLetterSubject(Subject[c])
        letters == Pick(subject, robins)
    IN  /\ Count(c, reason)
        /\ rr' = AfterPick(subject, robins)
        /\ call' = [call EXCEPT ![c] =
              [Idle EXCEPT !.at = IF letters = <<>> THEN "returning"
                                                    ELSE "lettering",
                           !.sub = s, !.rest = rest, !.letters = letters]]

(* The head of deliver: the handler is called, or the message becomes a    *)
(* circuit_open letter.                                                    *)
Deliver(c, s, attempt, rest, robins) ==
    IF Allows(s)
    THEN /\ breaker' = Admitted(s)
         /\ rr' = robins
         /\ call' = [call EXCEPT ![c] =
               [at |-> "handling", sub |-> s, attempt |-> attempt,
                trial |-> breaker[s].state = "open", rest |-> rest,
                letters |-> <<>>]]
         /\ UNCHANGED outcomes
    ELSE /\ DeadLetter(c, s, rest, "circuit_open", robins)
         /\ UNCHANGED breaker

Publish(c) ==
    LET picked == Pick(Subject[c], rr)
    IN  /\ call[c].at = "idle"
        /\ ~closed
        /\ ValidSubject(Subject[c], FALSE)
        /\ targets' = [targets EXCEPT ![c] = Len(picked)]
        /\ IF picked = <<>>
           THEN /\ call' = [call EXCEPT ![c].at = "done"]
                /\ UNCHANGED <<rr, breaker, outcomes>>
           ELSE Deliver(c, Head(picked), 1, Tail(picked),
                        AfterPick(Subject[c], rr))
        /\ UNCHANGED <<subs, removed, closed, now>>

HandlerAcks(c) ==
    /\ call[c].at = "handling"
    /\ RecordSuccess(call[c].sub)
    /\ Count(c, "handled")
    /\ call' = [call EXCEPT ![c] =
                    [Idle EXCEPT !.at = "returning", !.rest = call[c].rest]]
    /\ UNCHANGED <<subs, removed, closed, rr, now, targets>>

HandlerFails(c) ==
    /\ call[c].at = "handling"
    /\ RecordFailure(call[c].sub)
    /\ IF call[c].attempt >= MaxDeliver
       THEN DeadLetter(c, call[c].sub, call[c].rest,
                       "max_deliver_exhausted", rr)
       ELSE /\ call' = [call EXCEPT ![c].at = "sleeping", ![c].trial = FALSE]
            /\ UNCHANGED <<rr, outcomes>>
    /\ UNCHANGED <<subs, removed, closed, now, targets>>

(* Faults: the message is dropped, or waits, when its group is empty.      *)
RetryIfAny(c) ==
    /\ call[c].at = "sleeping"
    /\ LET s == call[c].sub
           q == Queue[s]
       IN  IF q # None /\ Members(q) = <<>>
           THEN /\ call' = [call EXCEPT ![c].at = "returning"]
                /\ UNCHANGED <<breaker, outcomes, rr>>
           ELSE Deliver(c, IF q = None THEN s ELSE Chosen(q, rr),
                        call[c].attempt + 1, call[c].rest, Advanced({q}, rr))
    /\ UNCHANGED <<subs, removed, closed, now, targets>>
RetryWhenAny(c) ==
    /\ call[c].at = "sleeping"
    /\ Queue[call[c].sub] # None => Members(Queue[call[c].sub]) # <<>>
    /\ RetryIfAny(c)

(* A fan-out subscription gets its own retries, even when it has been      *)
(* removed; a group's go round the group, or to the last member tried when *)
(* none is left.                                                           *)
Retry(c) ==
    /\ call[c].at = "sleeping"
    /\ LET s == call[c].sub
           q == Queue[s]
       IN  Deliver(c, IF q = None \/ Members(q) = <<>>
                      THEN s ELSE Chosen(q, rr),
                   call[c].attempt + 1, call[c].rest, Advanced({q}, rr))
    /\ UNCHANGED <<subs, removed, closed, now, targets>>

(* A letter is handled whatever its handler does, with no breaker asked.   *)
LetterHandled(c) ==
    /\ call[c].at = "lettering"
    /\ LET left == Tail(call[c].letters)
       IN  call' = [call EXCEPT ![c].letters = left,
                       ![c].at = IF left = <<>> THEN "returning" ELSE @]
    /\ UNCHANGED <<subs, removed, closed, rr, breaker, now, targets, outcomes>>

(* publish() goes on to the next target it picked at the start.            *)
NextTarget(c) ==
    /\ call[c].at = "returning"
    /\ IF call[c].rest = <<>>
       THEN /\ call' = [call EXCEPT ![c] = [Idle EXCEPT !.at = "done"]]
            /\ UNCHANGED <<rr, breaker, outcomes>>
       ELSE Deliver(c, Head(call[c].rest), 1, Tail(call[c].rest), rr)
    /\ UNCHANGED <<subs, removed, closed, now, targets>>

-----------------------------------------------------------------------------
(* Subscriptions and the clock.                                            *)

Subscribe(s) ==
    /\ ~closed
    /\ ValidSubject(Pattern[s], TRUE)
    /\ s \notin removed \cup ToSet(subs)
    /\ subs' = Append(subs, s)
    /\ UNCHANGED <<removed, closed, rr, breaker, now, call, targets, outcomes>>

Unsubscribe(s) ==
    /\ s \in ToSet(subs)
    /\ subs' = Only(subs, Subs \ {s})
    /\ removed' = removed \cup {s}
    /\ UNCHANGED <<closed, rr, breaker, now, call, targets, outcomes>>

Close ==
    /\ ~closed
    /\ closed' = TRUE
    /\ subs' = <<>>
    /\ removed' = removed \cup ToSet(subs)
    /\ UNCHANGED <<rr, breaker, now, call, targets, outcomes>>

Tick ==
    /\ now < MaxTime
    /\ now' = now + 1
    /\ UNCHANGED <<subs, removed, closed, rr, breaker, call, targets, outcomes>>

(* Handlers answer, timers fire and the event loop resumes what awaits: a  *)
(* call that is under way takes its next step.                             *)
Advances(c) ==
    HandlerAcks(c) \/ HandlerFails(c) \/ Retry(c) \/ LetterHandled(c) \/ NextTarget(c)

Next ==
    \/ \E c \in Calls : Publish(c) \/ Advances(c)
    \/ \E s \in Subs : Subscribe(s) \/ Unsubscribe(s)
    \/ Close
    \/ Tick

Spec == Init /\ [][Next]_vars

Fairness == \A c \in Calls : WF_vars(Advances(c))

FairSpec == Spec /\ Fairness

-----------------------------------------------------------------------------
(* Properties.                                                             *)

InFlight(s) == {c \in Calls : call[c].at = "handling" /\ call[c].sub = s}
Trials(s) == {c \in InFlight(s) : call[c].trial}

(* A breaker that waits for a trial has one in flight, whatever deliveries *)
(* from before it opened report meanwhile, so it is never left half-open.  *)
HalfOpenHasTrial ==
    \A s \in Subs :
        breaker[s].state = "half-open" \/ breaker[s].trialInFlight =>
            Trials(s) # {}

(* Every target a publish set out to reach is handled or dead-lettered,    *)
(* once, also when subscriptions go away or the broker closes meanwhile.   *)
NothingVanishes ==
    \A c \in Calls :
        targets[c] = outcomes[c]["handled"]
          + outcomes[c]["max_deliver_exhausted"] + outcomes[c]["circuit_open"]
          + Len(call[c].rest)
          + (IF call[c].at \in {"handling", "sleeping"} THEN 1 ELSE 0)

(* A message is dead-lettered as circuit_open only while its consumer      *)
(* cools down, or is being tried by another delivery.                      *)
RefusedOnlyWithReason ==
    [][\A c \in Calls :
         outcomes'[c]["circuit_open"] > outcomes[c]["circuit_open"] =>
         LET s == call'[c].sub
         IN  \/ breaker[s].state = "open" /\ CoolingDown(s)
             \/ Trials(s) # {}]_vars

(* Subscriptions told apart up to their group.                             *)
Recipient(s) == IF Queue[s] = None THEN s ELSE Queue[s]
Recipients(S) == {Recipient(s) : s \in S}
Entitled(subject) ==
    Recipients({s \in ToSet(subs) : Covers(Pattern[s], subject)})

(* A publish sets out for whom the wildcards promise its subject to, and a *)
(* dead letter for whom they promise the dead-letter subject to: for each  *)
(* group once, and for nobody else, while subscriptions come and go.       *)
ReachesTheEntitled ==
    [][\A c \in Calls :
         LET after == call'[c]
             picked == ToSet(after.rest) \cup ({after.sub} \ {None})
         IN  /\ call[c].at = "idle" /\ after.at # "idle" =>
                  /\ Recipients(picked) = Entitled(Subject[c])
                  /\ targets'[c] = Cardinality(Entitled(Subject[c]))
             /\ (\E x \in Outcomes \ {"handled"} :
                   outcomes'[c][x] # outcomes[c][x]) =>
                LET entitled == Entitled(DeadLetterSubject(Subject[c]))
                IN  /\ Recipients(ToSet(after.letters)) = entitled
                    /\ Len(after.letters) = Cardinality(entitled)]_vars

(* Every publish returns, provided that handlers do.                       *)
PublishReturns ==
    \A c \in Calls : call[c].at # "idle" ~> call[c].at = "done"

(* "allows only one concurrent half-open trial" (test/resilience.test.ts). *)
OneTrial ==
    \A s \in Subs : \A c, d \in Trials(s) : c = d

(* "a consumer that fails repeatedly trips its breaker and gets            *)
(* short-circuited until a cooldown lets one half-open trial through"      *)
(* (README.md): an open breaker does not close but by a trial.             *)
OpenUntilTrial ==
    [][\A s \in Subs : breaker[s].state = "open" =>
         breaker'[s].state \in {"open", "half-open"}]_vars
=============================================================================
