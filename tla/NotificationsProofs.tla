-------------------------- MODULE NotificationsProofs -------------------------
(***************************************************************************)
(* Proofs about Notifications for every set of orders, messages, contacts  *)
(* and threads.  The inductive invariant ties a dispatch to the view of    *)
(* its order (DispatchesFit, ViewsFit) and a sending thread to both and to *)
(* the lock of its order (ThreadsFit).                                     *)
(***************************************************************************)
EXTENDS Notifications, TLAPS

-----------------------------------------------------------------------------
(* The inductive invariant.                                                *)

(* A dispatch is its order's, and sends only where it has an address.      *)
DispatchesFit ==
    \A m \in Messages : dispatch[m] # None =>
        /\ view[Msg[m].order].dispatch = m
        /\ \A c \in Channels :
             dispatch[m].channels[c] = "pending" =>
               c \in Wanted(m) /\ dispatch[m].to[c] # None

(* An order refers to messages of its own.                                 *)
ViewsFit ==
    \A o \in Orders :
        /\ view[o].dispatch # None =>
             dispatch[view[o].dispatch] # None /\ Msg[view[o].dispatch].order = o
        /\ view[o].parked # None => Msg[view[o].parked].order = o

(* A thread that sends holds the lock and sends what is pending.           *)
ThreadFits(t) ==
    /\ at[t] # "idle" => job[t] # None /\ outcome[t] = None
    /\ outcome[t] # None => job[t] # None
    /\ at[t] \in Channels =>
         /\ lock[OrderOf(t)] = t
         /\ sending[t] # None
         /\ view[OrderOf(t)].dispatch = sending[t]
         /\ dispatch[sending[t]].channels[at[t]] = "pending"

ThreadsFit == \A t \in Threads : ThreadFits(t)

DataInv ==
    /\ DispatchesFit
    /\ ViewsFit
    /\ ParkedUntilJoin
    /\ SentOnce
    /\ OneStory

IInv ==
    /\ TypeOK
    /\ DataInv
    /\ ThreadsFit
    /\ SettledForGood

-----------------------------------------------------------------------------
(* What a step of thread t, which handles a message of order o, may do.    *)

(* Nobody else is sending for the order of t.                              *)
Alone(t) ==
    /\ job[t] # None
    /\ \A s \in Threads \ {t} : at[s] \in Channels => OrderOf(s) # OrderOf(t)

ThreadTypes ==
    /\ lock \in [Orders -> Threads \cup {None}]
    /\ at \in [Threads -> {"idle", "waiting"} \cup Channels]
    /\ job \in [Threads -> Messages \cup {None}]
    /\ sending \in [Threads -> Messages \cup {None}]
    /\ outcome \in [Threads -> Outcomes \cup {None}]
    /\ \A o \in Orders :
         lock[o] # None => at[lock[o]] \in Channels /\ OrderOf(lock[o]) = o

Moved(t) ==
    /\ ThreadTypes'
    /\ job' = job
    /\ \A s \in Threads \ {t} :
         at'[s] = at[s] /\ sending'[s] = sending[s] /\ outcome'[s] = outcome[s]
    /\ \A o \in Orders \ {OrderOf(t)} : lock'[o] = lock[o]
    /\ at'[t] \in Channels => lock'[OrderOf(t)] = t /\ outcome'[t] = None
    /\ at'[t] \in Channels \cup {"idle"}

(* Decisions stay, and nothing becomes pending that was not.               *)
Grows(o) ==
    /\ \A p \in Orders : (p # o \/ view[p].dispatch # None) =>
         view'[p].dispatch = view[p].dispatch
    /\ \A m \in Messages : Msg[m].order # o => dispatch'[m] = dispatch[m]
    /\ \A m \in Messages : dispatch[m] # None =>
         \A c \in Channels : dispatch[m].channels[c] # "pending" =>
            dispatch'[m].channels[c] # "pending"

(* The dispatch that t goes on with, or has finished, is its order's.      *)
OwnFits(t) ==
    /\ at[t] \in Channels =>
         /\ sending[t] # None
         /\ view[OrderOf(t)].dispatch = sending[t]
         /\ dispatch[sending[t]].channels[at[t]] = "pending"
    /\ outcome[t] = "settled" =>
         LET m == view[OrderOf(t)].dispatch IN
         m # None /\ \A c \in Channels : dispatch[m].channels[c] # "pending"

LEMMA OrderOfTyped ==
    ASSUME TypeOK, NEW t \in Threads, job[t] # None
    PROVE  job[t] \in Messages /\ OrderOf(t) \in Orders
BY MessagesTyped DEF TypeOK, OrderOf, Envelope

SentItem == [channel : Channels, to : Addresses, message : Messages]

LEMMA SentTyped ==
    ASSUME TypeOK, NEW o \in Orders
    PROVE  sent[o] \in Seq(SentItem) /\ \A i \in DOMAIN sent[o] : sent[o][i] \in SentItem
<1>1. sent[o] \in Seq(SentItem)
  BY DEF TypeOK, SentItem
<1> HIDE DEF SentItem
<1> QED
  BY <1>1

(* A lock is held by one thread only.                                      *)
LEMMA LockIsExclusive ==
    ASSUME IInv, NEW t \in Threads, Enters(t) \/ at[t] \in Channels
    PROVE  Alone(t)
BY NoneIsNoName DEF IInv, ThreadsFit, ThreadFits, Enters, Alone, Channels

LEMMA ThreadsKept ==
    ASSUME IInv, NEW t \in Threads, Alone(t), Moved(t), Grows(OrderOf(t)),
           OwnFits(t)'
    PROVE  ThreadsFit' /\ SettledForGood'
<1>1. OrderOf(t) \in Orders /\ job' = job
  BY OrderOfTyped DEF IInv, Alone, Moved
<1>2. \A s \in Threads : OrderOf(s)' = OrderOf(s)
  BY <1>1 DEF OrderOf
<1>3. ASSUME NEW s \in Threads \ {t} PROVE ThreadFits(s)'
  <2>1. ThreadFits(s) /\ at'[s] = at[s] /\ sending'[s] = sending[s]
        /\ outcome'[s] = outcome[s]
    BY DEF IInv, ThreadsFit, Moved
  <2>2. CASE at[s] \in Channels
    <3>1. job[s] # None /\ OrderOf(s) \in Orders /\ OrderOf(s) # OrderOf(t)
      BY <2>1, <2>2, OrderOfTyped DEF ThreadFits, Alone, Channels, IInv
    <3>2. sending[s] \in Messages /\ Msg[sending[s]].order = OrderOf(s)
      BY <2>1, <2>2, <3>1 DEF ThreadFits, IInv, TypeOK, DataInv, ViewsFit
    <3>3. /\ lock'[OrderOf(s)] = lock[OrderOf(s)]
          /\ view'[OrderOf(s)].dispatch = view[OrderOf(s)].dispatch
          /\ dispatch'[sending[s]] = dispatch[sending[s]]
      BY <3>1, <3>2 DEF Moved, Grows
    <3> QED
      BY <1>1, <1>2, <2>1, <2>2, <3>3 DEF ThreadFits
  <2>3. CASE at[s] \notin Channels
    BY <1>1, <2>1, <2>3 DEF ThreadFits
  <2> QED
    BY <2>2, <2>3
<1>4. ThreadFits(t)'
  BY <1>1, <1>2 DEF ThreadFits, Alone, Moved, OwnFits, Channels
<1>5. ASSUME NEW s \in Threads \ {t}, outcome'[s] = "settled"
      PROVE  LET m == view'[OrderOf(s)].dispatch IN
             m # None /\ \A c \in Channels : dispatch'[m].channels[c] # "pending"
  <2> DEFINE m == view[OrderOf(s)].dispatch
  <2>1. outcome[s] = "settled"
    BY <1>5 DEF Moved
  <2>2. m # None /\ \A c \in Channels : dispatch[m].channels[c] # "pending"
    BY <2>1 DEF IInv, SettledForGood
  <2>3. outcome[s] # None
    BY <2>1, NoneIsNoName DEF Outcomes
  <2>4. OrderOf(s) \in Orders
    BY <2>3, OrderOfTyped DEF IInv, ThreadsFit, ThreadFits
  <2>5. view'[OrderOf(s)].dispatch = m /\ m \in Messages /\ dispatch[m] # None
    BY <2>2, <2>4 DEF Grows, IInv, TypeOK, View, DataInv, ViewsFit
  <2> QED
    BY <2>2, <2>5 DEF Grows
<1>6. SettledForGood'
  BY <1>2, <1>5 DEF SettledForGood, OwnFits
<1> QED
  BY <1>3, <1>4, <1>6 DEF ThreadsFit
-----------------------------------------------------------------------------
(* The parts that steps are made of.                                       *)

LEMMA ReturnsMoves ==
    ASSUME TypeOK, NEW t \in Threads, job[t] # None, NEW kind \in Outcomes,
           lock[OrderOf(t)] \in {t, None}, Returns(t, kind)
    PROVE  Moved(t) /\ at'[t] = "idle" /\ outcome'[t] = kind
<1>1. OrderOf(t) \in Orders /\ job' = job /\ \A s \in Threads : OrderOf(s)' = OrderOf(s)
  BY OrderOfTyped DEF Returns, OrderOf
<1> QED
  BY <1>1, NoneIsNoName DEF TypeOK, Returns, Moved, ThreadTypes, Channels

LEMMA SendsMoves ==
    ASSUME TypeOK, NEW t \in Threads, job[t] # None, NEW m \in Messages,
           NEW d \in Dispatch,
           lock[OrderOf(t)] \in {t, None}, outcome[t] = None,
           Sends(t, m, d)
    PROVE  /\ Moved(t)
           /\ \/ /\ at'[t] \in Channels /\ d.channels[at'[t]] = "pending"
                 /\ sending'[t] = m /\ outcome'[t] = None
              \/ /\ at'[t] = "idle" /\ outcome'[t] = "settled"
                 /\ \A c \in Channels : d.channels[c] # "pending"
<1>1. ASSUME NEW c \in Channels, GoesTo(t, m, c)
      PROVE  Moved(t) /\ at'[t] = c /\ sending'[t] = m /\ outcome'[t] = None
  <2>1. OrderOf(t) \in Orders /\ job' = job
        /\ \A s \in Threads : OrderOf(s)' = OrderOf(s)
    BY <1>1, OrderOfTyped DEF GoesTo, OrderOf
  <2> QED
    BY <1>1, <2>1, NoneIsNoName DEF TypeOK, GoesTo, Moved, ThreadTypes, Channels
<1>2. ASSUME Returns(t, "settled")
      PROVE  Moved(t) /\ at'[t] = "idle" /\ outcome'[t] = "settled"
  BY <1>2, ReturnsMoves DEF Outcomes
<1> QED
  BY <1>1, <1>2 DEF Sends, Channels

(* A dispatch starts out pending exactly where there is an address.        *)
LEMMA NewDispatchTyped ==
    ASSUME TypeOK, NEW m \in Messages, NEW customer \in Customers
    PROVE  /\ NewDispatch(m, customer) \in Dispatch
           /\ \A c \in Channels :
                NewDispatch(m, customer).channels[c] = "pending" =>
                  c \in Wanted(m) /\ NewDispatch(m, customer).to[c] # None
<1> DEFINE to == [c \in Channels |-> IF c \in Wanted(m) THEN directory[customer][c]
                                     ELSE None]
<1>1. to \in [Channels -> Addresses \cup {None}]
  BY ContactsTyped DEF TypeOK
<1>2. \A c \in Channels : to[c] # None => c \in Wanted(m)
  OBVIOUS
<1>3. NewDispatch(m, customer) =
        [channels |-> [c \in Channels |-> IF to[c] = None THEN "skipped" ELSE "pending"],
         to |-> to]
  BY DEF NewDispatch
<1> HIDE DEF to
<1> QED
  BY <1>1, <1>2, <1>3 DEF Dispatch

(* Recording the answer for a channel changes only that channel's state.   *)
LEMMA RecordedTyped ==
    ASSUME TypeOK, NEW t \in Threads, NEW state \in {"sent", "failed"},
           sending[t] \in Messages, dispatch[sending[t]] # None, at[t] \in Channels,
           dispatch' = Recorded(t, state)
    PROVE  /\ dispatch' \in [Messages -> Dispatch \cup {None}]
           /\ dispatch'[sending[t]] \in Dispatch
           /\ dispatch'[sending[t]].to = dispatch[sending[t]].to
           /\ dispatch'[sending[t]].channels[at[t]] = state
           /\ \A c \in Channels \ {at[t]} :
                dispatch'[sending[t]].channels[c] = dispatch[sending[t]].channels[c]
           /\ \A m \in Messages \ {sending[t]} : dispatch'[m] = dispatch[m]
<1> DEFINE m == sending[t]
           old == dispatch[m]
           new == [old EXCEPT !.channels[at[t]] = state]
<1>1. old \in Dispatch
  BY DEF TypeOK
<1>2. /\ new \in Dispatch /\ new.to = old.to /\ new.channels[at[t]] = state
      /\ \A c \in Channels \ {at[t]} : new.channels[c] = old.channels[c]
  BY <1>1 DEF Dispatch
<1>3. dispatch' = [dispatch EXCEPT ![m] = new]
  BY DEF Recorded
<1> HIDE DEF new
<1> QED
  BY <1>2, <1>3 DEF TypeOK

-----------------------------------------------------------------------------
(* The steps.                                                              *)

(* A step that decides nothing and sends nothing.                          *)
LEMMA QuietStep ==
    ASSUME IInv, NEW t \in Threads, Enters(t) \/ at[t] \in Channels, Moved(t),
           UNCHANGED <<directory, dispatch, sent>>,
           view' \in [Orders -> View], DataInv',
           \A o \in Orders : view'[o].dispatch = view[o].dispatch,
           OwnFits(t)'
    PROVE  IInv'
<1>1. Alone(t)
  BY LockIsExclusive
<1>2. Grows(OrderOf(t))
  BY DEF Grows
<1>3. TypeOK'
  BY DEF IInv, TypeOK, Moved, ThreadTypes
<1> QED
  BY <1>1, <1>2, <1>3, ThreadsKept DEF IInv

(* A job that ends with an outcome that is not final.                      *)
LEMMA ReturnStep ==
    ASSUME IInv, NEW t \in Threads, Enters(t) \/ at[t] \in Channels,
           NEW kind \in Outcomes \ {"settled"}, Returns(t, kind),
           UNCHANGED <<directory, dispatch, sent>>,
           view' \in [Orders -> View], DataInv',
           \A o \in Orders : view'[o].dispatch = view[o].dispatch
    PROVE  IInv'
<1>1. job[t] # None /\ lock[OrderOf(t)] \in {t, None}
  BY DEF IInv, ThreadsFit, ThreadFits, Enters, Channels
<1>2. Moved(t) /\ at'[t] = "idle" /\ outcome'[t] = kind
  BY <1>1, ReturnsMoves DEF IInv
<1> QED
  BY <1>2, QuietStep DEF OwnFits, Channels

(* A job that goes on with a dispatch of its order.                        *)
LEMMA ResumeStep ==
    ASSUME IInv, NEW t \in Threads, Enters(t), NEW m \in Messages,
           view[OrderOf(t)].dispatch = m, dispatch[m] # None,
           Sends(t, m, dispatch[m]),
           UNCHANGED <<directory, view, dispatch, sent>>
    PROVE  IInv'
<1>1. job[t] # None /\ outcome[t] = None /\ lock[OrderOf(t)] = None
  BY DEF IInv, ThreadsFit, ThreadFits, Enters
<1>2. dispatch[m] \in Dispatch
  BY DEF IInv, TypeOK
<1>3. /\ Moved(t)
      /\ \/ /\ at'[t] \in Channels /\ dispatch[m].channels[at'[t]] = "pending"
            /\ sending'[t] = m /\ outcome'[t] = None
         \/ /\ at'[t] = "idle" /\ outcome'[t] = "settled"
            /\ \A c \in Channels : dispatch[m].channels[c] # "pending"
  BY <1>1, <1>2, SendsMoves DEF IInv
<1>4. OrderOf(t)' = OrderOf(t)
  BY <1>3 DEF Moved, OrderOf
<1>5. OwnFits(t)'
  BY <1>3, <1>4, NoneIsNoName DEF OwnFits, Channels, Outcomes
<1>6. DataInv' /\ view' \in [Orders -> View]
  BY DEF IInv, TypeOK, DataInv, DispatchesFit, ViewsFit, ParkedUntilJoin,
         SentOnce, OneStory, Wanted
<1> QED
  BY <1>3, <1>5, <1>6, QuietStep

(* The decision of an order that has none.                                 *)
LEMMA DispatchStep ==
    ASSUME IInv, NEW t \in Threads, Enters(t), NEW m \in Messages,
           NEW customer \in Customers,
           Msg[m].order = OrderOf(t), view[OrderOf(t)].dispatch = None,
           DispatchTerminal(t, m, customer)
    PROVE  IInv'
<1> DEFINE o == OrderOf(t)
           d == NewDispatch(m, customer)
<1>1. /\ job[t] # None /\ outcome[t] = None /\ lock[o] = None /\ o \in Orders
      /\ Alone(t)
  BY OrderOfTyped, LockIsExclusive DEF IInv, ThreadsFit, ThreadFits, Enters
<1>2. d \in Dispatch /\ d # None
      /\ \A c \in Channels : d.channels[c] = "pending" =>
           c \in Wanted(m) /\ d.to[c] # None
  BY NewDispatchTyped, NoneIsNoDispatch DEF IInv
<1>3. /\ dispatch' = [dispatch EXCEPT ![m] = d]
      /\ view' = [view EXCEPT ![o] = [customer |-> customer, parked |-> None,
                                      dispatch |-> m]]
      /\ Sends(t, m, d)
      /\ UNCHANGED <<directory, sent>>
  BY DEF DispatchTerminal
<1> HIDE DEF d, o
<1>4. dispatch[m] = None
  BY NoneIsNoName, <1>1 DEF IInv, DataInv, DispatchesFit, o
<1>5. /\ Moved(t)
      /\ \/ /\ at'[t] \in Channels /\ d.channels[at'[t]] = "pending"
            /\ sending'[t] = m /\ outcome'[t] = None
         \/ /\ at'[t] = "idle" /\ outcome'[t] = "settled"
            /\ \A c \in Channels : d.channels[c] # "pending"
  BY <1>1, <1>2, <1>3, SendsMoves DEF IInv, o
<1>6. /\ dispatch'[m] = d /\ \A n \in Messages \ {m} : dispatch'[n] = dispatch[n]
      /\ view'[o].dispatch = m /\ view'[o].parked = None
      /\ \A p \in Orders \ {o} : view'[p] = view[p]
      /\ dispatch' \in [Messages -> Dispatch \cup {None}]
      /\ view' \in [Orders -> View]
  BY <1>1, <1>2, <1>3 DEF IInv, TypeOK, View
<1>7. Grows(o)
  BY <1>4, <1>6 DEF Grows, o
<1>8. OwnFits(t)'
  <2>1. OrderOf(t)' = o
    BY <1>5 DEF Moved, OrderOf, o
  <2> QED
    BY <1>5, <1>6, <2>1, NoneIsNoName DEF OwnFits, Channels, Outcomes
<1>9. DataInv'
  <2>1. DispatchesFit'
    <3> SUFFICES ASSUME NEW n \in Messages, dispatch'[n] # None
                 PROVE  /\ view'[Msg[n].order].dispatch = n
                        /\ \A c \in Channels :
                             dispatch'[n].channels[c] = "pending" =>
                               c \in Wanted(n) /\ dispatch'[n].to[c] # None
      BY DEF DispatchesFit, Wanted
    <3>1. CASE n = m
      BY <1>2, <1>6, <3>1 DEF o
    <3>2. CASE n # m
      <4>1. dispatch[n] # None /\ dispatch'[n] = dispatch[n]
        BY <1>6, <3>2
      <4>2. Msg[n].order \in Orders \ {o}
        BY <4>1, NoneIsNoName, MessagesTyped
           DEF IInv, DataInv, DispatchesFit, Envelope, o
      <4> QED
        BY <1>6, <4>1, <4>2 DEF IInv, DataInv, DispatchesFit
    <3> QED
      BY <3>1, <3>2
  <2>2. ViewsFit'
    BY <1>1, <1>2, <1>6 DEF IInv, DataInv, ViewsFit, TypeOK, View, o
  <2>3. ParkedUntilJoin'
    BY <1>1, <1>6 DEF IInv, DataInv, ParkedUntilJoin
  <2>4. SentOnce'
    BY <1>3 DEF IInv, DataInv, SentOnce
  <2>5. \A i \in DOMAIN sent[o] : FALSE
    BY <1>1, NoneIsNoName, SentTyped DEF IInv, DataInv, OneStory, SentItem, o
  <2>6. ASSUME NEW p \in Orders \ {o}, NEW i \in DOMAIN sent[p]
        PROVE  dispatch'[sent[p][i].message] = dispatch[sent[p][i].message]
    <3>1. sent[p][i].message \in Messages /\ sent[p][i].message = view[p].dispatch
      BY <2>6, SentTyped DEF IInv, DataInv, OneStory, SentItem
    <3>2. Msg[sent[p][i].message].order = p
      BY <2>6, <3>1, NoneIsNoName DEF IInv, DataInv, ViewsFit
    <3> QED
      BY <1>6, <2>6, <3>1, <3>2 DEF o
  <2>7. OneStory'
    BY <1>3, <1>6, <2>5, <2>6 DEF IInv, DataInv, OneStory, Wanted
  <2> QED
    BY <2>1, <2>2, <2>3, <2>4, <2>7 DEF DataInv
<1>10. TypeOK'
  BY <1>3, <1>5, <1>6 DEF IInv, TypeOK, Moved, ThreadTypes
<1> QED
  BY <1>1, <1>5, <1>7, <1>8, <1>9, <1>10, ThreadsKept DEF IInv, o

(* The answer of a provider, which gets recorded.                          *)
LEMMA AnswerStep ==
    ASSUME IInv, NEW t \in Threads, Accepted(t) \/ Refused(t)
    PROVE  IInv'
<1> DEFINE o == OrderOf(t)
           m == sending[t]
           c == at[t]
           item == [channel |-> c, to |-> dispatch[m].to[c], message |-> m]
<1>1. c \in Channels
  BY DEF Accepted, Refused
<1>2. /\ job[t] # None /\ outcome[t] = None /\ lock[o] = t /\ o \in Orders
      /\ Alone(t)
      /\ m # None /\ m \in Messages
      /\ view[o].dispatch = m /\ dispatch[m].channels[c] = "pending"
  <2>1. ThreadFits(t) /\ c # "idle" /\ Alone(t)
    BY <1>1, LockIsExclusive DEF IInv, ThreadsFit, Channels
  <2>2. /\ job[t] # None /\ outcome[t] = None /\ lock[o] = t /\ m # None
        /\ view[o].dispatch = m /\ dispatch[m].channels[c] = "pending"
    BY <1>1, <2>1 DEF ThreadFits
  <2>3. o \in Orders /\ m \in Messages
    BY <2>2, OrderOfTyped DEF IInv, TypeOK
  <2> QED
    BY <2>1, <2>2, <2>3
<1>3. dispatch[m] # None /\ Msg[m].order = o
  BY <1>2 DEF IInv, DataInv, ViewsFit
<1>4. c \in Wanted(m) /\ dispatch[m].to[c] # None
  BY <1>1, <1>2, <1>3 DEF IInv, DataInv, DispatchesFit
<1>5. PICK state \in {"sent", "failed"} :
        /\ dispatch' = Recorded(t, state)
        /\ Sends(t, m, dispatch'[m])
        /\ UNCHANGED <<directory, view>>
        /\ \/ sent' = sent
           \/ state = "sent" /\ sent' = [sent EXCEPT ![o] = Append(@, item)]
  BY DEF Accepted, Refused
<1> HIDE DEF o, m, c, item
<1>6. /\ dispatch' \in [Messages -> Dispatch \cup {None}]
      /\ dispatch'[m] \in Dispatch
      /\ dispatch'[m].to = dispatch[m].to
      /\ dispatch'[m].channels[c] = state
      /\ \A e \in Channels \ {c} : dispatch'[m].channels[e] = dispatch[m].channels[e]
      /\ \A n \in Messages \ {m} : dispatch'[n] = dispatch[n]
  BY <1>1, <1>2, <1>3, <1>5, RecordedTyped DEF IInv, m, c
<1>7. /\ Moved(t)
      /\ \/ /\ at'[t] \in Channels /\ dispatch'[m].channels[at'[t]] = "pending"
            /\ sending'[t] = m /\ outcome'[t] = None
         \/ /\ at'[t] = "idle" /\ outcome'[t] = "settled"
            /\ \A e \in Channels : dispatch'[m].channels[e] # "pending"
  BY <1>2, <1>5, <1>6, SendsMoves DEF IInv, o
<1>8. Grows(o)
  BY <1>3, <1>5, <1>6 DEF Grows
<1>9. OwnFits(t)'
  <2>1. OrderOf(t)' = o
    BY <1>7 DEF Moved, OrderOf, o
  <2> QED
    BY <1>2, <1>5, <1>7, <2>1, NoneIsNoName DEF OwnFits, Channels, Outcomes
<1>10. DispatchesFit' /\ ViewsFit' /\ ParkedUntilJoin'
  <2>1. \A n \in Messages : dispatch'[n] # None => dispatch[n] # None
    BY <1>3, <1>6
  <2>2. ASSUME NEW n \in Messages, NEW e \in Channels, dispatch'[n] # None
        PROVE  /\ dispatch'[n].channels[e] = "pending" => dispatch[n].channels[e] = "pending"
               /\ dispatch'[n].to = dispatch[n].to
    BY <1>5, <1>6, <2>2
  <2>3. DispatchesFit'
    BY <1>5, <2>1, <2>2 DEF IInv, DataInv, DispatchesFit, Wanted
  <2>4. ViewsFit'
    BY <1>5, <1>6, NoneIsNoDispatch DEF IInv, DataInv, ViewsFit, TypeOK, View
  <2> QED
    BY <1>5, <2>3, <2>4 DEF IInv, DataInv, ParkedUntilJoin
<1>11. ASSUME NEW p \in Orders, NEW i \in DOMAIN sent[p]
       PROVE  LET s == sent[p][i]
                  d == dispatch'[s.message]
              IN  /\ view'[p].dispatch = s.message
                  /\ s.channel \in Wanted(s.message)
                  /\ d.to[s.channel] = s.to
                  /\ d.channels[s.channel] = "sent"
                  /\ s.channel \in Channels
                  /\ p = o => s.channel # c
  <2> DEFINE s == sent[p][i]
  <2>1. s.message \in Messages /\ s.channel \in Channels
    BY <1>11, SentTyped DEF IInv, SentItem
  <2>2. /\ view[p].dispatch = s.message
        /\ s.channel \in Wanted(s.message)
        /\ dispatch[s.message].to[s.channel] = s.to
        /\ dispatch[s.message].channels[s.channel] = "sent"
    BY <1>11 DEF IInv, DataInv, OneStory
  <2> HIDE DEF s
  <2>3. p = o => s.message = m /\ s.channel # c
    BY <1>2, <2>2
  <2>4. p # o => s.message # m
    BY <1>3, <2>1, <2>2, NoneIsNoName DEF IInv, DataInv, ViewsFit
  <2>5. dispatch'[s.message].to = dispatch[s.message].to
        /\ dispatch'[s.message].channels[s.channel] = "sent"
    BY <1>6, <2>1, <2>2, <2>3, <2>4
  <2> QED
    BY <1>5, <2>1, <2>2, <2>3, <2>5 DEF s
<1>12. CASE sent' = sent
  <2>1. TypeOK'
    BY <1>5, <1>6, <1>7, <1>12 DEF IInv, TypeOK, Moved, ThreadTypes
  <2>2. SentOnce' /\ OneStory'
    BY <1>11, <1>12 DEF IInv, DataInv, SentOnce, OneStory, Wanted
  <2> QED
    BY <1>2, <1>7, <1>8, <1>9, <1>10, <2>1, <2>2, ThreadsKept
       DEF IInv, DataInv, o
<1>13. CASE state = "sent" /\ sent' = [sent EXCEPT ![o] = Append(@, item)]
  <2>1. item \in SentItem
    BY <1>1, <1>2, <1>3, <1>4 DEF item, IInv, TypeOK, Dispatch, SentItem
  <2>2. sent[o] \in Seq(SentItem) /\ sent'[o] = Append(sent[o], item)
        /\ \A p \in Orders \ {o} : sent'[p] = sent[p]
    BY <1>2, <1>13, SentTyped DEF IInv, TypeOK
  <2> HIDE DEF SentItem
  <2>3. sent' \in [Orders -> Seq(SentItem)]
    <3>1. Append(sent[o], item) \in Seq(SentItem)
      BY <2>1, <2>2
    <3>2. sent \in [Orders -> Seq(SentItem)]
      BY DEF IInv, TypeOK, SentItem
    <3> QED
      BY <1>13, <3>1, <3>2
  <2>4. /\ DOMAIN sent[o] = 1 .. Len(sent[o]) /\ Len(sent[o]) \in Nat
        /\ DOMAIN sent'[o] = 1 .. Len(sent[o]) + 1
        /\ sent'[o][Len(sent[o]) + 1] = item
        /\ \A i \in DOMAIN sent[o] : sent'[o][i] = sent[o][i]
    BY <2>1, <2>2
  <2>5. item.channel = c /\ item.message = m /\ item.to = dispatch[m].to[c]
    BY DEF item
  <2>6. TypeOK'
    BY <1>5, <1>6, <1>7, <2>3 DEF IInv, TypeOK, Moved, ThreadTypes, SentItem
  <2>7. ASSUME NEW p \in Orders, NEW i \in DOMAIN sent'[p], NEW j \in DOMAIN sent'[p],
               sent'[p][i].channel = sent'[p][j].channel
        PROVE  i = j
    <3>1. CASE p # o
      BY <2>2, <2>7, <3>1 DEF IInv, DataInv, SentOnce
    <3>2. CASE p = o
      <4>1. CASE i \in DOMAIN sent[o] /\ j \in DOMAIN sent[o]
        BY <1>2, <2>4, <2>7, <3>2, <4>1 DEF IInv, DataInv, SentOnce
      <4>2. CASE i \notin DOMAIN sent[o] \/ j \notin DOMAIN sent[o]
        <5>1. \A k \in DOMAIN sent[o] : sent[o][k].channel # c
          BY <1>2, <1>11
        <5> QED
          BY <2>4, <2>5, <2>7, <3>2, <4>2, <5>1
      <4> QED
        BY <4>1, <4>2
    <3> QED
      BY <3>1, <3>2
  <2>8. ASSUME NEW p \in Orders, NEW i \in DOMAIN sent'[p]
        PROVE  LET s == sent'[p][i]
                   d == dispatch'[s.message]
               IN  /\ view'[p].dispatch = s.message
                   /\ s.channel \in Wanted(s.message)
                   /\ d.to[s.channel] = s.to
                   /\ d.channels[s.channel] = "sent"
    <3>1. CASE p = o /\ i = Len(sent[o]) + 1
      BY <1>2, <1>4, <1>5, <1>6, <1>13, <2>4, <2>5, <3>1
    <3>2. CASE ~(p = o /\ i = Len(sent[o]) + 1)
      <4>1. i \in DOMAIN sent[p] /\ sent'[p][i] = sent[p][i]
        BY <2>2, <2>4, <2>8, <3>2
      <4> QED
        BY <1>11, <4>1
    <3> QED
      BY <3>1, <3>2
  <2>9. SentOnce' /\ OneStory'
    BY <2>7, <2>8 DEF SentOnce, OneStory, Wanted
  <2> QED
    BY <1>2, <1>7, <1>8, <1>9, <1>10, <2>6, <2>9, ThreadsKept
       DEF IInv, DataInv, o
<1> QED
  BY <1>5, <1>12, <1>13

(* A thread that gets to work has a message of its order, and time to act. *)
LEMMA NewJob ==
    ASSUME IInv, NEW t \in Threads, Enters(t)
    PROVE  job[t] \in Messages /\ OrderOf(t) \in Orders /\ Msg[job[t]] \in Envelope
BY OrderOfTyped, MessagesTyped DEF IInv, ThreadsFit, ThreadFits, Enters

LEMMA InitIInv == Init => IInv
<1> SUFFICES ASSUME Init PROVE IInv
  OBVIOUS
<1>1. /\ \A o \in Orders : view[o].customer = None /\ view[o].parked = None
                          /\ view[o].dispatch = None /\ sent[o] = <<>>
      /\ \A m \in Messages : dispatch[m] = None
      /\ \A t \in Threads : at[t] = "idle" /\ outcome[t] = None
  BY DEF Init
<1>2. TypeOK
  BY ContactsTyped DEF Init, TypeOK, View
<1>3. DataInv
  BY <1>1 DEF DataInv, DispatchesFit, ViewsFit, ParkedUntilJoin, SentOnce, OneStory
<1>4. ThreadsFit /\ SettledForGood
  BY <1>1, NoneIsNoName DEF ThreadsFit, ThreadFits, SettledForGood, Channels, Outcomes
<1> QED
  BY <1>2, <1>3, <1>4 DEF IInv

(* What does not touch data or threads keeps their parts of the invariant. *)
LEMMA DataUntouched ==
    ASSUME DataInv, UNCHANGED <<view, dispatch, sent>> PROVE DataInv'
BY DEF DataInv, DispatchesFit, ViewsFit, ParkedUntilJoin, SentOnce, OneStory, Wanted

LEMMA ThreadsUntouched ==
    ASSUME ThreadsFit, SettledForGood,
           UNCHANGED <<view, dispatch, lock, at, job, sending, outcome>>
    PROVE  ThreadsFit' /\ SettledForGood'
<1>1. \A t \in Threads : OrderOf(t)' = OrderOf(t)
  BY DEF OrderOf
<1>2. ThreadsFit'
  BY <1>1 DEF ThreadsFit, ThreadFits
<1>3. SettledForGood'
  BY <1>1 DEF SettledForGood
<1> QED
  BY <1>2, <1>3

LEMMA NextKeepsIInv == IInv /\ [Next]_vars => IInv'
<1> SUFFICES ASSUME IInv, [Next]_vars PROVE IInv'
  OBVIOUS
<1>1. ASSUME NEW c \in Customers, NEW contact \in Contacts, Put(c, contact)
      PROVE  IInv'
  <2>1. TypeOK'
    BY <1>1 DEF Put, IInv, TypeOK, OrderOf
  <2> QED
    BY <1>1, <2>1, DataUntouched, ThreadsUntouched DEF Put, IInv
<1>2. ASSUME NEW t \in Threads, NEW m \in Messages, Receive(t, m) PROVE IInv'
  <2>1. /\ \A s \in Threads \ {t} : OrderOf(s)' = OrderOf(s)
        /\ \A o \in Orders : lock[o] # t
    <3>1. \A s \in Threads \ {t} : job'[s] = job[s]
      BY <1>2 DEF Receive, IInv, TypeOK
    <3>2. ASSUME NEW o \in Orders, lock[o] = t PROVE FALSE
      BY <1>2, <3>2, NoneIsNoName DEF Receive, IInv, TypeOK, Channels
    <3> QED
      BY <3>1, <3>2 DEF OrderOf
  <2>2. TypeOK'
    BY <1>2, <2>1, NoneIsNoName DEF Receive, IInv, TypeOK
  <2>3. DataInv'
    BY <1>2, DataUntouched DEF Receive, IInv
  <2>4. ThreadFits(t)'
    BY <1>2, NoneIsNoName DEF Receive, IInv, TypeOK, ThreadFits, Channels
  <2>5. ThreadsFit'
    BY <1>2, <2>1, <2>4 DEF Receive, IInv, TypeOK, ThreadsFit, ThreadFits
  <2>6. SettledForGood'
    BY <1>2, <2>1, NoneIsNoName DEF Receive, IInv, TypeOK, SettledForGood, Outcomes
  <2> QED
    BY <2>2, <2>3, <2>5, <2>6 DEF IInv
<1>3. ASSUME NEW t \in Threads, ResumeMessage(t) PROVE IInv'
  <2>1. Enters(t) /\ job[t] \in Messages /\ dispatch[job[t]] # None
    BY <1>3, NewJob DEF ResumeMessage
  <2>2. view[OrderOf(t)].dispatch = job[t]
    BY <2>1 DEF IInv, DataInv, DispatchesFit, OrderOf
  <2> QED
    BY <1>3, <2>1, <2>2, ResumeStep DEF ResumeMessage
<1>4. ASSUME NEW t \in Threads, OtherCustomer(t) \/ OtherTerminal(t) \/ Retry(t)
      PROVE  IInv'
  <2>1. /\ Enters(t) \/ at[t] \in Channels
        /\ UNCHANGED <<directory, view, dispatch, sent>>
        /\ Returns(t, "conflict") \/ Returns(t, "retry")
    BY <1>4 DEF OtherCustomer, OtherTerminal, Retry, IsNew, Terminal
  <2>2. DataInv' /\ view' \in [Orders -> View]
    BY <2>1, DataUntouched DEF IInv, TypeOK
  <2> QED
    BY <2>1, <2>2, ReturnStep DEF Outcomes
<1>5. ASSUME NEW t \in Threads, Learn(t) \/ Park(t) PROVE IInv'
  <2> DEFINE o == OrderOf(t)
  <2>1. Enters(t) /\ o \in Orders /\ job[t] \in Messages
        /\ Msg[job[t]].customer \in Customers /\ Msg[job[t]].order = o
    BY <1>5, NewJob DEF Learn, Park, Created, Terminal, IsNew, Envelope, OrderOf
  <2>2. /\ UNCHANGED <<directory, dispatch, sent>>
        /\ Returns(t, "ok") \/ Returns(t, "parked")
        /\ view[o].dispatch = None
        /\ \/ /\ view' = [view EXCEPT ![o].customer = Msg[job[t]].customer]
              /\ view[o].parked = None
           \/ /\ view' = [view EXCEPT ![o].parked = job[t]]
              /\ view[o].customer = None
    BY <1>5 DEF Learn, Park
  <2> HIDE DEF o
  <2>3. /\ view' \in [Orders -> View]
        /\ \A p \in Orders : view'[p].dispatch = view[p].dispatch
        /\ \A p \in Orders \ {o} : view'[p] = view[p]
        /\ view'[o].parked # None => view'[o].customer = None /\ view'[o].parked = job[t]
    <3>1. view \in [Orders -> View] /\ view[o] \in View
      BY <2>1 DEF IInv, TypeOK
    <3>2. PICK v \in View : /\ view' = [view EXCEPT ![o] = v]
                            /\ v.dispatch = view[o].dispatch
                            /\ v.parked # None => v.customer = None /\ v.parked = job[t]
      <4>1. [view[o] EXCEPT !.customer = Msg[job[t]].customer] \in View
        BY <2>1, <3>1 DEF View
      <4>2. [view[o] EXCEPT !.parked = job[t]] \in View
        BY <2>1, <3>1 DEF View
      <4> QED
        BY <2>2, <3>1, <4>1, <4>2 DEF View
    <3> QED
      BY <2>1, <3>1, <3>2
  <2>4. DispatchesFit' /\ SentOnce' /\ OneStory'
    BY <2>2, <2>3, MessagesTyped DEF IInv, DataInv, DispatchesFit, SentOnce,
       OneStory, Envelope, Wanted
  <2>5. ViewsFit' /\ ParkedUntilJoin'
    BY <2>1, <2>2, <2>3 DEF IInv, DataInv, ViewsFit, ParkedUntilJoin
  <2>6. DataInv'
    BY <2>4, <2>5 DEF DataInv
  <2> QED
    BY <2>1, <2>2, <2>3, <2>6, ReturnStep DEF Outcomes
<1>6. ASSUME NEW t \in Threads, Join(t) PROVE IInv'
  <2> DEFINE m == view[OrderOf(t)].parked
  <2>1. Enters(t) /\ OrderOf(t) \in Orders /\ Msg[job[t]].customer \in Customers
    BY <1>6, NewJob DEF Join, Created, IsNew, Envelope
  <2>2. m # None /\ DispatchTerminal(t, m, Msg[job[t]].customer)
    BY <1>6 DEF Join
  <2>3. m \in Messages /\ Msg[m].order = OrderOf(t) /\ view[OrderOf(t)].dispatch = None
    BY <2>1, <2>2 DEF IInv, TypeOK, View, DataInv, ViewsFit, ParkedUntilJoin
  <2> QED
    BY <2>1, <2>2, <2>3, DispatchStep
<1>7. ASSUME NEW t \in Threads, ResumeOrder(t) PROVE IInv'
  <2> DEFINE m == view[OrderOf(t)].dispatch
  <2>1. Enters(t) /\ OrderOf(t) \in Orders
    BY <1>7, NewJob DEF ResumeOrder, Created, IsNew
  <2>2. m # None /\ Sends(t, m, dispatch[m])
        /\ UNCHANGED <<directory, view, dispatch, sent>>
    BY <1>7 DEF ResumeOrder
  <2>3. m \in Messages /\ dispatch[m] # None
    BY <2>1, <2>2 DEF IInv, TypeOK, View, DataInv, ViewsFit
  <2> QED
    BY <2>1, <2>2, <2>3, ResumeStep
<1>8. ASSUME NEW t \in Threads, Decide(t) PROVE IInv'
  <2> DEFINE customer == view[OrderOf(t)].customer
  <2>1. Enters(t) /\ OrderOf(t) \in Orders /\ job[t] \in Messages
        /\ Msg[job[t]].order = OrderOf(t)
    BY <1>8, NewJob DEF Decide, Terminal, IsNew, OrderOf
  <2>2. customer # None /\ view[OrderOf(t)].dispatch = None
        /\ DispatchTerminal(t, job[t], customer)
    BY <1>8 DEF Decide
  <2>3. customer \in Customers
    BY <2>1, <2>2 DEF IInv, TypeOK, View
  <2> QED
    BY <2>1, <2>2, <2>3, DispatchStep
<1>9. ASSUME NEW t \in Threads, Accepted(t) \/ Refused(t) PROVE IInv'
  BY <1>9, AnswerStep
<1>10. CASE UNCHANGED vars
  <2>1. TypeOK'
    BY <1>10 DEF vars, IInv, TypeOK, OrderOf
  <2> QED
    BY <1>10, <2>1, DataUntouched, ThreadsUntouched DEF vars, IInv
<1> QED
  BY <1>1, <1>2, <1>3, <1>4, <1>5, <1>6, <1>7, <1>8, <1>9, <1>10 DEF Next

-----------------------------------------------------------------------------
(* The inductive invariant holds in every reachable state.                 *)
THEOREM Invariance == Spec => []IInv
BY InitIInv, NextKeepsIInv, PTL DEF Spec

(* Every reachable state is well typed, and an order's lock is held only   *)
(* by a thread that sends for that order.                                  *)
THEOREM TypeCorrect == Spec => []TypeOK
<1>1. IInv => TypeOK
  BY DEF IInv
<1> QED
  BY <1>1, Invariance, PTL

(* No customer gets a second email or SMS for an order: a thread that      *)
(* sends on a channel holds the lock and has it on record as pending.      *)
THEOREM NothingIsSentTwice == Spec => []SentOnce
<1>1. IInv => SentOnce
  BY DEF IInv, DataInv
<1> QED
  BY <1>1, Invariance, PTL

(* Everything sent for an order tells of its one terminal event.           *)
THEOREM EverythingTellsOneStory == Spec => []OneStory
<1>1. IInv => OneStory
  BY DEF IInv, DataInv
<1> QED
  BY <1>1, Invariance, PTL

(* order_created always picks the parked terminal event up.                *)
THEOREM NothingStaysParked == Spec => []ParkedUntilJoin
<1>1. IInv => ParkedUntilJoin
  BY DEF IInv, DataInv
<1> QED
  BY <1>1, Invariance, PTL

(* A final outcome is final, although later jobs resume the same dispatch. *)
THEOREM SettledStays == Spec => []SettledForGood
<1>1. IInv => SettledForGood
  BY DEF IInv
<1> QED
  BY <1>1, Invariance, PTL
=============================================================================
