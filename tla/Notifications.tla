----------------------------- MODULE Notifications ----------------------------
(***************************************************************************)
(* The worker of src/services/notifications/worker.py: threads that handle *)
(* order_created and the terminal events of orders, any number of times    *)
(* and in any order, and send email and SMS.  A terminal event that        *)
(* arrives before order_created is parked, since only order_created names  *)
(* the customer.  What is to be sent, and where to, is decided once, and   *)
(* each channel keeps its state, so that a redelivery resumes the sending. *)
(*                                                                         *)
(* A thread holds its order's lock while it sends, and everything it does  *)
(* up to the first send is one action; each send is another, which may     *)
(* succeed, fail for now (TransientError) or for good.                     *)
(*                                                                         *)
(* Data abstractions.  A message is one that parse_envelope accepts, of a  *)
(* consumed type, under a message_id of its own.  A Dispatch goes by its   *)
(* message (by_message[m] is dispatch[m], and view.dispatch is m), its     *)
(* order and kind are the message's, and view.terminal is set exactly when *)
(* view.dispatch is.  A customer without a row has a contact without       *)
(* addresses.  "settled" stands for the outcomes sent, replayed, skipped   *)
(* and failed.  Subjects, texts and notification ids are left out.         *)
(*                                                                         *)
(* A definition introduced by "Fault" is a variant of the one after it     *)
(* with a bug; no specification here uses it.                              *)
(***************************************************************************)
EXTENDS Naturals, Sequences

CONSTANTS
    Orders,     \* order ids
    Customers,  \* customer ids
    Addresses,  \* email addresses and phone numbers
    Messages,   \* message ids
    Msg,        \* Msg[m] is the envelope of message m: only order_created has
                \* a customer, only order_cancelled may ask to notify (the
                \* fields are ignored elsewhere)
    Contacts,   \* the contacts a customer may have
    Threads,    \* threads that call handle
    None        \* an undefined value

Channels == {"email", "sms"}

Envelope == [type : {"created", "completed", "cancelled"},
             order : Orders, customer : Customers, notify : BOOLEAN]

NoContact == [c \in Channels |-> None]

ASSUME MessagesTyped == Msg \in [Messages -> Envelope]
ASSUME ContactsTyped ==
    NoContact \in Contacts /\ Contacts \subseteq [Channels -> Addresses \cup {None}]
Outcomes == {"ok", "parked", "conflict", "retry", "settled"}

ASSUME NoneIsNoName ==
    None \notin Customers \cup Addresses \cup Messages \cup Threads \cup Outcomes

View == [customer : Customers \cup {None}, parked : Messages \cup {None},
         dispatch : Messages \cup {None}]

Dispatch == [channels : [Channels -> {"pending", "sent", "failed", "skipped"}],
             to : [Channels -> Addresses \cup {None}]]

ASSUME NoneIsNoDispatch == None \notin Dispatch

VARIABLES
    directory,  \* customer -> contact
    view,       \* order -> what is known of it
    dispatch,   \* message -> its Dispatch, or None
    lock,       \* order -> the thread that holds its lock, or None
    at,         \* thread -> what it is doing; sending: the channel it sends on
    job,        \* thread -> the last message it was given, or None
    sending,    \* thread -> the message whose dispatch it sends, or None
    outcome,    \* thread -> the outcome of its last job, or None
    sent        \* order -> what the providers accepted, in order

vars == <<directory, view, dispatch, lock, at, job, sending, outcome, sent>>

OrderOf(t) == Msg[job[t]].order

(* The lock of an order is held by a thread that sends for that order.     *)
TypeOK ==
    /\ directory \in [Customers -> Contacts]
    /\ view \in [Orders -> View]
    /\ dispatch \in [Messages -> Dispatch \cup {None}]
    /\ lock \in [Orders -> Threads \cup {None}]
    /\ at \in [Threads -> {"idle", "waiting"} \cup Channels]
    /\ job \in [Threads -> Messages \cup {None}]
    /\ sending \in [Threads -> Messages \cup {None}]
    /\ outcome \in [Threads -> Outcomes \cup {None}]
    /\ sent \in [Orders -> Seq([channel : Channels, to : Addresses, message : Messages])]
    /\ \A o \in Orders :
         lock[o] # None => at[lock[o]] \in Channels /\ OrderOf(lock[o]) = o

Init ==
    /\ directory = [c \in Customers |-> NoContact]
    /\ view = [o \in Orders |-> [customer |-> None, parked |-> None, dispatch |-> None]]
    /\ dispatch = [m \in Messages |-> None]
    /\ lock = [o \in Orders |-> None]
    /\ at = [t \in Threads |-> "idle"]
    /\ job = [t \in Threads |-> None]
    /\ sending = [t \in Threads |-> None]
    /\ outcome = [t \in Threads |-> None]
    /\ sent = [o \in Orders |-> <<>>]

Put(c, contact) ==
    /\ directory' = [directory EXCEPT ![c] = contact]
    /\ UNCHANGED <<view, dispatch, lock, at, job, sending, outcome, sent>>

(* A message is delivered, maybe again, to a thread that is free.          *)
Receive(t, m) ==
    /\ at[t] = "idle"
    /\ at' = [at EXCEPT ![t] = "waiting"]
    /\ job' = [job EXCEPT ![t] = m]
    /\ outcome' = [outcome EXCEPT ![t] = None]
    /\ UNCHANGED <<directory, view, dispatch, lock, sending, sent>>

-----------------------------------------------------------------------------
(* Thread t ends its job, which releases the lock (with).                  *)
Returns(t, kind) ==
    /\ at' = [at EXCEPT ![t] = "idle"]
    /\ lock' = [lock EXCEPT ![OrderOf(t)] = None]
    /\ sending' = [sending EXCEPT ![t] = None]
    /\ outcome' = [outcome EXCEPT ![t] = kind]
    /\ UNCHANGED job

(* Thread t goes on to send on channel c of the dispatch of message m.     *)
GoesTo(t, m, c) ==
    /\ at' = [at EXCEPT ![t] = c]
    /\ lock' = [lock EXCEPT ![OrderOf(t)] = t]
    /\ sending' = [sending EXCEPT ![t] = m]
    /\ UNCHANGED <<job, outcome>>

(* _send: the next pending channel of a dispatch, email first.             *)
Sends(t, m, d) ==
    \/ d.channels["email"] = "pending" /\ GoesTo(t, m, "email")
    \/ /\ d.channels["email"] # "pending" /\ d.channels["sms"] = "pending"
       /\ GoesTo(t, m, "sms")
    \/ /\ \A c \in Channels : d.channels[c] # "pending"
       /\ Returns(t, "settled")

(* The channels a terminal event asks for.                                 *)
Wanted(m) ==
    IF Msg[m].type = "completed" THEN Channels
    ELSE IF Msg[m].notify THEN {"email"} ELSE {}

NewDispatch(m, customer) ==
    LET to == [c \in Channels |-> IF c \in Wanted(m) THEN directory[customer][c]
                                  ELSE None]
    IN  [channels |-> [c \in Channels |-> IF to[c] = None THEN "skipped" ELSE "pending"],
         to |-> to]

(* _dispatch_terminal, of an order without a terminal whose customer is    *)
(* known.  (Its second check of view.terminal never refuses: see           *)
(* ParkedUntilJoin.)                                                       *)
DispatchTerminal(t, m, customer) ==
    LET o == Msg[m].order
        d == NewDispatch(m, customer)
    IN  /\ dispatch' = [dispatch EXCEPT ![m] = d]
        /\ view' = [view EXCEPT ![o] = [customer |-> customer, parked |-> None,
                                        dispatch |-> m]]
        /\ Sends(t, m, d)
        /\ UNCHANGED <<directory, sent>>

-----------------------------------------------------------------------------
(* handle, once the thread has the lock of its order.                      *)

(* Fault: there is no lock.                                                *)
EntersAnyway(t) == at[t] = "waiting"

Enters(t) == at[t] = "waiting" /\ lock[OrderOf(t)] = None

(* The message was dispatched before: go on with what is pending.          *)
ResumeMessage(t) ==
    /\ Enters(t)
    /\ dispatch[job[t]] # None
    /\ Sends(t, job[t], dispatch[job[t]])
    /\ UNCHANGED <<directory, view, dispatch, sent>>

IsNew(t, types) ==
    /\ Enters(t)
    /\ dispatch[job[t]] = None
    /\ Msg[job[t]].type \in types

Created(t) ==
    /\ IsNew(t, {"created"})
    /\ view[OrderOf(t)].customer \in {None, Msg[job[t]].customer}

Terminal(t) == IsNew(t, {"completed", "cancelled"})

OtherCustomer(t) ==
    /\ IsNew(t, {"created"})
    /\ view[OrderOf(t)].customer \notin {None, Msg[job[t]].customer}
    /\ Returns(t, "conflict")
    /\ UNCHANGED <<directory, view, dispatch, sent>>

(* order_created joins the parked terminal event.                          *)
Join(t) ==
    /\ Created(t)
    /\ view[OrderOf(t)].parked # None
    /\ DispatchTerminal(t, view[OrderOf(t)].parked, Msg[job[t]].customer)

(* A redelivered order_created resumes the sending, too.                   *)
ResumeOrder(t) ==
    LET m == view[OrderOf(t)].dispatch IN
    /\ Created(t)
    /\ view[OrderOf(t)].parked = None /\ m # None
    /\ Sends(t, m, dispatch[m])
    /\ UNCHANGED <<directory, view, dispatch, sent>>

Learn(t) ==
    /\ Created(t)
    /\ view[OrderOf(t)].parked = None /\ view[OrderOf(t)].dispatch = None
    /\ view' = [view EXCEPT ![OrderOf(t)].customer = Msg[job[t]].customer]
    /\ Returns(t, "ok")
    /\ UNCHANGED <<directory, dispatch, sent>>

(* The order has another terminal event, decided or parked.                *)
OtherTerminal(t) ==
    /\ Terminal(t)
    /\ \/ view[OrderOf(t)].dispatch # None
       \/ /\ view[OrderOf(t)].customer = None
          /\ view[OrderOf(t)].parked \notin {None, job[t]}
    /\ Returns(t, "conflict")
    /\ UNCHANGED <<directory, view, dispatch, sent>>

Park(t) ==
    /\ Terminal(t)
    /\ view[OrderOf(t)].dispatch = None /\ view[OrderOf(t)].customer = None
    /\ view[OrderOf(t)].parked \in {None, job[t]}
    /\ view' = [view EXCEPT ![OrderOf(t)].parked = job[t]]
    /\ Returns(t, "parked")
    /\ UNCHANGED <<directory, dispatch, sent>>

(* Fault: a decided terminal event is not looked for.                      *)
DecideAgain(t) ==
    LET v == view[OrderOf(t)] IN
    /\ Terminal(t)
    /\ v.customer # None
    /\ DispatchTerminal(t, job[t], v.customer)

Decide(t) ==
    LET v == view[OrderOf(t)] IN
    /\ Terminal(t)
    /\ v.dispatch = None /\ v.customer # None
    /\ DispatchTerminal(t, job[t], v.customer)

-----------------------------------------------------------------------------
(* _send: the provider's answer for one channel.                           *)

Recorded(t, state) ==
    [dispatch EXCEPT ![sending[t]].channels[at[t]] = state]

Accepted(t) ==
    LET m == sending[t] IN
    /\ at[t] \in Channels
    /\ dispatch' = Recorded(t, "sent")
    /\ sent' = [sent EXCEPT ![OrderOf(t)] =
                  Append(@, [channel |-> at[t], to |-> dispatch[m].to[at[t]], message |-> m])]
    /\ Sends(t, m, dispatch'[m])
    /\ UNCHANGED <<directory, view>>

(* PermanentError, and every exception but TransientError.                 *)
Refused(t) ==
    /\ at[t] \in Channels
    /\ dispatch' = Recorded(t, "failed")
    /\ Sends(t, sending[t], dispatch'[sending[t]])
    /\ UNCHANGED <<directory, view, sent>>

(* Fault: the message is acknowledged although a channel is pending.       *)
GivesUp(t) ==
    /\ at[t] \in Channels
    /\ Returns(t, "settled")
    /\ UNCHANGED <<directory, view, dispatch, sent>>

(* TransientError: the later channels are not tried.                       *)
Retry(t) ==
    /\ at[t] \in Channels
    /\ Returns(t, "retry")
    /\ UNCHANGED <<directory, view, dispatch, sent>>

Next ==
    \/ \E c \in Customers, contact \in Contacts : Put(c, contact)
    \/ \E t \in Threads :
         \/ \E m \in Messages : Receive(t, m)
         \/ ResumeMessage(t)
         \/ OtherCustomer(t)
         \/ Join(t)
         \/ ResumeOrder(t)
         \/ Learn(t)
         \/ OtherTerminal(t)
         \/ Park(t)
         \/ Decide(t)
         \/ Accepted(t)
         \/ Refused(t)
         \/ Retry(t)

Spec == Init /\ [][Next]_vars

-----------------------------------------------------------------------------
(* Properties.                                                             *)

(* No customer gets a second email or a second SMS for an order, whatever  *)
(* is redelivered, retried or handled by several threads at a time         *)
(* (README.md: "a retry does not double-email").                           *)
SentOnce ==
    \A o \in Orders : \A i, j \in DOMAIN sent[o] :
        sent[o][i].channel = sent[o][j].channel => i = j

(* Everything sent for an order is about the one terminal event it was     *)
(* decided by, on a channel that event asks for, to the address that was   *)
(* looked up then, and is on record as sent.                               *)
OneStory ==
    \A o \in Orders : \A i \in DOMAIN sent[o] :
        LET s == sent[o][i]
            d == dispatch[s.message]
        IN  /\ view[o].dispatch = s.message
            /\ s.channel \in Wanted(s.message)
            /\ d.to[s.channel] = s.to
            /\ d.channels[s.channel] = "sent"

(* A terminal event is parked only while the customer is unknown and       *)
(* nothing is decided: order_created always picks it up.                   *)
ParkedUntilJoin ==
    \A o \in Orders :
        view[o].parked # None => view[o].customer = None /\ view[o].dispatch = None

(* A message answered with one of the final outcomes needs no redelivery:  *)
(* its order is decided and no channel is pending, nor becomes so again.   *)
SettledForGood ==
    \A t \in Threads :
        outcome[t] = "settled" =>
            LET m == view[OrderOf(t)].dispatch IN
            m # None /\ \A c \in Channels : dispatch[m].channels[c] # "pending"
=============================================================================
