# A TLA+ model of microservice-mesh

This directory models the order-processing services of `src/` in TLA+, checks
them with TLC on small instances, and proves the most important properties with
TLAPS for every value of the constants.

    tlc -workers 2 -config MCOrderSaga.cfg MCOrderSaga.tla    # model-check
    tlapm MeshProofs.tla                                      # check the proofs

`PROJECT.json` lists every run, which source lines each definition models, the
hazards of the code with the properties that cover them, and, for each property,
a plausible bug of the code that the property catches.

## The system

A customer's order enters at the gateway as `commands.place_order`; the orders
service turns it into `events.order_created`. Inventory holds stock and payments
takes money, each answering with an event. The saga collects the answers,
decides the order (`order_completed` or `order_cancelled`) and, when it cancels,
names the compensations: release the stock, refund the payment, tell the
customer. The notifications worker tells the customer.

Every TypeScript service has the same frame: a `Memory...Store` whose
`serialize` runs one handler at a time, an outbox (an event is stored with a
`published` flag before it is published), and idempotency by stored records. The
services share no state; they meet only in messages, which may be lost, repeated
and reordered. Nothing in the repository wires the services to the broker: `run.ts`
starts a health probe only, so the delivery guarantees a service meets are those
its own tests assume.

| Component | State | Operations | What is hard | What makes it correct |
|---|---|---|---|---|
| Order saga, `src/saga.ts` | a saga per order, an index of handled messages, the terminal event and whether it is out | `handle` of order_created and four replies | replies in any order, contradictory, repeated; effects reported after a cancellation; publishes that fail with the event already out | one verdict per order, and every reported effect is part of a completed order or has its compensation announced |
| Inventory, `src/inventory.ts` | stock lots, a reservation per order, tombstones, warehouses that are down | `handle` of order_created and order_cancelled; `seed`, `markWarehouseDown` | all-or-nothing holds, cancellations that overtake orders, republishing after a release | stock equals the live holds, is never oversold, and answers tell what was done |
| Payments, `src/payments.ts` | a ledger per customer, a payment per order, keys | `reserve`, `charge`, `credit` | retries under the same or other keys, money that is neither lost nor made, integer limits | the ledger equals the payments, one true answer per order |
| Broker, `src/broker.ts` | subscriptions, round robins, a circuit breaker per subscription, deliveries in flight | `publish`, `subscribe`, `unsubscribe`, `close` | publishes that overlap, so that results reach a breaker late; members that leave between retries | nothing vanishes, publish returns, a breaker is never stuck |
| Orders, `src/orders.ts` | an order per idempotency key and message, an outbox | `handle` of place_order | retries of the same or another body | one order and one event per key |
| Contracts, `src/contracts.ts` | none | envelope creation, validation, catalog | rejecting what no consumer can use | what a producer sends has a consumer that handles it |
| Gateway, `services/gateway` | a slot per idempotency key | `POST /v1/orders` | requests that race for a slot, owners that fail | one command per key, or a retry |
| Go and Python brokers | subscriptions, round robins | those of the TypeScript broker, without breakers | locking while handlers run | those of the TypeScript broker |
| Notifications, `services/notifications` | a view per order, parked terminals, sent channels | `handle` of order_created and terminals | terminals before orders, channels that fail separately | each channel is sent at most once |
| Observability, compose, images, `run.ts` | none | formatting, parsing, policy checks | string processing | out of scope, except for `startupOrder` |

## The modules

### OrderSaga (`src/src/saga.ts`)

`byOrder`, `byMessage` are the maps of `MemorySagaStore`; `events` holds the
terminal events that reached the broker. `handle` runs under `serialize`, and
awaits nothing but the publisher, so one call is one action: `Start`,
`StartAgain`, `InventoryConflict`, `InventoryRefuses`, `InventoryReserves`,
`PaymentIgnored`, `PaymentDeclined`, `PaymentTaken`, `LateCharge`,
`LateReservation`, `LateNothing`, `Redelivered`, and `Echoed` for a terminal that comes
back. `TryPublish` has three results: `ok`, `lost` (an error, nothing sent), and
`unconfirmed` (an error, although the broker has the event). Calls that are
rejected change nothing and are no steps. The environment delivers any message
of `Inbound` at any time and as often as it likes, which covers loss,
duplication and reordering. A saga's in-place update before a publish and the
flag set after it are one action, because `serialize` lets no other handler see
the state in between.

The price stands for `(total_cents, currency)`, the rest of a payload for a
basket. A list of compensations is a set: every consumer tests membership only.

`OrderVerdict` is the abstract specification: per order a verdict, the known
effects, and the compensations announced. `OrderSaga!Verdict` maps the detailed
state to it (an effect is known once it is bound or parked); that the saga
implements it is checked by the run `order_saga` and proved.

### Inventory (`src/src/inventory.ts`)

`lots`, `down`, `byOrder` and `cancelled` are the store. `ReserveStock` and
`RefuseStock` are the two ends of the loop in `reserveLocked`, for a line is
held in the first warehouse in order that has enough; the lines of an order have
different SKUs, so that holding them one after the other or together is the
same. `Release` and `ReleaseFails` are the two ends of the loop in
`releaseLocked`: the second one has given back the lines before the missing one
and leaves the record reserved. `Tombstone` is a cancellation that comes first.
`Seed` and `MarkWarehouseDown` may come between any two messages. `Seed` of a
stocked lot sets `reserved` to 0, as the code does; `reseeded` is a history
variable that says whether it ever did so to a lot that held stock.

`byMessage` is derived from `byOrder` and is not a variable. The branch of
`reserveLocked` that makes a tombstone for a cancelled order is never taken:
`CancelledHoldsNothing`, which is proved, says that such an order has a record.

### Payments (`src/src/payments.ts`)

`available` and `held` are the columns of the ledger, `payment` the record of
each order (for `byReserve`, `byOrder`, `byId`), `byCharge` the charge keys.
`Reserve`, `FailReserve`, `ReserveAgain`, `Charge`, `ChargeAgain` and `Credit`
are the operations. A customer may be blocked at any time (`blocked` is a public
field), so any reserve may fail. `causation_ok` is whether `createEnvelope` accepts the
request's `causation_id`: neither handler checks it, and a refused reserve with
a bad one stores nothing. `MaxSafe` is `Number.MAX_SAFE_INTEGER`: amounts and
sums stay below it or the operation is refused. `credited` is a history variable.

### Broker (`src/src/broker.ts`, with the `circuitBreaker` option)

`subs`, `closed`, `rr` and `breaker` are the variables of `createMemoryBroker`.
Each element of `Calls` is a call of `publish`, whose place in `deliver` is
`call[c]`. A publish suspends at three awaits: a handler that runs, the sleep
before a retry, and the dead-letter delivery; what happens between two of
them is one action, and calls interleave only there. `targets` and `outcomes` are
history variables that count what a publish set out to do and did. The clock
`now` is an integer up to `MaxTime`. `Publish` picks the targets of the whole call;
`Deliver` is the head of `deliver` for the next one; `DeadLetter` picks who gets a
letter, which moves the round robins of the groups that match the dead-letter
subject; `LetterHandled` ends one handler of a letter.

`Subjects` holds the pure part, over sequences of tokens: `validSubject`,
`matchSubject` as the loop it is, and `Covers`, a definition of what the wildcards
promise that does not loop. `pick` lists every fan-out subscription that matches
(`FanOut`), then a member of every group, at the place of the group's first member
(`Leading`).

### Gateway (`src/services/gateway/gateway.go`)

`seen` is the map of slots; a slot goes by the request that made it, `ready` are
the closed channels and `finished` the slots with status 202. `at` says where the
goroutine of each request is. `Arrive` reads and validates; `Claim`, `Join`,
`StartOver` and `Repeat` are the branches of `beginIdempotent`, split where it blocks on
the channel; `Publish`, `Finish`, `Release` and `Close` are the rest of `placeOrder`. A
publish may fail although the command got out: `broker.Bus` returns the context's
error after the deliveries it has made.

`IdempotentKeys` is the abstract specification: keys are taken, once and for
good, and answers come from the request that took the key. `Gateway!Taken` maps to
it: a key is taken when its slot is finished.

### Orders (`src/src/orders.ts`) and PlaceOrder

`order` stands for the three maps that `put` fills in together. `Redelivered`,
`Reject`, `Repeated` and `Create` are the ends of `handleLocked`; `serialize` holds
through the publish, so each is one action.

`PlaceOrder` composes `Orders` (extended) with `Gateway` (as `Requesting`): the commands
that got out are delivered, any number of times and in any order. The gateway
compares the bytes of requests and orders their fingerprints, so the module has
bodies that differ in bytes only.

### Notifications (`src/services/notifications/worker.py`)

`view`, `dispatch`, `lock` and `directory` are the stores; a `Dispatch` goes by its
message, and `view.terminal` is set exactly when `view.dispatch` is. A thread waits
for its order's lock (`Receive`), then does everything up to its first send in
one action (`ResumeMessage`, `OtherCustomer`, `Join`, `ResumeOrder`, `Learn`,
`OtherTerminal`, `Park`, `Decide`); each provider's answer is another one (`Accepted`,
`Refused`, `Retry`). The directory may change at any time (`Put`). `sent` is a history
variable, the messages that the providers took. The second check of
`view.terminal` in `_dispatch_terminal` never refuses: by `ParkedUntilJoin`, which is
proved, an order with a parked terminal has none.

### Mesh (`CATALOG` of `src/src/contracts.ts`)

`Mesh` composes `OrderSaga` (extended), `Inventory` (as `Stock`) and `Payments` (as
`Billing`). What one of them got out is delivered to the consumers that the catalog
names, in any order and any number of times: the replies of inventory and payments
to the saga (`SagaHandles`, for the messages that are `OnBroker`), orders and
cancellations to inventory (`InventoryHandles`). Two things come from outside.
Orders are placed at any time, `order_created` being what `Orders` promises, one event
per order. And payments is a service without a handler: somebody calls `reserve`
and `charge` (`CustomerPays`), for any order, at any time and with any amount, also
for an order that was never placed or is cancelled. `StockChanges` are the
operators' calls.

The saga's messages have ids of their own and name their source's data:
`IdsNameOrders` says that the reservation and payment ids of an order are the ones
its services gave out. The saga does not get its own terminals back here, for the
catalog does not route them to it; `OrderSaga` alone has that case (`Echoed`).

### Notices

`Notices` adds the notifications worker to the mesh: it gets `order_created` and the
saga's terminals, one after the other or overtaking each other.

### Startup (`startupOrder` of `src/src/compose.ts`)

One action, `Take`, is one turn of the loop of Kahn's algorithm; every compose file
over `Names`, dependencies that are missing from the file included, is an initial
state. `Findings` is what `checkComposePolicy` makes of the result.

### MC modules

Each module `X` of a component has an `MCX` that extends it and defines a small
instance.

## What the runs check

Every action of every module fires in some run. Deadlock is checked for the
saga, inventory and payments, where some message can always come. The broker
really stops when all publishes have returned, the gateway when all requests are
answered, `startupOrder` when its queue is empty: their runs say
`CHECK_DEADLOCK FALSE`. So do those of `PlaceOrder`, `Notifications`, `Mesh` and
`Notices`, where a redelivery is always possible and there is nothing to find.

**order_saga** (about 56 000 states). Two orders. The first has two equal and
one conflicting `order_created`, two different reservations and a refusal, two
payments, one of the wrong price, and a decline: every pair of replies that the
handlers tell apart. The second order is there to be mixed up with the first.
Its properties: `EffectsAccounted` (once the saga believes its verdict is out, a
handled charge or reservation is completed or its compensation is on the
broker), `CompensationsJustified`, `OneVerdict`, `CompletedOnlyWhenPaid`,
`CustomerToldFirst`, `DecisionsStick`, and `ImplementsVerdict`.

**inventory** (about 77 000 states). Three lots of one or two units, an order of
two lines, an order of a whole lot, a conflicting request, and cancellations with
and without `release_inventory`. This is enough for competing orders, a line
that fails after another was held, a release that fails on its second line and
is repeated, and every overtaking. `StockConserved`, `NeverOversold`,
`CancelledHoldsNothing`, `AnswerMatchesRecord`, `NoStaleReply`. After a lot that held
stock was seeded again, a lot may carry less than its live reservations, never
more: `StockConserved` says both.

**payments** (about 39 000 states). Three orders of two customers, two of which
compete for one customer's money, conflicting amounts and keys, a charge key used
for two orders, and bad causation ids. `MaxSafe` is 3, so that two holds of 2
do not fit although the money may be there, and credits reach the limit. `TypeOK`
(the columns of the ledger stay safe integers), `HoldsMatchPayments`,
`MoneyConserved`, `AnswersTruthful`, `UnsentIsRetriable`, `DecisionsStick`.

**broker_delivery** (about 216 000 states). Two overlapping publishes, to
a subject of two tokens and to one of one; a fan-out subscription to `>`, which
gets the dead letters too (its own among them), a group of two whose pattern
covers the one subject and the other's dead letter, and a pattern that is
rejected; two attempts per message, breakers that open at two failures and cool
down for one tick; subscribing, unsubscribing and closing at any time.
`TypeOK`, and `NothingVanishes`: every target a publish picked is handled or
dead-lettered once. `ReachesTheEntitled`: messages and letters go to those whose
pattern covers the subject, to each group once, and to nobody else.
`HalfOpenHasTrial`: a breaker never waits for a trial that is not running, so it
is never stuck. `RefusedOnlyWithReason`: a message is dead-lettered as
`circuit_open` only during a cooldown or a trial. `PublishReturns`: every publish
ends; it meets handlers, sleeps, letters, and targets that are gone or refused when
their turn comes.

**gateway** (about 14 000 states). Three requests with one key, one of them with
another body, and a request with another key: enough for an owner, two waiters
that race when it fails, and an owner that fails again. `OneOwner`: at most one
request of a key is publishing or about to answer. `ImplementsIdempotentKeys`. And
`EveryRequestAnswered`: no waiter is left behind.

**place_order** (about 215 000 states). The gateway and the orders service.
Four requests with one key: two that differ in bytes only, one with another
payload, one whose total overflows. `OneEventPerOrder`: all events of a key are the
one stored with its order, and it is marked published only when it is out.
`AnswersTruthful`: an order, a repetition or a conflict that was answered stays true.
`ConflictOnlyAfterUnconfirmed`: when an accepted request's command is refused as a
conflict, the key's order was made by a request of another payload that was
answered 503, or is about to be, although its command had got out. Two accepted
requests never conflict. The case itself is real: such an accepted request gets
no order, and its client is not told.

**notifications** (about 147 000 states). Two threads; an order with a
completion, a cancellation, and two `order_created` that disagree on the customer; an
order cancelled without notice; contacts with both addresses, one or none; any
number of redeliveries and answers of the providers. `SentOnce`: no second email or SMS
for an order. `OneStory`: everything sent is about the order's one terminal, on a
channel it asks for, to the address looked up with it, and is on record as sent.
`SettledForGood`: an outcome other than retry, parked, ok or conflict leaves
nothing pending. "Sent" means that the provider accepted it: one that sends and
then raises `TransientError` would be asked again.

**mesh** (about 6 300 states). One order of one unit at the price 1, which is
stocked, seeded again or in a warehouse that goes down at any time, and whose
customer may be asked to pay 1 or 2. `CompletedIsBacked`: a completed order's stock is
held and its exact price captured. `EveryEffectCounts`: the conflict branches of the
saga, which drop an effect without compensation, are never taken on what the
services really report. `HeldStockIsOwed`: the stock of a cancelled order is asked
back, or will be by the terminal that is published again. `StockComesBack` and
`VerdictGetsOut` are the same in the end: the stock is given back, and the verdict of
an order that payments answered or inventory refused gets out. One order is
enough: the services meet per order, except in stock and money, where the run of
each has orders that compete, and the three invariants are proved for any number.

**startup** (about 113 000 states). Every graph of up to four services, with
dependencies that are missing. `NullOnlyForCycles`: the result is null exactly when
some services wait for each other in a circle. `StartsInOrder`: else it is complete,
each service comes after what it depends on, and with the least name of those
that could start.

**breaker_one_trial**, **breaker_cooldown** and **notices** show the three findings
below.

The message sets are bounded, not the deliveries. Two orders suffice for the
saga, inventory and payments because a handler reads and writes the record of
one order; orders meet only in stock and in a customer's ledger, where two
compete. The proofs below need no bound.

### Fairness

Four properties need fairness. `EveryRequestAnswered` assumes, in `Gateway!FairSpec`, that
the goroutine of a request runs on whenever it can (`Proceed`): the Go scheduler
does that, mutexes are held for a map access only, and publishers return, with an
error when the request's context ends. Nothing is assumed of arrivals, nor that a publish
ever succeeds.

`PublishReturns` assumes, in `Broker!FairSpec`, that every call that is under way
takes its next step (`Advances`): a handler that runs answers (`HandlerAcks`,
`HandlerFails`, `LetterHandled`), a timer fires (`Retry`), and the event loop resumes an
`await` that is ready (`NextTarget`). The last two are what the JavaScript runtime
does. The first is what every handler must do for itself:
the broker has no timeout, and a handler that hangs does keep its publish, the
later targets, and its breaker's trial waiting. Nothing is assumed of new
publishes, subscriptions or the clock.

`StockComesBack` and `VerdictGetsOut` assume `Mesh!Redelivery`: while there is
something the saga or inventory can do with a message that is out, it is
delivered again. No dispatcher is part of the repository; this is what the services
are written for. `README.md:14` says that a retry republishes the same envelope,
`README.md:15` that messages are delivered at least once, and `README.md:115` and `:119`
that inventory and the saga retry until their publish succeeds; for that, the
message must come again. A broker that gives up after three attempts
(`README.md:82`) keeps this assumption only if one of the three is let through.
Two things are not assumed. A publish may fail any number of times, though not for
ever: a message that is delivered again and again is not refused by every
publish. And nobody has to pay or to place an order.

## Findings

1. *Two trials at once* (`breaker_one_trial`, `src/src/broker.ts:145`).
   `test/resilience.test.ts:105` says the breaker "allows only one concurrent
   half-open trial". `recordFailure` cannot tell who reports: when a delivery
   admitted before the breaker opened fails during the trial, the breaker opens
   again and `trialInFlight` is cleared, and after another cooldown a second
   trial starts beside the first.
2. *An open breaker closed without a trial* (`breaker_cooldown`,
   `src/src/broker.ts:137`). `README.md:122` says an opened breaker
   short-circuits "until a cooldown lets one half-open trial through".
   `recordSuccess` closes the breaker in any state, so a success of a delivery
   admitted earlier closes it at once.
3. *A customer who is not told* (`notices`, `services/notifications/worker.py:389`).
   `README.md:7` promises to notify the customer. When an order that was cancelled
   is charged late, the saga publishes a second `order_cancelled` that asks for the
   refund only (`saga.ts:217`). If it overtakes the first one, the worker takes it
   for the order's terminal, with nothing to send, and refuses the first one,
   which asks for the notice, as a conflict. The saga itself keeps the order:
   `CustomerToldFirst` is checked and proved of what it publishes.

## What is proved

TLAPS checks every proof to its last leaf. The theorems hold for all sets of
orders, messages, lots, customers, keys, subscriptions, calls and compose services,
and all numeric parameters.

**MeshProofs**, first part, about the saga alone: `TypeCorrect`, `EffectsAreAccounted`,
`CustomerIsToldFirst`, `OneVerdictOnly`, from `Invariance`. The inductive invariant
`IInv` says, per order, how the saga and the events about it fit together (`Coherent`):
an open saga has announced nothing; a completed one has announced at most its stored
terminal; for a cancelled one, what it owes is contained in what the broker
carries plus, unless the terminal is known to be out, what the stored terminal
will carry. `EffectsAccounted` alone is not inductive: it speaks of settled
sagas only, and a failed publish must not lose what an earlier one carried. The
other part, `Indexed`, says that a handled reply's effect is bound or parked.
Each action is shown to be a `CoherentStep` of one order, and that such steps
keep `IInv` is shown once.

A second invariant, `Sourced` (theorem `Sources`), says where a saga's decision
comes from: an order that is cancelled without a reservation was refused by inventory,
and every compensation or payment rests on a reply that the saga handled
(`Founded`, `Paid`). `CompletedOrdersArePaid` and `CompensationsAreJustified` follow from
it. Each action is also shown to stick (`Sticks`): no verdict changes and nothing that
is bound or parked is lost, which gives `DecisionsAreFinal`. With these, `Refinement`
shows that every step of the saga is a step of `OrderVerdict` for one order, or a
stutter: the invariant gives the guards of the abstract actions.

**InventoryProofs**: `TypeCorrect`, `StockIsNeverOversold`, `StockIsConserved`,
`CancelledOrdersHoldNothing`, `AnswersMatchRecords`, `NoReplyIsStale`,
`RecordsOnlyGetReleased`, `ReleasesFindTheirHolds`. `IInv` adds to the checked
invariants that a record holds stock for all of its lines or for none, as its event says
(`RecordsSound`), and that a published event is its record's (`EventsSound`). That
`hold` finds a least warehouse (`MinIsLeast`) rests on the well-foundedness of
the numbers. What the live holds of a lot add up to is the cardinality of the set of
their units (`UnitsIn`), not a sum over orders: a hold or a release adds or takes away
a disjoint set, which is finite throughout (`HoldsFinite`), so that conservation needs no
induction over orders. From it follows `ReleasesFindTheirHolds`: as long as `seed` has
not replaced a lot that held stock, every line of a live reservation is carried by its
lot, and the end of `releaseLocked` that stops between two lines is never reached.

**PaymentsProofs**: `TypeCorrect` (both columns of the ledger stay safe
integers), `HoldsAreMatched`, `MoneyIsConserved`, `CapturesFindTheirHolds`,
`AnswersAreTruthful`, `UnsentIsRetried`, `DecisionsAreFinal`. `IInv` adds what a status
implies about the stored event, that a published event is on the broker, and that
the payments of a customer are finitely many cents (`Counted`), which are counted as the
units of stock are. `CapturesFindTheirHolds` says that the check of `held` in `charge`
never refuses a reserved payment.

**BrokerProofs**: two inductive invariants. `IInv` is about the breakers:
`trialInFlight` is set exactly in the state half-open (`FlagAgrees`), and a
half-open breaker has a delivery in flight that was admitted as its trial. It gives
`HalfOpenIsAlwaysTried` and `HalfOpenRefuses`. The second finding does not contradict
it: late reports end the state half-open, they never leave it without a trial. `DInv` is
about the deliveries: the live subscriptions are distinct and have valid patterns
(`SubsRight`), a delivery that runs or sleeps has attempts left for what it says
(`CallRight`), and what a publish set out to do is what it has done plus what is
still before it (`Balanced`). It gives `TypeCorrect` and `NothingIsLost`; each step of a
delivery is shown once to keep the balance, for every place it may land. With `IInv` it
gives `RefusalsHaveReasons`.

`EntitledAreReached` rests on two facts about the operators. `MatchIsCover`: the loop of
`matchSubject` finds what the wildcards promise, whatever the lengths. `PickRight`: what
`pick` returns holds one subscription for everyone entitled, and nobody twice, whatever the
round robins are at. Both walk along sequences of any length by a recursive
function: the induction they need is stated for sets (`NatInd`: a set of naturals that
has 0 and all successors has all of them), which is proved from the well-foundedness of
the naturals and needs no operator as a parameter.

**GatewayProofs**: `TypeCorrect`, `OneOwnerPerKey`, and `Refinement` of
`IdempotentKeys`. `IInv` says that an owner holds its key's slot until it answers or
releases it, and a finished request for good (`OwnersHold`, `FinishedHold`); one slot per
key makes owners unique, and that a finished slot is never deleted makes taken
keys stay taken. Each action is then a step of `IdempotentKeys` or leaves it as it
was.

**OrdersProofs**: `TypeCorrect`, `OneEventOnly`, `AnswersAreTruthful`. `IInv` adds that
an order has its command's event and fingerprint. For the composition with the
gateway, `PlaceOrderInvariance` joins this invariant with the gateway's, with
`OwnersAnswered` (a request whose command is out is answered with 202, with 503, or not
yet, and one that is accepted has finished) and with `OrdersWereAsked` (an order comes
from a command that got out). `ConflictsHaveACause` follows.

**NotificationsProofs**: `TypeCorrect`, `NothingIsSentTwice`, `EverythingTellsOneStory`,
`NothingStaysParked`, `SettledStays`. `IInv` ties a dispatch to its order's view and
back (`DispatchesFit`, `ViewsFit`), and a sending thread to the lock and to a channel
that is pending (`ThreadsFit`). `SentOnce` needs all of it: what was sent is on
record as sent, what a thread sends is on record as pending, and no other
thread is sending for that order. `ThreadsKept` shows once that a step of one
thread leaves the others' part alone.

**MeshProofs**, second part: `SagaRuns`, `StockRuns` and `BillingRuns` show that a
behaviour of the composition is a behaviour of each of its three services, so what is
proved of them alone holds in it. `MeshInv` is the conjunction of their invariants and
`Linked`, which says what holds between them: what the saga has handled was sent
by the service that answers for it, and stock is released only for
cancellations that the saga announced. From it follow
`CompletedOrdersAreBacked`, `EffectsAllCount` and `StockIsAskedBack`: for any number of
orders and lots, not the one of the run.

**StartupProofs**: `NullExactlyForCycles` and `StartsAreInOrder`. `IInv` says that the
counter of a service counts what it waits for and is not out yet (`CountersRight`),
that the queue holds exactly those that wait for nothing (`QueueRight`), and that each
service came out when it could and had the least name (`InOrder`). When the queue is
empty, whoever is not out waits for another one that is not out, which is a circle;
and the services of a circle never come out, for the first of them would have come
before one it waits for.

Assumptions, each named in the module that declares the constant and evaluated
by TLC: `InboundTyped` (messages are of the types the contracts allow),
`UniqueIds` (a message id names one message), `NoneIsNoValue`, `NoneIsNoRecord`
and `NoneIsNoSub` (undefined is no value), `SkusAndWarehousesOrdered`,
`LotsTyped`, `SeedSizesTyped`, `DemandsTyped` (an order has lines, of at least
one unit), `MaxSafeIsNat`, `CreditsTyped`, `ReserveTyped`, `ChargeTyped`,
`QueuesTyped`, `OnePatternPerQueue`, `QueuesAreNoSubs` (queues and subscriptions
are different things), `SubjectsTyped`, `OptionsTyped`, `KeyTyped` and `BodyTyped`
(a request has one key and one body), `FingerprintTyped`, `MessagesTyped`, `ContactsTyped`, and
`NoneIsNoRequest`, `NoneIsNoResponse`, `NoneIsNoName`, `NoneIsNoDispatch`. The
compositions add: `PricesAreAmounts` and `DemandOfTyped` (prices are safe
integers, baskets have lines), `IdsNameOrders` (a reservation or payment id
belongs to one order), `SourcesAsInCatalog` (a reply's source is the service that the
catalog names), `BodiesTellAll` (equal bodies have equal fingerprints), and
`StockAssumptions`, `BillingAssumptions`, `RequestAssumptions`, which are the
assumptions of the instances for the constants they get. `NamesOrdered` is
`Startup`'s.

Proved, though no run checks them by name: `RecordLifecycle` and `HoldsBacked` of
inventory, `CapturesBacked` of payments, `ParkedUntilJoin` of notifications, `FlagAgrees`
of the broker, and the type invariants of the saga, inventory, orders, gateway and
notifications.

Only model-checked: the liveness properties `PublishReturns`, `EveryRequestAnswered`,
`StockComesBack` and `VerdictGetsOut`, since the prover handles neither fairness nor
ENABLED.

## What is not modelled

- Crashes and restarts: every store is in memory and no code recovers one.
- Validation of envelopes, payloads and requests: messages are the valid ones.
  Rejected ones change nothing in any store.
- A panic in a request's goroutine (a gateway without publisher, which `/ready`
  reports as degraded): it would leave the slot's channel open for ever.
- Message ids that name two messages, for the notifications worker: it locks by
  order and finds dispatches by message.
- The reasons and SKUs of a failed reservation, currencies apart from prices,
  timestamps, trace contexts, log lines.
- In the broker: backoff delays (a retry may come at any time), blank queue names,
  `publishEnvelope`, a broker without breakers.
- Contracts: `createEnvelope`, `parseEnvelope` and the validators of payloads, and the
  routes of the catalog that no service in `src/` consumes. Payments is one: the
  catalog sends it `order_cancelled`, it has no handler for it, and nothing returns a
  hold or refunds a capture. `Mesh` therefore has no refunds either.
- Compose: the parser of the file, the `condition`s of `depends_on`, and the policy checks that
  compare strings. Images (`src/images.ts`): parsers and checks of the same kind.
- Observability and `run.ts`: headers, log lines and a health server, which keep no
  state that the rest reads. `index.ts` exports names.
- The Go and Python brokers. What the gateway relies on, that a publish may fail
  after the command got out, is in `Gateway`.

## Plan

1. The Go and Python brokers, as variants of `Broker` without breakers.
2. The saga over the in-process broker, where `serialize` is held across an
   awaited publish: a publish that leads back to the same service waits for itself.
3. `totalCents`, against a reference definition, with its overflow checks.
4. Invariants behind the liveness properties, for any number of requests and calls: a
   waiter of the gateway waits for a slot whose owner is under way or has closed it; a
   publish of the broker that is under way always has a next step.
