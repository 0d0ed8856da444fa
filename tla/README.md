# Verification of the Alexa client library

TLA+ models of the parts of this repository that carry its control logic, the
TLC runs that check them on small instances, and TLAPS proofs of what matters
most for every instance.

Paths below are relative to `src/app/alexa/src/main/cpp/` unless they begin
with `src/`.

1. [The system](#1-the-system)
2. [Plan](#2-plan)
3. [Modules and code](#3-modules-and-code)
4. [Runs](#4-runs)
5. [Proofs](#5-proofs)
6. [Disagreements found](#6-disagreements-found)
7. [What is left out](#7-what-is-left-out)

## 1. The system

The repository is an Android project with three native modules. `opencl` and
`neuralnetworks` make OpenCL and the Android neural network API available to
Java. `alexa` is a client of the Alexa Voice Service (AVS): it keeps a
connection, receives *directives*, gives them to the *handlers* (capability
agents) registered for them and sends *events* back. It is a fork of Amazon's
AVS Device SDK, with the unit tests beside the sources (`*Test.cpp`) and
without most of the comments. Third-party libraries (curl, glib, gstreamer,
dbus, gtest and others) are part of the tree.

### Components

| Component | State it keeps | Operations | What makes it correct |
|---|---|---|---|
| Directive processor, `adsl/DirectiveProcessor.cpp` | dialog request id, directive being pre-handled, handling queue, one slot per medium, canceling queue | `onDirective`, `setDialogRequestId`, `disable`, `enable`, `shutdown`, the handlers' `setCompleted` and `setFailed`, the processing thread | one place for each directive; nothing of a finished dialog goes on; one directive per medium; order; no lost wake-up; nothing left after shutdown |
| Directive router, `adsl/DirectiveRouter.cpp`, `avs/DirectiveRoutingRule.cpp`, `util/RequiresShutdown.cpp` | rule to handler, reference counts, shutdown flag | `addDirectiveHandler`, `removeDirectiveHandler`, four calls that look a handler up and call it, `shutdown` | the most specific handler is found; counts are exact; whole registrations; one `onDeregistered` for each registration; no deadlock |
| Directive sequencer, `adsl/DirectiveSequencer.cpp` | receiving queue, flags | `onDirective`, `disable`, `enable`, `doShutdown`, the receiving thread | order and accounting from AVS to the processor; exceptions only for what nobody handles; disabled means idle; shutdown in the right order |
| Message interpreter, `adsl/MessageInterpreter.cpp` | none | `receive` | parses a message and hands it on, or sends an exception |
| Certified sender, `certified_sender/` | SQLite table, queue, current request | `sendJSONMessage`, `clearData`, connection changes, the worker thread, destruction | accepted means sent in the end, in order, across crashes; cleared means gone |
| Focus manager, `afml/`, `interrupt_model/` | channels with their activities and focus states, a patience timer for each | acquire, release, three stops, `modifyContentType`, the timer's callback | one foreground activity, the primary one of the best channel; every observer knows its focus in the end; patience ends |
| Connection, `acl/`, `synchronize_state_sender/` | transports, request queues, state of the HTTP/2 connection, post-connect operations | enable, disable, send, gateway change, status callbacks | each request in one place and answered once; one transport serves the shared queue; no transport is forgotten; calls return |
| Context manager, `context_manager/`, `util/MultiTimer.cpp` | state providers, cached states, pending requests, timers | `getContext`, `setState`, responses, timeouts | one answer for each request, with all the states it waited for |
| Threading, `threading/`, `timing/Timer.h`, `util/Executor` | task queue, worker thread, timers | submit, shutdown, start, stop | every task runs once, in order; a timer that was started runs |
| Shared data stream and attachments, `util/sds`, `avs/attachment` | ring buffer with one writer and several readers | read, write, close, seek | unread words are kept; a reader never gets overwritten words as valid; no lost wake-up; CLOSED after the last word |
| Settings, `settings/` | value, status of its synchronisation, storage | local change, AVS change, restore | both sides end with one value |
| Alerts, `acsdk_alerts/` | scheduled and active alerts, storage | schedule, activate, snooze, delete | one active alert; none is lost by a restart |
| Registration, `registration_manager/` | data handlers | `logout` | sequencer and connection off, then every `clearData` |
| Gateway manager, capabilities delegate, endpoints, capability agents, captions, media player, sample application and the rest | | | clients of the components above, or parsing and I/O |
| Neural network handles, `src/app/neuralnetworks/` | tables of native handles and the next free position | create, free, use | a Java object names the native object it was created for |

`PROJECT.json` lists all of them with their sources and their status.

### How they interact

```
  AVS --> transport --> MessageInterpreter --> DirectiveSequencer
                                                  | m_receivingQueue
                                                  v  receiving thread
                           handlers <-- DirectiveRouter <-- DirectiveProcessor
                              |                                ^  processing thread
                              +------ setCompleted / setFailed-+
  handlers --> CertifiedSender / MessageRouter --> transport --> AVS
```

All of it is C++ with threads, mutexes and condition variables. The hard
behaviours are those a unit test hardly reaches:

* **Calls made without the lock.** `DirectiveProcessor::onDirective` releases
  `m_mutex` around `preHandleDirective`, the processing thread around
  `handleDirective` and `cancelDirective`, the certified sender around
  `sendMessage`. What they knew before may be wrong after.
* **Conditional notifications.** A condition variable is notified only where the
  author thought it necessary.
* **Two locks.** The router's own mutex and that of its base class; a channel's
  mutex and its timer thread.
* **Work done later on another thread.** The focus manager and the context manager
  look at their state on the caller's thread and act on the executor's.
* **Lock-free cursors.** Writer and readers of the stream share atomic positions and
  copy the words without a lock.
* **Replacement under way.** The message router creates a transport before the last
  one has gone, and both use one queue.
* **Crashes.** The certified sender promises delivery across restarts.
* **Shutdown**, which races everything else.

`PROJECT.json` lists the hazards, each at its line and with the properties that
would catch it. Where the code really does what the hazard fears, no property catches
it: a variable of the model marks the case, the properties except it, and the hazard's
note says so.

## 2. Plan

Done, in this order: `DirectiveProcessor` (the centre of the library) and its
proofs, `DirectiveRouter`, `DirectiveSequencer` as the composition around the
processor, `CertifiedSender`, the proofs of these three; `DirectiveLifecycle` as the
abstract specification of the processor; `HTTP2Transport` and `MessageRouter`, which
composes several transports; `SharedDataStream` with its proofs; `FocusManager`;
`ContextManager`; then the proofs that were left: the refinement of
`DirectiveLifecycle`, the sequencer's accounting, the router's notifications, the
contents of a read, the context manager, the connection, and the focus manager: its
patience and what everybody was told.

Next:

1. `TaskThread` and `Executor`: the hand-over at the end of a worker. The models
   take an executor as one thread that runs its tasks in order; a module is
   to show that it is one.
2. As far as there is room: attachments, settings, alerts, and the handle tables
   of `src/app/neuralnetworks/` (positions that wrap around in a table whose slots
   are in use).

## 3. Modules and code

Names are those of the source. A variable with the prefix `m_` is a member of
the class; `...Pc` variables say where a thread is; variables marked *history*
are not in the code and only serve properties. An action is what a thread does
between taking a lock and releasing it, so a call made without the lock is two
actions with everything else possible in between. In front of some definitions
stands a variant marked *Mutant*: no specification uses it; it changes the
definition the way a plausible mistake would, and shows that the property that
names it can fail. `PROJECT.json` has the lines of each definition under `map`.

### DirectiveProcessor

| Code | Model |
|---|---|
| `onDirective`: refuse, drop, or accept; release `m_mutex`; `preHandleDirective`; look whether the directive is still wanted | `onDirectiveRefused`, `onDirectiveDropped`, `onDirective`; `RouterPreHandle` or `onDirectiveUnrouted`; `onDirectiveGone` or `onDirectiveQueued`; `onDirectiveReturn` |
| `processingLoop`: wait; `processCancelingQueueLocked`; `handleQueuedDirectivesLocked` | `Relock`, `WaitForWork`, `SpuriousWakeup`; `processCancelingQueueLocked`, `CancelDirective`, `CancelingDone`; `handleQueuedDirectivesLocked`, `HandleDirectiveSucceeded`, `HandleDirectiveFailed`, `RoundDone` |
| `getNextUnblockedDirectiveLocked` | operator of the same name, a closed form of the loop |
| `scrubDialogRequestIdLocked`, `removeDirectiveLocked`, `queueAllDirectivesForCancellationLocked` | part of every action that calls them |
| `DirectiveHandlerResult` | `setCompleted`, `setFailed`, `ReportIgnored` |
| `setDialogRequestId`, `disable`, `enable`, `shutdown` | actions of the same names; `shutdown` in its three blocks |

The deques lose elements anywhere and grow at the back only, so the handling
queue is a set with a `ticket` for each element: this keeps the order, and it
spares both TLC and the provers the sequences. A directive's policy is chosen
once, when it is received, from `PoliciesOf[d]`; that the set has several members
stands for all a configuration may say. A handler (external to the class) may
report any time after it got its result object, more than once, and even after
its directive was cancelled. It stops working on a directive when it reports, is
cancelled, or returns from `handleDirective` for a non-blocking policy
(`engaged`).

`DirectiveLifecycle` says what the processor promises without any of its queues,
threads and locks: each directive goes once through its stages (received, queued,
being handled, gone; or condemned and cancelled), and one is started only when
nothing that is being handled needs a medium of its. `StageOf` reads the stage off
the place a directive is in, and `LifecycleKept` is the abstract specification under
that mapping.

### DirectiveRouter

`matchers` is the list of the five lookups of `getHandlerAndPolicyLocked`; a rule
is a record of four fields that may be the wildcard. `addDirectiveHandler` is two
actions because `isShutdown()` waits for a second lock while `m_mutex` is held
(`owner`). The four calls that look a handler up differ only in the method they
call, so `CallHandler`, `HandlerReturns`, `callNotifies` and `CallReturns` model
all of them with their `HandlerCallScope`. `shutdown` is `RequiresShutdown::shutdown`
around `doShutdown`. `MaxRegistrations` bounds how often a handler is added.

### DirectiveSequencer

Extends `DirectiveProcessor` and adds the receiving thread, so the composition is
exact: the steps of the processor inside it *are* those of `DirectiveProcessor`,
and `onDirective` is called only by the receiving thread. `disable` holds the
sequencer's mutex over two calls of the processor and so is two actions.
`addDirectiveHandler` and its relatives pass through to the router and are modelled
there. One thing of it is modelled here too: `adding` says that a call of
`addDirectiveHandler` has the router's mutex and asks `isShutdown()`, which waits for
the mutex of `RequiresShutdown`. A call begun before the receiving thread was joined
does nothing here but last until then, so calls begin at that point. `doShutdown` is a
step for each thing it waits for: the receiving thread (`doShutdownJoins`), the
processor's shutdown, the mutex of `RequiresShutdown` (`doShutdownRouter`) and, with
that one held, the router's (`doShutdownRouterRemoves`). A second lock, the processor's,
is taken inside the first and never the other way round; the model keeps that nesting.

### CertifiedSender

`m_storage` is the table (a set of rows with ids), `m_messagesToSend` the queue,
`workerPc` the worker's place in `mainloop`. `nextId` is SQLite's maximum plus
one, which starts at 1 again when the table is empty. `Crash` loses everything
but the table, also between `store` and `push_back`; `create` loads the table. `load`
is the set of queues it can return with success: all rows in the order of their ids,
or only the first ones, because the code ignores an error of every `step()` but the
first (`SQLiteMessageStorage.cpp:134`). `unloaded` (history) are the rows left out.
`destroy` and `destroyJoins` are the destructor. Calling `pop_front` on an empty
deque is undefined behaviour: the worker goes to `"undefined"`, from where
nothing but a crash is known to happen. `erase`, `store` and `clearDatabase` may
fail. The history variable `disturbed` records that a `clearData` hit a message
that was being sent, or failed; it separates the behaviour that is right from the
disagreement of section 6.

### HTTP2Transport and MessageRouter

`m[t]` are the members of transport `t` and the places of its threads: the main loop
(`loop`, with a value for every function of `mainLoop` and for the parts of
`sendMessagesAndPings`), the post-connect thread (`post`), the downchannel, and the
requests under way (`handlers`). `setStateLocked` with `Allowed` is the table of state
changes of the code. A main loop looks at the shared queue and takes a request from it
in two steps, since the queue has a lock of its own: `MonitorSees` and
`MonitorTimesOut`, `CanSendShared` and `DequeueShared`, with `seen` in between. Whoever
empties the queue meanwhile leaves the loop with a null request, which it dereferences
(`HTTP2Transport.cpp:465`, `:499`, `MessageRequestHandler.cpp:98`): the loop is
`"crashed"`, and nothing more is said of the program. The request queue that successive
transports share, and the flag that a serialized request waits for its acknowledgement,
are variables of their own.
`MessageRouter` extends it: `m_transports`, the active transport, and the calls of
`enable`, `disable`, `setAVSGateway`, `doShutdown` and `sendMessage`, each in its
pieces between two releases of `m_connectionMutex` (`moved` is the list of transports
a caller has taken and still has to shut down), and the observer calls of the
transports. `doShutdown` takes the first request from the shared queue and then clears
it, two steps (`doShutdownClears`). AVSConnectionManager keeps `enable`, `disable` and
`doShutdown` apart; nothing keeps `setAVSGateway` apart from them. `N` and `MaxEnables` are
bounds.
The history variable `overlapped` marks that a transport was created while another
client was in `setAVSGateway`, the one way to two transports at one queue; `dropped` are the
requests that `doShutdown` clears away.

### SharedDataStream

The word at position `k` is `k`, so a slot is right for a reader at position `c` if it
holds `c`. `WriteBegins`, `WriteWord` and `WritePublishes` are `Writer::write`; `Space` is
what each policy allows. `Reader::read` is a chain of steps (`checking`, `empty`, `drowsy`,
`asleep`, `awake`, `copying`, then `ok`, `overrun` or `closed`), because the cursors are
read one by one and the writer moves in between. `Holding` are the places at which a
reader has `dataAvailableMutex`. `late` marks a reader whose first position was gone
before it was enabled, `oversized` a write of more words than the buffer holds: both
are ways in which the code gives out wrong words, and the properties name them.

### FocusManager

A thread's work is a sequence of small operations (`todo`), each what it does under
one lock or in one call of an observer; an operation may put others in front of the
rest, as a call does. Threads are the executor, one caller at a time, and the timer
of each channel with the steps of `timing/Timer.h` (`timer`, `stopping`, `expiring`). A
channel's `m_mutex` that is held while the timer thread is joined, and that the timer's
callback waits for, ends in `stuck`. `overtaken` and `cutShort` mark two more things that
do go wrong (section 6). The interrupt model is a constant.

### ContextManager

Every task of the executor is one action, and every public call one that submits it;
`setState` with a token also looks at the pending requests on its caller's thread. The
timers are `m_tasks` with tokens from `m_nextToken`, as in `MultiTimer`; they fire at any
time. `m_pendingRequests[token]` of a request that is gone makes a default tracker, as
`std::map` does, whose timer token is 0 (`strayCancel`). A context has what
`getContextAvailableCallbackIfReadyLocked` adds to it (`Added`), and `Lacking` is the part of
it without a state: the code adds an ALWAYS or NEVER legacy capability whether it has a
state or not, and takes `value()` of an empty `Optional` then. `renewed` and `emptied`
(history) say for which pending requests a provider was replaced or its state was set
to an empty one.

## 4. Runs

`MC*.tla` give the constants their values, `MC*.cfg` select properties.

| Run | Configuration | Instance | Shows |
|---|---|---|---|
| `processor_three` | `MCThreeDirectives.cfg` | three directives, two of a dialog; policies AUDIO+VISUAL blocking, AUDIO non-blocking, VISUAL blocking; 1.6 million states | dialogs, places, mediums, order, wake-ups and exit; `LifecycleKept`: it implements `DirectiveLifecycle`; `ClosedFormIsLoop`: the closed form used for `getNextUnblockedDirectiveLocked` is what the loop of the code returns |
| `processor_live` | `MCLiveness.cfg` | a blocking and a non-blocking directive on AUDIO, of two dialogs | every directive leaves, although one dialog interrupts the other in every state |
| `router_safety` | `MCRouterSafety.cfg` | four handlers with overlapping and invalid rules, two registrars, two callers, each handler added up to twice | counts, shutdown, notification; `HangsOnlyOnLockOrder`: its calls hang in one way only |
| `router_deregistered_twice` | `MCRouterDeregistered.cfg` | one handler, one registrar, one caller | violation, section 6 |
| `sequencer` | `MCSequencer.cfg` | two directives on AUDIO, one of a dialog; handlers being registered | order and exceptions; `doShutdown` stops its threads in order; accepted directives are delivered; `doShutdown` returns, unless `addDirectiveHandler` comes upon the router's shutdown |
| `sender` | `MCSender.cfg` | three messages, queue of two, two stops, loads that break off, one `clearData` | nothing lost, order, queue and table agree; accepted is answered; the destructor returns |
| `sender_clear_loses` | `MCSenderClearLoses.cfg` | two messages, one `clearData`, no stop | violation, section 6 |
| `connection` | `MCConnection.cfg` | two transports, one request, a gateway client; 420,000 states | no transport is forgotten, CONNECTED is true, one server of the queue, which gets the request it has seen; `disable`, `doShutdown` and `setAVSGateway` return; a request is answered |
| `connection_post` | `MCConnectionPost.cfg` | two transports, a request of a client and one of a post-connect operation, both serialized; 770,000 states | a request is in one place |
| `sds` | `MCSharedDataStream.cfg` | a buffer of two words, four words written, two writers in turn, a blocking and a non-blocking reader that seek and close; all policies; 3.9 million states | unread words are kept, reads are intact, no wake-up is lost, CLOSED comes last |
| `focus` | `MCFocusManager.cfg` | two channels, four activities of which two have patience and two share an interface, three acquisitions and two other calls; 1.1 million states | everybody knows its focus, patience ends, tasks finish |
| `context` | `MCContextManager.cfg` | two providers, an old one of any policy and a new one, two requests, two answers, one change; 560,000 states | one answer, a complete one, and one for every request |

**Why the bounds are enough.** Three directives are the smallest number with one that
occupies a medium, one that is blocked and passes its mediums on, and one that is
behind it. One dialog and "none" give every mixture of directives that a scrub takes
and leaves; the run with two dialogs adds a directive of the new dialog while one of
the old is being handled (`processor_live`). Two registrars and two callers are the
smallest numbers with a race within each kind; two registrations of one handler show a
removal that races a new registration. A queue of two, three messages and two stops
let a message be refused by a full queue, and let a restart happen before, during and
after a retry. Two transports are the one that goes and the one that comes. A buffer
of two words and four words written let every slot be overwritten, and writes of up to
three words exceed the buffer. Three acquisitions fill a channel with a current
activity and one that waits out its patience while another channel comes or goes. Two
requests let one be answered late while the next is pending. For most invariants the
bounds matter little: they are proved for every instance (section 5). The types,
`RegisteredWhole` and `RoutedToMostSpecific` of the router, `NothingLostOnTheWay` and
`DisabledMeansIdle` of the sequencer, and `PopsWhatItSent` and `ClearedUndisturbed` of
the sender are not checked by a run because they are proved. In `connection` the case
`overlapped` does not come up: what holds without it is what the run shows, and the
theorems of `MessageRouterProofs` say the same for any number of clients and calls. A
crash of a main loop does come up in `connection`: the gateway client is still
shutting a transport down when `doShutdown` empties the queue.

Liveness is checked in the run of the invariants where the state space allows it. The
processor has a run of its own, without a third directive and the VISUAL medium.
Messages of post-connect operations go through a transport's own queue, and have a run
of their own (`connection_post`) without a gateway client; `RequestSafety` proves what
it checks for any number of both. `CallsReturn` has a gateway client in its run, since
`setAVSGateway` is one of the calls that have to return. Most liveness properties say
that *again and again* nothing is left waiting, for all directives, messages, requests
or callers at once; what is accepted or answered stays so, so that this says the same
as "each one eventually is".

**Deadlock** is checked for the processor, the sequencer and the sender. The router can
hang, which is what `HangsOnlyOnLockOrder` is about; in the other models the bounds let
all clients stop, and the liveness properties show that nobody waits for ever.

**Symmetry** (of registrars and of callers) is used in `router_safety`, which checks
invariants only.

**Fairness.** Nothing is assumed of clients: they need not call anything.
* A thread that can go on goes on (weak fairness of `Processing`, `Worker`, the
  joins). Threads of the operating system do.
* A thread that waits for a mutex gets it though others take it again and again
  (strong fairness of `Receiving`, `ReceivingLoop`, `ShuttingDown` and
  `shutdownCancelAll`; of `MonitorSees`, the wait of a transport that ends when its time
  is up).
  `std::mutex` does not promise this, the systems the
  library runs on do in practice, since no thread takes the mutex in a tight loop.
* Handlers' methods return, and a handler at work on a blocking directive reports
  in the end, which is their contract. `EveryDirectiveLeaves` needs this: a handler that
  never reports keeps its medium for ever.
* The certified sender is started again, is connected again and again, and AVS in
  the end gives an answer that is not a request to retry. Without that no sender
  delivers. It is not assumed that AVS answers a sender that is being destroyed.
* Exchanges with AVS end, with an answer or because the connection breaks, and
  post-connect operations return (`connection`); that a connection ever comes
  about is not assumed. State providers need not answer: the timer does.
* No fairness for spurious wake-ups: work is found through the notifications of
  the code alone.

## 5. Proofs

Everything here is proved for all values of the constants, from the assumptions
named in the modules (`DirectivesAssumption`, `IdsAssumption`,
`PoliciesAssumption`: no directive is the null pointer, no dialog id is the empty
one, policies are policies; `FieldsAssumption`, `HandlersAssumption`,
`ThreadsAssumption`: the wildcard is no value, handlers, configurations and
threads are finite and no configuration is empty; `SdsAssumption`: sizes and
positions are numbers, the buffer is not empty; `ContextAssumption`: the kinds of
providers are capabilities; `TransportAssumption` and `RouterAssumption`: bounds are
numbers, requests are not the null pointer, and the gateway's clients are not the
connection manager; `FocusAssumption`: priorities are numbers, every activity has a
channel and a content, and the interrupt model gives every pair a mixing). There may
be infinitely many directives. Each inductive invariant was an invariant of TLC's run
of its component before it was proved.

**`DirectiveProcessorProofs`**
* `TypeCorrect`: `TypeOK`. Split into `FlagTypes`, `PlaceTypes` and `ThreadTypes`;
  the last is inductive only with the fact that the directive being pre-handled is
  the one `onDirective` works on.
* `DialogSafety`: `CurrentDialogOnly`, inductive given the types. The interesting
  steps are those that change `m_dialogRequestId`, each with the scrub that goes
  with it.
* `PlaceSafety`: `OnePlace`, with the strengthening `Received` (only what
  `onDirective` was called with is anywhere), without which a directive could
  arrive a second time.
* `MediumSafety`: `MediumExclusion`. Not inductive: it follows from `MediumsHeld`,
  which says that a handler at work keeps *all* its slots until its cancellation is
  queued, and that during a call of `handleDirective` nobody else is in the slots
  of that directive. That is why resetting slots without looking is right.
* `OrderSafety`: `NoOvertaking`, with `TicketsBounded`.
* `WakeupSafety`: `NoLostWakeup`, one case for each step that changes what the
  wake-up predicate reads: it notifies, or the predicate stays false.
* `ExitSafety`: `CleanExit`, with `Moves` (only an enabled `onDirective` brings a
  directive in) and `NothingAfterShutdown`: nothing is wanted after
  the second block of `shutdown`, and a round of the loop that did nothing saw an
  empty canceling queue without releasing the lock.
* `ProcessorImplementsLifecycle`: `LifecycleKept`, the refinement under `StageOf`. All steps
  that scrub, remove or cancel are one step of the life cycle, `Condemn`, with the
  directives that go to the canceling queue and the one that leaves (`Parted`). The
  invariant it needs beyond the places is `Seated`: a directive that occupies a medium
  occupies those of its policy and no others. So the slots say whether it is being
  handled, and an unblocked directive finds its mediums free.

**`DirectiveRouterProofs`.** The inductive invariant is the types, `OwnRules` (a
handler has all its rules or none, and the rules it has are valid),
`ShutdownStages` (the flag means that `shutdown` has ended, and from the removal
of the handlers on nothing is registered) and
`ReferencesCounted`; from it `RouterTypeCorrect`, `CountSafety`, `WholeSafety` and
`RouterShutdownSafety`. Counts are cardinalities, so their proof rests on the
library's theorems about adding to and removing from finite sets. `RoutingSafety`
rests on lemmas about the five lookups: they cover the directive, they are
complete for valid rules, and the first that is configured is found.
`NotificationSafety` (`EveryRemovalNotified`) counts: `Open` are the notifications
still to come, one for each thread that removes the handler, for the shutdown
that has released it and for a registration that lasts, and no step lowers the
calls made plus these below the registrations.

**`DirectiveSequencerProofs`**
* `SequencerImplementsProcessor`: `SeqSpec => Spec`. The sequencer uses the
  processor as its specification demands, so every theorem above holds in it.
* `SeqTypeCorrect`; `DisabledSafety` (`DisabledMeansIdle`: `onDirective` may be in
  the middle of a call when `disable` comes; the proof needs that the processor is
  disabled whenever the sequencer is and no `disable` is under way);
  `SeqShutdownSafety` (`ShutdownLeavesNothing`, from `CleanExit` and the fact that
  the receiving thread has ended before the processor is shut down, and the processor's
  before the router is).
* `WaySafety` (`NothingLostOnTheWay`), inductive with `OnTheWay`: the queue has no
  repetition and the processor works on the directive the receiving thread has in hand.
* `ArrivalSafety` (`ArrivalOrder`), with `InOrder`: what has reached the processor, what
  is in hand and what is queued arrived in this order, and only the directive in hand
  gets a ticket.
* `ExceptionSafety` (`ExceptionMeansUnhandled`), with `Refused`: also a directive that
  `onDirective` is about to reject is neither queued nor being pre-handled.

**`CertifiedSenderProofs`**, from `MessagesAssumption`, `AnswersAssumption` and
`LimitsAssumption` (the null pointer is no row, answers are statuses, limits are
numbers). No property of the sender is inductive alone. The invariant `SenderInv`
adds `Keys` (ids are unique and there is always a greatest one; `Maxes` says the
latter for every subset, which makes it inductive without induction over the
table), `Accepted` (all that is stored, queued or sent was accepted, once),
`AnswerKept` (the worker erases only what AVS has answered), `ClearedGone` and
`RowOrder` (ids grow with the time of acceptance).
* `StorageSafety` and `PopSafety` need each other: the first element of the queue
  is the row that is erased because the queue is sorted and backed by the table. A row
  that is not queued was answered or was left out by `load`.
* `DeliverySafety`: a row leaves only through that erase or through `clearData`.
* `SendOrderSafety`: the first of the queue has the least id of all rows that have
  not been answered and that `load` has not left out, and `RowOrder` turns ids into time.
* `ClearSafety`, `SenderTypeCorrect`.

**`SharedDataStreamProofs`.** The types are inductive with `BeforeClose` (a reader on its
way to copy is before its close index, so the number of words is not negative).
* `UnreadWordsAreKept`: `UnconsumedKept`, inductive given the types. It rests on
  `OldestBounds` (the oldest unconsumed cursor is no further than the slowest enabled
  reader or does not move; that a least position exists comes from the
  well-foundedness of the natural numbers) and `SpaceBounds` (a writer that waits ends
  within the buffer's length of it). The case to watch is a seek backwards, which takes
  the oldest cursor back.
* `NoWakeupIsLost`, `ClosedComesLast`: `NoLostWakeup` and `ClosedMeansConsumed`, both from
  `Restful`: a reader that holds the lock and found nothing still finds nothing, and
  one about to sleep or asleep has seen neither a word nor the writer's end.
* `ReadsAreIntact`: `ReadsIntact`. `ReadInv` says that every position copied so far and not
  yet given to the write under way has its word in its slot (`WordsInPlace`). A write
  changes one slot, and two positions less than the buffer's length apart
  have different slots (`SlotsApart`, from the uniqueness of quotient and remainder for a
  divisor that is not a number literal); `UnconsumedKept` says that a reader's
  positions are not that far apart.

**`ContextManagerProofs`.** `AnswerSafety` and `ContextSafety` (`AnsweredOnce`,
`CompleteContext`) from one invariant: each request is submitted once, with a token not
used before (`SubmittedOnce`); nothing is known of a request before the executor comes
to it (`FreshUntouched`); only what was asked is answered (`AnswersAsked`, which has to look
into the executor's queue); and a pending request has not been answered and waits for
everybody who was asked and has not answered (`PendingWaits`). An answer removes the
request from the pending ones in the same task, so nothing answers it again. Whoever has
answered a pending request has a state, or was replaced or emptied since: that holds for
legacy capabilities of every policy too, of which `Lacking` takes account.

**`MessageRouterProofs`**
* `OwnedSafety`, `ReportedSafety`, `ServerSafety` from `RouterInv`: where a main loop is says how
  far its state has come (`LoopsFit`); a client has transports to shut down only while it
  does so (`ClientsFit`); and unless calls `overlapped`, `OneRunning`: only one transport is
  not on its way to the end, the active one or, if there is none, one that a client is shutting
  down, and during a `setAVSGateway` the router is disconnected. `OwnedSafety` needs no
  exception.
* `SeenSafety` (`SeenIsTaken`) from `RouterInv` and `SeenInv`: unless calls `overlapped` or
  `doShutdown` has come to the queue, no loop has crashed and what a loop has seen is still there
  (`Quiet`). Every step of another transport leaves the queue as it is or makes it
  longer, since by `OneRunning` that transport is not at the queue; and the flag that a
  serialized request waits for its acknowledgement is set by the one loop that has
  nothing in sight then.
* `RequestSafety` (`OnePlace`) from `RequestInv`, which says where a request is without
  counting: at most one kind of place at one holder (`OneSpot`), no repetition in a queue,
  no second answer. The cardinalities of `OnePlace` follow at the end. It needs no
  exception: when calls overlap or `doShutdown` empties the queue between a loop's look and its
  dequeue, the loop crashes, but no request is in two places or answered twice. A
  request that `doShutdown` clears away counts as being in its last place, and is not
  answered.

**`FocusManagerProofs`**
* `TypeSafety`: what the threads have still to do speaks of channels and activities that
  exist, although names are read long before they are used.
* `PatienceSafety` (`PatienceRuns`) from `PatienceInv`: who waits is behind the head of the
  channel and has a timer that runs for it (`Waits`), and a timer that is running was
  not told to stop (`Fresh`). The case to watch is the timer's callback against
  the executor that restarts the timer for another activity.
* `FocusSafety` (`EverybodyKnows`). The property only speaks of states in which nothing is
  left to do, so its invariant has to say in the middle of every task what is still
  to come. It has two parts, checked with TLC on the instance of the run `focus` first:
  * `Structure` holds whoever was overtaken. The executor's program has one of six
    shapes (`Shape`: a task just taken, an arrival, the focusing after it, a stop of all,
    a release with the clearing after it); what its operations say about the highest channel is
    still true when they are done (`OpFits`), because nobody but the executor changes
    `m_activeChannels` and no timer removes a primary activity (`Orderly`); a channel is
    active exactly while it has activities, except while a `setPrimary` or `clear`
    for it is pending (`ActiveFits`); and an activity arrives once and knows nothing
    before (`Arrivals`).
  * `Knowledge` holds unless somebody was overtaken. For each thing that is not
    right yet there is an operation that will put it right: a channel that is not the highest is
    in the background or will be brought there (`Backed`), the highest is in
    the foreground or will be (`Fronted`), one that is not active loses the focus
    (`Silent`), the activities of a channel in the background know or are being told
    (`BackInformed`), and so do those of the highest channel (`FrontInformed`), unless all of
    them will be told again anyway (`Redo`). `Channel::setFocus` does nothing if
    focus and mixing behaviour are the same as before, so `Knows` speaks of the
    mixing behaviour too: an activity that takes the place of the primary one must not have
    been told PRIMARY.

  Each lemma named `...Knows` takes one operation. The cases to watch: a release
  on the highest channel by which another activity of it becomes the primary one, which is
  told only because its mixing behaviour differs; an arrival on a channel that has the
  foreground already (`ArrivalTold`, the forced `setFocus`); and the caller's
  `modifyContentType` between two operations of the executor.

**Only model-checked:** all liveness properties and `HangsOnlyOnLockOrder` (fairness and
ENABLED are out of the prover's reach); `ClosedFormIsLoop`, which compares with
a recursive function. Every other invariant of a run is a theorem.

## 6. Disagreements found

Two are runs that are expected to fail.

1. **A handler is told twice that it was deregistered**
   (`router_deregistered_twice`). `removeDirectiveHandler` and `doShutdown` call
   `onDeregistered` in any case; `~HandlerCallScope` calls it again when the last
   call of the handler ends. `DirectiveRouterTest.cpp` expects one call for each
   registration. `EveryRemovalNotified` shows that the opposite, a removal without
   notification, cannot happen.
2. **A `clearData` during a send loses a later message** (`sender_clear_loses`).
   The message accepted next gets the id of the one under way, whose answer then
   erases the wrong row. If nothing was accepted in between, `pop_front` is called on
   an empty deque; and a retry puts the deleted message back into the queue. Without
   such a `clearData` the sender is right: that is what the invariants with
   `~disturbed` say.

Other behaviour that the models reach and a reader of the code may not expect has no
text in the repository that it contradicts. A property says where it stops, with a
variable that marks the case:

3. `addDirectiveHandler` and `shutdown` can wait for each other for ever: they take the
   router's mutex and that of `RequiresShutdown` in opposite orders
   (`HangsOnlyOnLockOrder`). `DirectiveSequencer::doShutdown` then does not return either
   (`LockOrderHang` in `SeqShutdownReturns`). The same order has a good side:
   `NothingRegisteredAfterShutdown` holds because of it.
4. `Channel` joins its timer thread while it holds the mutex that thread's callback
   waits for (`Channel.cpp:151`, `:183`): the executor hangs (`stuck` in `TasksFinish`).
5. A timer that is stopped and started in quick succession may find `m_stopping` still
   set, and its task never runs (`cutShort` in `PatienceRuns`).
6. `notifyActivities` and `modifyContentType` can tell an activity a focus that is out of
   date by then, after what is true (`overtaken` in `EverybodyKnows`).
7. An answer to a request of a context that is gone cancels the timer with token 0, that of
   the first request: if that is still pending it may never be answered
   (`strayCancel` in `EveryRequestAnswered`).
8. Two concurrent replacements of the active transport, one of them in `setAVSGateway`,
   leave two transports at one request queue; and a `setAVSGateway` that comes back to a
   router that another call has connected meanwhile puts a new transport beside the
   status CONNECTED (`overlapped` in `OneServer` and `ConnectedIsReported`). It takes two
   gateway clients, or an `enable` after a `disable`, which is more than the run has:
   the attempt to prove the properties without the exception led there.
9. With a NONBLOCKABLE writer a reader can sleep through a notification, since the writer
   publishes without the lock; a non-blocking reader can be told CLOSED with words left;
   a reader that is enabled late can be overrun from the start; an ALL_OR_NOTHING write
   of more words than the buffer holds misplaces them (`Keeping`, `late`, `oversized`).
10. `doShutdown` empties the shared queue without asking whether a transport is at it. While a
   `setAVSGateway` on another thread still shuts a transport down, that transport's loop may have
   seen a request that is gone when it takes it, and dereferences a null pointer
   (`"crashed"`; `SeenIsTaken` says that nothing else leads there, apart from an overlap).
11. `doShutdown` answers the first request of the shared queue and clears the others away
   unanswered (`dropped` in `OnePlace` and `RequestAnswered`).
12. A context can hold a legacy capability without a state (`emptied` in
   `CompleteContext`): its `setState` came with an empty string, and
   `ContextManager.cpp:322` takes `value()` of the empty `Optional`. The same happens with a
   NEVER capability that never had a state; it is not asked, and the property is about those
   that are.
13. At shutdown the sequencer drops what is still in its receiving queue, without an
   exception (`AcceptedIsDelivered` stops there).
14. `load` ignores the result of `step()` after the first row, so a read error in mid-table
   looks like its end: the sender is created and sends newer messages while older ones wait
   for the next restart (`unloaded` in `QueueBackedByStorage` and `SentInOrder`). The rows are
   not lost: `NothingLostUndisturbed`.

## 7. What is left out

* The components with status `not_modelled` in `PROJECT.json`, each with the
  reason. User interface, parsing, logging, wrappers of audio libraries and
  third-party code will stay out; the tables of native handles in
  `src/app/neuralnetworks/` are sequential code behind JNI with no partner to
  interleave with, and come last.
* In the modelled parts: metrics and logging; the contents of messages and
  directives; the length of timeouts (a timeout may happen at any time);
  the overflow of row ids at 2^31 (`SQLiteMessageStorage.cpp:83`); allocation
  failure. `DIALOG_REQUEST_ID_IN_ALL_RESPONSE_DIRECTIVES` is not defined by the
  build, and the code it guards is not modelled.
* The order in which a batch of cancelled directives is told of it is left open:
  the code takes them from a `std::set` of pointers.
* The order of `onDeregistered` and a new registration of the same handler: the
  calls are counted, not ordered.
