# A verification development for the SIL adapter

The SIL adapter couples an application with a CANoe simulation.  It is an HLA
federate: the application reads and writes *distributed objects*, and the adapter
exchanges their values with the other federates of a *federation* through OpenRTI.
The code is in `src/SUT_Cpp/SilAdapter`.

    application                    Application_Cpp, Application_C, TypeLib
    data objects, methods, fields  Cla (ClaDi, ClaExperimental, SabSerDes)
    distribution, buses, time,     DistSimAdapter: DOService, BusService,
      logging                        TimingService, TextLogService
    federate and poll thread       DistSimAdapter: RemoteAmbassador, DistSimIB,
                                     EventNotification
    run time infrastructure        OpenRTI (third party)

## 1. Inventory

**DistSimIB** (`DistSimIB.cpp`) is the facade.  State: `mRunning`, the poll thread.
Operations: `Start`, `Stop`, `StartMeasurement`, `StopMeasurement`, `IsConnected`,
and the polled mode `Connect`/`Poll`/`Disconnect`.  Its thread calls
`RemoteAmbassador::Connect` until it is online and `Poll` from then on.  Correct means:
`Stop` returns, ends the thread and leaves nothing behind; `Start` ends in a federate
that is online.

**RemoteAmbassador** (`RemoteAmbassador.cpp`) is the state machine of the federate and the
callback object of the RTI.  State: `mState`, the flags of announced synchronisation
points and of the list of federations, the names of federations, the registered
subscribers, the measurement events still to be reported.  `Connect` is a
chain of blocks, one per state, some of which wait in loops that evoke callbacks; the
callbacks change `mState` under `Connect`'s feet.  Correct means: a waiting federate goes
online only with the whole federation; a lost link or a measurement stop is noticed and
followed; the services are reset between federations; no message is left lying while
the thread sleeps.

**EventNotification** (`EventNotification.cpp`) is an auto-reset event: the RTI and
the application signal it, the poll thread waits for it.

**DOService** (`DOService.cpp`) distributes values.  State: the local sources and
targets with their HLA objects, the persistent registrations, three buffers filled by
the application's thread and emptied by the poll thread (`ProcessBuffers`), the remote
sources and targets discovered, the installed callbacks.  A value travels by an attribute
update; who discovers a source late asks for an update and gets the last value.  Correct
means: what a source sent last arrives at every target in the end, in order, whoever
joins or registers first, across departures; every registration has one HLA object.

**BusService** (`BusService.cpp`) exchanges bus messages and has a bus simulated.  State: the
handlers registered for a network or for one message id of it, what is published and
subscribed at the RTI, the HLA objects of controllers and of bus managements, the managements
known.  The application registers handlers and sends at any time; `OnJoined` makes up for what was
registered before, `receiveInteraction` iterates over the handlers.  Correct means: a handler gets every
message that is due while the federate is online and none after it is unregistered, a message the federate asked for is
told from those of others, what is subscribed is what is registered, in each federation.

**TextLogService** (`TextLogService.cpp`) sends and receives log lines.

**TimingService, UserTimer** (`TimingService.cpp`, `UserTimer.cpp`) keep the simulation
time and run the timers of the application.  State: the granted and the logical time, the
pending advance request, the requests of the user, a priority queue of timers and the
list that survives a rejoin.  Correct means: timers run at or after their time and in
order, canceled ones do not run, the federate asks for the right advances, and time does
not go back.

**Cla**: members of a distributed object (`DoProvidedData`, `DoConsumedField`, ...), each a
`ValueEntity` (bytes, a mutex, callbacks) that transmits when it is set and is set when
something is received.  A method is a pair of connections `_Call` and `_CallReturn`; the
consumer keeps the call contexts that wait for a return.  Correct means: a call gets its own
return, returns in the end, and consumers agree with the provider when all is
delivered.  `ServiceLocator`, `ClaService` and `DoRegistry` create and tear down the
members.

**OpenRTI** is vendored, and only what the adapter's promises rest on is looked at.  Its
server creates, joins and destroys federations and synchronises their members
(`ServerNode.cpp`).  For *filtered* subscriptions of interactions, which the bus messages use, every
ambassador and the server keep sets of tuples of parameter values, indexed by value
(`VariableLengthDataTuple.cpp`, `ServerModel.cpp`).  Correct means: a federate gets the
interactions one of its filters covers and no others, through any
subscriptions, unsubscriptions and departures.

**TypeLib** is a typed wrapper (synchronous calls, blocking initialisation), **SabSerDes**
and **RTFederateEncodings** are conversions, the **applications** are a loop of 100 ms.

**Interaction.** The application's thread calls Cla, which calls the services; they fill
buffers and signal the event.  The poll thread wakes up, evokes the RTI's callbacks, which
`RemoteAmbassador` hands to the services and these to callbacks of Cla and of the
application, empties the buffers, runs timers and asks for time.  Everything hard is in
the seams: callbacks that change the state during `Connect`, operations that are called in a
state they were not written for, buffers and queues reset by a rejoin, values copied under
one lock and sent without it, messages of several federates crossing each other.
`PROJECT.json` lists every hazard at its line with the properties that cover it.

## 2. Modules

| module | models | state and actions |
|---|---|---|
| `RemoteAmbassador` | DistSimIB, RemoteAmbassador, EventNotification: one federate in its thread based mode, one RTI, other federates as environment | `mState` and the flags by their names, `tpc`/`upc` where the poll thread and the application's thread are; one action per block of `Connect`, per wait loop, per step of the poll loop, of `Start` and of `Stop`, `Dispatch` for the callbacks |
| `RemoteAmbassador_proofs` | its theorems | |
| `Federation` | the part of RemoteAmbassador that names, finds, creates, joins, leaves and destroys federations, for several federates, and the server of OpenRTI that they meet at | of each federate `mState`, the index and the name of its federation, what was announced to it and what it has sent; one action per block of `Connect` and per wait, `EvokeCallbacks` with all callbacks; at the server the federations, their members, the registered points and who owes them |
| `Federation_proofs` | its theorems | |
| `DOService` | DOService on several federates, one name | registration, unregistration and transmission by the application, `ProcessBuffers` one entry at a time, every callback, `OnJoined`, `Reset`; the RTI as one queue of callbacks per federate |
| `DOService_proofs` | its theorems on types and on the refinement of `LastValue` | |
| `DOServiceObjects_proofs` | its theorems on registrations, HLA objects and the views of the federates | |
| `LastValue` | what `DOService` promises: a target gets data of its source in order, and counts no older data after newer | abstract; `DOService` refines it (`PromiseKept`) |
| `TimingService` | TimingService, UserTimer, and the part of the poll loop that computes the timeout | the times and flags by their names, the queue as the binary heap that `std::priority_queue` is, for up to three elements; grants and events by the RTI |
| `TimingService_proofs` | its theorems | |
| `FieldCalls` | a field of Cla: event, getter and setter, one provider and several consumers | threads of the provider as programs of SetData/copy/transmit/answer, call contexts, the consumer's poll thread step by step within `PopCallContext` and `OnReturn` |
| `FieldCalls_proofs` | its theorems | |
| `BusMessages` | the message part of BusService and of the CAN controller, one federate, other federates as environment | the handlers, publications and subscriptions by their names, the filters at the ambassador and the set of this connect at the server, by `TupleSets`; registration, unregistration, sending, the reservation callback, `receiveInteraction` one handler and `OnJoined` one filter at a time, `Reset`; other federates send, and subscribe filters of their own |
| `BusMessages_proofs` | its theorems | |
| `TupleSets` | the sets of tuples in which OpenRTI keeps filters (`VariableLengthDataTupleSet`), for `BusMessages` and `InteractionFilters` | operators: rows with an index from values to rows and wildcard rows, by the names of the code; inserting, erasing, resizing, finding |
| `FilterPromise` | what a filtered subscription promises: who has a filter that covers an interaction gets it, nobody else does | abstract; `InteractionFilters` refines it (`PromiseKept`) |
| `InteractionFilters`, `MCInteractionFilters` | the filters of one interaction class in OpenRTI, at the ambassadors and at the server, as `TupleSets`; its instances | the sets of each ambassador and connect and the prototypes of their parameters; subscribing, unsubscribing, leaving and sending |
| `InteractionFilters_proofs` | its theorems | |

Each module starts with its constants: switches of the configuration, sets that
restrict what the application does, and bounds.  `FieldCalls` stands on what `LastValue`
states of `DOService` (a source's data reaches each target in order), and `DOService`, `TimingService` and
`BusMessages` on what `RemoteAmbassador` does with the services: they are called in the
order `OnJoined`, `ProcessBuffers`, `Reset` that the runs of `RemoteAmbassador` check
(`ServicesResetBeforeJoin`).  `Federation` and `RemoteAmbassador` share the blocks of
`Connect`: the first has all federates and a server without faults of the link, the
second one federate with its two threads and the faults.  A "Variant" in a module is a plausible wrong form of the
definition after it, which no specification uses; each property is known to fail with the
variant listed for it in `PROJECT.json`.

Abstractions.  Names, paths, UUIDs and encodings are left out; a federation is what the
federate is a member of.  In `DOService` one name and one connection type are modelled, an
object name stands for its owner, and the RTI is atomic: an update is appended to the
queues of all other federates in one step.  OpenRTI deletes the objects of a federate that
resigns.  In `TimingService` a unit of time is a millisecond.  In `FieldCalls`
a message is in the queues of all consumers from the moment it is transmitted; the two
assignments of `OnReturn` are one step with the callback that follows them.  In `BusMessages` all messages are CAN messages,
a network has one controller of the federate and a bus simulator that is there and ready, a subscription is at the
server when the call returns, and an operation of the application falls between two callbacks or, where a constant says so, into one.
What another federate sends reaches the federate if the server's index finds it (`Delivered`), with the rows the
filters have left there.  BusService mixes filters for a network with filters for one id of it
(BusService.cpp:1039, :1072), which name one parameter more, and OpenRTI does not keep its promise for such a mix: it loses messages once a
filter is taken back, and when another federate is the first to name the id.  `Uses` says which
kinds of filters come together: `networks` and `ids` have one kind only (in `ids` the other federates may name the id too), `keeps` has both and takes none
back while it is joined, `mixes` has both and takes them back, in `otherIds` other federates name the id and this one does not.  The run and the
proofs have the first three, scenarios show what goes wrong in the others.
In `InteractionFilters` a tuple is a function of the parameters, where the code has their order in
the prototype; a call and what the server does about it are one step, an interaction carries
every parameter, and the server has no parent.  In `Federation` a federation is named by its index, the two points
of the start that are always registered and achieved together are one, the ranking of names found by a scan is
the order of their indices, and messages to the server arrive in the order in which they are sent.

## 3. Runs

All properties are stated, with the code they are about, in the modules; `PROJECT.json`
says of each run what it shows.

| run | module | what it is about | bounds |
|---|---|---|---|
| `poll_direct` | `RemoteAmbassador` | a federate that goes online at once: safety, and liveness under `FairSpec` | one start, one fault |
| `poll_waiting` | `RemoteAmbassador` | a waiting, time managed federate with slow callbacks | two starts, one fault, one ordinary message |
| `do_distribution` | `DOService` | a provider and a consumer that leave and rejoin: safety and refinement of `LastValue` | two values, one departure each |
| `do_live` | `DOService` | unregistration, a waiting consumer: safety, and liveness under `FairSpec` | one value |
| `tm_managed` | `TimingService` | regulating and constrained, everything the application may do | two timers of period 1 or 2, time 3, one departure |
| `tm_on_time` | `TimingService` | timers created beforehand, of a federate that is regulating and constrained and of one that interpolates: order, exactness, liveness | three timers of period 2 or 3, one event, time 5 |
| `call_returns` | `FieldCalls` | one consumer: fresh returns, liveness of calls | two calls in flight, two writes |
| `call_converges` | `FieldCalls` | two consumers: agreement with the provider | one call each, contexts dropped at any time |
| `bus_messages` | `BusMessages` | handlers of three kinds on two networks, a rejoin: filters, delivery, identity of the sender | three handlers, one message, one other controller, two federations; filters for networks, for ids, or both and none taken back |
| `fed_measurements` | `Federation` | federates that start and stop measurements, leave, crash and come back: they meet again, nobody is left in the middle | two federates, one of them waiting, two measurements, one stop, one departure, one event at a wrong moment |
| `rti_filters` | `MCInteractionFilters` | filters that name every parameter: exact index, refinement of `FilterPromise` | two federates, one of which leaves, three of the four filters over two values |
| `call_wrong_return` | `FieldCalls` | a violation: a consumer is given the return of another one's call, see "findings" in `PROJECT.json` | two consumers, one call each |

A fault is a lost link, a timeout, a vanished or a dead federation; it comes at every possible
point.  One is enough for what each property excludes, a fault that meets a step of the
federate; `poll_waiting` has two calls of `Start`, as `Stop` has to leave a federate
that can be started again, and the ordinary message, as a lost wakeup
needs one message that arrives between two steps (in `poll_direct` the init, the stop and the lost link are
such messages).  Two values are enough for an older one to overtake a
newer one, two timers for one to be changed past the due time of the other, three for a heap
whose order can break below the top, two calls or two consumers for returns that cross.
Two networks and three handlers
let handlers with an id, without one and for requests share and not share a network, and let a filter with two handlers be
registered and taken back before and after another one (a row is erased in the middle of three in `rti_filters`); the message may come at any point of their registrations, in a callback of another handler too, and nothing a handler is
told depends on the message before it; two federations let the old records meet the new filters, with handlers
registered before the second one is joined.  Registering before the first one throws, see `bus_before_join`.
For `Federation`, two federates and two measurements let one scan while the other
creates, joins or destroys, and let a stopped federation meet the next one; the larger
instance with three federates of which two wait (`Federates = {canoe, sut, sim}`, `Waiting = {sut, sim}`, `Starters = {canoe}`,
`MaxUntimely = 0`, `MaxMeasurements = 3`, `MaxStops = 2`, `MaxIndex = 5`) passes as well and is not among the runs.  For the filters, three rows in a set are needed for one to be
erased in the middle with rows before and behind it, and two connects for the server's sets to differ.
The periods, offsets and times of the timing runs are chosen so that timers are due at the same time
and in any order, and requests collide with them.

The liveness properties of `RemoteAmbassador` except faults where the code gives no
promise: `GetLatestFederation` waits for ever on a link that is lost, and a measurement stop dispatched behind
the loss of the link overwrites it.

### Scenarios

Further configurations show, like the violation run, how the code disagrees with a comment or a document of
its own.  They are not among the runs of `PROJECT.json`; `tlc -config <scenario>.cfg <module>.tla`
finds each property violated (`rti_*` with the module `MCInteractionFilters`).  A row without a
configuration of its own says how to get it from another one.

| scenario | property | code | what it shows |
|---|---|---|---|
| `connected_is_true` | `ConnectedIsTrue` | RemoteAmbassador.cpp:361 | the loop that retrieves the sync points evokes connectionLost, the next change of state overwrites it, and IsConnected stays true on a dead link (IDistSimIB.h:136) |
| `restart_not_signalled` | `MessagesAreRetrieved` | RemoteAmbassador.cpp:815 | `mEventNotificationSet` survives `Stop`, the second `Start` sets no handle and the thread sleeps on arrived messages (IDistSimIB.h:237) |
| `stop_hangs_waiting` | `StopReturns` | RemoteAmbassador.cpp:418 | the loop that waits for the measurement init looks at nothing `Stop` changes: `Stop` hangs until somebody starts the measurement (IDistSimIB.h:246) |
| `stop_during_startup` | `StopEndsThread` | DistSimIB.cpp:228 | `Stop` right after `Start` finds the state Offline, does nothing, and the thread goes on |
| `restart_not_signalled` with `SlowCallbacks = TRUE`, `MaxStarts = 1` | `MessagesAreRetrieved` | RemoteAmbassador.cpp:947 | the bailout of `EvokeCallbacks` leaves callbacks behind that no event announces |
| `service_buffers_assertion` | `ServiceBuffersAssertion` | RemoteAmbassador.cpp:792 | a stop or a loss evoked in `TimingService::OnJoined` makes the assertion of `ProcessServiceBuffers` fail |
| `stop_hangs_waiting` with `StopIsFollowed` | `StopIsFollowed` | RemoteAmbassador.cpp:433 | a measurement stop in one of the wait loops is not followed (IDistSimIB.h:70) |
| `do_registered_twice` | `OneObjectPerRegistration` | DOService.cpp:958 | a registration made in InitFederate gets into the persistent list and the buffer, and `OnJoined` appends the persistent one again: two objects ("Create one HLA object per source", :390) |
| `do_lost_registration` | `RegistrationsAreProcessed` | DOService.cpp:958 | a registration made between `OnJoined` and Online is in no buffer ("Processed when federation is joined", :955) |
| `do_lost_registration` with `Waiting = {}`, `RegisterIn = {"Online"}` | `RegistrationsAreProcessed` | DOService.cpp:960 | a registration made online does not signal the poll thread ("Processed in event loop", :957) |
| `do_callback_stays` | `UnregisteredIsSilent` | DOService.cpp:919 | `mLocalTargetCallbacks` is erased by the name, its keys are connection types ("Remove from maps", :918) |
| `do_early_unregister` | `ObjectsHaveRegistrations` | DOService.cpp:1027 | unregistering before the reservation has succeeded throws, and the object is registered afterwards |
| `do_early_unregister` with `Waiting = {p}`, `UnregisterIn = {"WaitForMeasurementInit"}`, `EarlyUnregister = FALSE` | `ObjectsHaveRegistrations` | DOService.cpp:1020 | what is unregistered while the federate waits for the measurement leaves its HLA object at the RTI ("Delete HLA Object", :1024): it is deleted online only |
| `tm_set_period` | `TimersInOrder` | UserTimer.cpp:50 | `SetPeriod` of a queued timer breaks the heap (TimingService.h:81) |
| `tm_cancels_itself` | `CanceledIsSilent` | TimingService.cpp:373 | a cyclic timer canceled in its callback is set again, which clears `mCanceled` (UserTimer.cpp:28) |
| `tm_created_joined` | `CyclicTimersAreQueued` | TimingService.cpp:52 | a timer created after `OnJoined` and before Online is in no queue |
| `tm_created_joined` with `CreateWhen = {"online"}` and the `PROPERTY TimersStartNow` | `TimersStartNow` | TimingService.cpp:54 | a timer created online is due at an absolute time (`timeFromNow`, IServices.h:167) |
| `tm_stalls` | `QueuedTimersFire` | TimingService.cpp:434 | a timer due already makes `TimeRequest` ask for nothing, and nothing else brings the next grant |
| `tm_too_fast` with `MaxOvershoot = 1`, `MaxTime = 4`, `MaxLeaves = 0` | `QueuedTimersFire` | RemoteAmbassador.cpp:870 | a wait that returns late makes the next timeout negative, that is, infinite |
| `tm_too_fast` | `QueuedTimersFire` | TimingService.cpp:308 | `Reset` keeps `mLastLogicalTimeValue`: after a rejoin the federate is found too fast |
| `call_wrong_return` with `FairSpec` and `EveryCallReturns` | `EveryCallReturns` | DoConsumedMethod.cpp:83 | another consumer's return pops a context created and not called yet |
| `call_returns` with `Answers = FALSE`, `Methods = {"get"}`, `MaxWrites = 0`, `MaxCalls = 1`, `TxTrigger = "OnChange"` and `EveryCallReturns` alone | `EveryCallReturns` | ConsumerCallContext.cpp:38 | nothing calls `OnTimeout` (IConsumerCallContext.hpp:18) |
| `call_overtaken` | `ConsumersConverge` | ValueEntity.cpp:36 | of two threads that set a value the one with the older copy transmits last |
| `call_overtaken` with `Methods = {"get"}` | `ConsumersConverge` | DoConsumedField.cpp:136 | the return of a getter carries a copy that is older than the event sent before it, and overwrites what the event brought |
| `call_handler_first` | `ReturnUpdatesValue` | DoConsumedField.cpp:131 | the handler of a call runs before the local value is updated (DoConsumedField.hpp:33) |
| `call_release` | `PopReturns` | DoConsumedMethod.cpp:104 | a context whose last reference `PopCallContext` holds is destroyed under the mutex its deleter locks |
| `bus_register_waiting` | `HandlersGetMessages` | BusService.cpp:1229 | `IsFederationJoined` leaves out the federate that waits for the measurement: what is registered then is subscribed neither at once nor by `OnJoined`, which has been |
| `bus_register_waiting` with `SendsArePublished` | `SendsArePublished` | BusService.cpp:991 | the same for the publication: `sendInteraction` throws once the federate is online |
| `bus_messages` with `Uses = {"mixes"}` | `FiltersAreExact`, `HandlersGetMessages` | VariableLengthDataTuple.cpp:105 | a federate with filters for a network and for an id of it takes one back: the rows with a wildcard keep their numbers in the index, and messages for the handler that stays are lost |
| `bus_messages` with `Uses = {"otherIds"}` | `FiltersAreExact`, `HandlersGetMessages` | ServerModel.cpp:806 | another federate is the first to subscribe a message with an id: the set of this one does not grow, and its handlers get nothing any more |
| `bus_resubscribed` | `HandlersGetMessages` | BusService.cpp:1098 | the second to unsubscribe does nothing then, its filter stays in the ambassador; the class as a whole is unsubscribed, and who subscribes the filter again changes nothing at the server |
| `bus_unregister_in_callback` | `NoIteratorDangles` | BusService.cpp:287 | "copy the handler list, it may get modified in a callback" (:331) is done for handlers with an id only |
| `bus_unregister_in_callback` with `UnregisteredIsSilent` | `UnregisteredIsSilent` | BusService.cpp:366 | the copy still holds a handler that the one before it has unregistered |
| `bus_before_join` | `RegistersBeforeJoin` | BusService.cpp:664 | registering before the join, which `PublishSubscribe` provides for (:865), throws in the name reservation and leaves a handler nobody can unregister |
| `bus_before_join` with `RequestedBySelfByIDIsRight` | `RequestedBySelfByIDIsRight` | BusService.cpp:352 | for handlers with an id the handle of the sender's object is decoded as the handle of a federate |
| `bus_stale_object` | `ForeignIsNotSelf` | BusService.cpp:203 | the controllers keep the object handles of the last federation, which others may have in this one |
| `fed_one_creator` | `OneCreator` | RemoteAmbassador.cpp:984 | a member that times out on the points takes the federation for dead and destroys it before its creator has joined; a third federate creates it again, so that it has two creators |
| `fed_destroyed` | `NobodyTerminates` | RemoteAmbassador.cpp:609 | a federation that exists when a federate wants to create it is destroyed before the federate joins it: `JoinFederation` throws on, and nothing catches it in the poll thread |
| `fed_measurements` with both federates in `Starters`, `MaxUntimely = 0`, `MaxStops = 2`, `MaxLeaves = 0`, `MaxIndex = 3` | `FederatesMeet` | RemoteAmbassador.cpp:1238 | two applications stop the same measurement: the second stop arrives when the point of the stop is gone, the server closes the connection of the federate that achieves it again, which forgets that it was to go to the next federation and looks for the old one again, while that one is destroyed |
| `fed_one_creator` with `MaxUntimely = 2`, `MaxMeasurements = 1`, `MaxLeaves = 1`, `MaxStops = 0` and `SynchronizedMeansAll` | `SynchronizedMeansAll` | RemoteAmbassador.cpp:984 | of two creators the second registers the point of the start again after it was synchronized: a federate is told that all are ready while another one still owes the point |
| `fed_late_waiting` | `WaitersCatchUp` | RemoteAmbassador.cpp:418 | a federate that waits for the measurement start and joins after the init was sent waits until the next one |
| `rti_wildcard_lost` | `MatchesAreExact` | VariableLengthDataTuple.cpp:106 | erasing a row renumbers the rows of the index and not the wildcard rows: filters for a network match nothing, or too much ("Returns true if newTuple matches any existing tuple, including wildcard match", VariableLengthDataTuple.h:114) |
| `rti_other_parameters` | `MatchesAreExact` | ServerModel.cpp:806 | the first filter of a connect may name a new parameter and resizes no set but its own: the others match nothing any more |
| `rti_filters` with `NothingIsSentInVain` alone | `NothingIsSentInVain` | ServerNode.cpp:1076 | "no filters left: remove the subscription" does not happen, as the emptied set of the connect stays |

Deadlock checking is off in all runs: the environment's bounds are used up in the end, and a
federate that is stopped, or whose peers are silent, has nothing to do.

### Fairness

`RemoteAmbassador!Fairness`: the poll thread is scheduled; an application that is in
`Stop` goes on (signal, join, disconnect); the RTI answers what it was asked and announces
a synchronisation all have achieved; an rtinode that is down is started again.  Nothing makes
the application call `Start` or a peer send.  `DOService!FairSpec`: each
federate's poll thread is scheduled and federates that were started join, with the measurement
started some day.  `TimingService!FairSpec`: the thread is scheduled, time policies are
enabled and advances granted, so the other federates let time go on; no event ever has to come.
`FieldCalls!FairSpec`: poll threads are scheduled and an application does not stop
inside `SetData`.  `Federation!Fairness`: the threads of all federates go on, a process that has ended is
started again, and the application that starts measurements does so some time while all are ready
for it (`MayStart`).  Nobody has to stop, leave or crash; `FederatesMeet` and
`NoFederationStaysBehind` are about behaviours without untimely events (`Calm`), as
`fed_destroyed` and `fed_late_waiting` show what one of them may do, `ConnectEnds` is about all.

## 4. Proofs

`RemoteAmbassador_proofs` proves, for all switches and bounds:

* `TypeCorrect`: `TypeOK` is an invariant.  It is inductive; the lemmas say what taking
  messages out of the queues, dispatching one, resigning and the arrival of one keep.
* `SynchronizedStartCorrect`: a waiting federate is online only after the measurement init and
  its own achievement of the synchronisation point.  `SynchronizedStart` is not inductive, as
  what makes the federate go online is a message that may be anywhere in two queues: the
  invariant `SyncInv` adds that at most one announcement of the synchronisation is on its way
  (`OneOnTheWay`), that one that is on its way belongs to a federation in which the federate
  has achieved the point (`OnTheWay`), that it waits from its achievement until then (`AchievedWaits`), and
  `OnlineSynchronized`.
* `NoLostWakeupCorrect`: the poll thread does not sleep with messages pending, for a federate that is started
  once and whose callbacks are not slow; both assumptions are needed, as
  `restart_not_signalled` and its variant with `SlowCallbacks` show.  The invariant `WakeupInv` says where
  the thread may be with an unsignalled event (`Signalled`), when the handle is set
  (`HandleIsSet`) and that there is one start (`OneThread`).
* `ServicesResetBeforeJoinCorrect`: the invariant `ServicesInv` says that the services are reset in the states before
  `InitFederate` and, as callbacks change the state in every wait, at the points of the thread before it.

`DOService_proofs`, for any federates, handles and bounds:

* `TypeCorrect`.  The inductive `TypeInv` adds to `TypeOK` that there are finitely many HLA objects, in which states the
  poll thread is busy (`PhaseInv`), what the counters bound (`CountersInv`) and that names never run out
  (`NamesInv`: a federate takes one for each registration, and again for each after a departure), which is what
  makes `Names` large enough.  The lemmas ending in `Steps` replace the searches of an operation by the entry they find.
* `PromiseHolds`: `Spec => Promise!Spec`, the refinement of `LastValue`, step by step.  What a target's callback gets is never
  older than what it got before and was written by the source: `PromiseInv` says that names and members belong together
  and values are those last transmitted (`ValuesInv`), that an HLA object has its reservation behind it
  (`ObjectsRegistered`), and that in every queue the data of a source stands in the order of its
  transmission, behind what the federate has got and up to what is written (`QueuesOrdered`).

`DOServiceObjects_proofs`:

* `OneObject` and `LastDataKept`, where nothing is registered between `Connect` and going online; with it there is a second
  object (`do_registered_twice`).  A handle is at most once among the persistent registrations and at most
  once among the buffered and the local ones (`UniqueHandles`), of which `HandleChange` lists all that can happen to
  them; the last data is with the local source, or in the registration if there is none (`LastKept`).
* `ObjectsBelong`: an HLA object has a registration, where in addition nothing is unregistered before it has its object and while
  the federate waits for the measurement; `do_early_unregister` and its variant show that both are needed.
* `RemoteViewExact`: with all queues empty a federate knows exactly the objects of the others, where nothing is unregistered while
  waiting.  `TargetsAgree`: with all queues empty a target has the last data of each source elsewhere, for all constants.
  The invariant says of each pair of a federate and an object where the news about it are: `WillBeKnown`
  (announced, asked for, or its name is on the way), `FirstNews` and `LatestNews` (the same for the data), `GoneIsNoticed` (a
  removal is behind everything that makes the object known).  `FlowSteps` states once what every step takes
  out of each queue and sends, and each conjunct follows from that (`Advance`).

`FieldCalls_proofs`, from `CallInv`, an invariant for all constants:

* `TypeCorrect`: `TypeOK` is an invariant.
* `ReturnMatchesCallCorrect`: with one consumer, a call that has returned has the return of its own request
  (with two, `call_wrong_return` refutes it).  The property is not inductive, as the answer is
  anywhere between the call and its context: `CallInv` says that the ids of a consumer's
  method object are below its counter and unique (`IdsInv`), that pending contexts are filed
  under their ids (`PendingInv`), and that requests, returns and what the receiver holds are those of
  calls that were made with that id (`RequestsInv`, `ReturnsInv`, `ReceiverInv`, `ReturnedInv`).
* `ReturnIsFreshCorrect`: with one consumer, what a getter returned was the value of the
  field between the call and the return.  Here the invariant also follows the value from
  the field through the threads that copy it and the queues (`FreshCalls`, `FreshServing` and
  the other parts of that name).
* `ConsumersConvergeCorrect`, for any number of consumers that call getters and setters and drop contexts, where the
  application of the provider does not set the field (`MaxWrites = 0`), so that its poll thread alone does.  With an application that sets it the
  property is false (`call_overtaken`), even if only getters are called: their return may carry an older value than the event before
  it.  `Follows` says that what is on its way to a consumer, from some event on or as a whole with what the consumer has,
  carries the provider's value.

`BusMessages_proofs`:

* `TypeCorrect`, from the inductive `TypeInv`, which adds to `TypeOK` that handles of handlers are those
  issued (`HandleInv`) and what is known of the federations joined (`JoinsInv`).
* `FiltersAreExactCorrect`, `HandlersGetMessagesCorrect`, for an application that is
  `Careful`: no network has handlers both for messages and for requests, the application does not
  register or unregister while the federate waits for the measurement, and of filters for networks and for ids there is one kind, or none is taken
  back while the federate is joined, and other federates name the id only if there are no filters for networks.  The conditions are
  needed, as `bus_resubscribed`, `bus_register_waiting` and `bus_messages` with the other `Uses` show; any number of
  registrations, messages and federations is allowed, also from callbacks.  `FiltersInv` says that the
  records of the service and the ambassador's filters agree (`Agree`), how they follow the
  handlers from state to state (`ClientInv`), what the kinds of filters allow (`UseInv`), and that the set at the server has one row
  for each filter of the ambassador and in its index the rows of each value and the wildcards (`Indexed`; where filters are taken back
  there are no wildcards).  From `Indexed` follows `DeliveredIsExact`: the server finds just what a filter covers.  `DeliveryInv` says that the
  handlers a message is due to cover it (`QueueInv`) and how far `receiveInteraction` has come with them (`CalledInv`).
* `RequestedBySelfIsRightCorrect`, for all constants.  `OwnInv` says that object handles are
  numbered upwards in a federation, which of them are valid, and that a message's sender tells whose it is.

`InteractionFilters_proofs`:

* `TypeCorrect`, for all filters.
* `MatchesAreExactCorrect` and `PromiseKeptCorrect`: where every filter names every
  parameter (`Uniform`), the index of the server is exact, and `InteractionFilters` implements
  `FilterPromise`: `Spec => Promise!Spec` with the filters in the ambassadors' sets as what is
  subscribed.  Without `Uniform` both are false (`rti_wildcard_lost`, `rti_other_parameters`).  The invariant
  `ServedInv` says that the server's set of a connect is the ambassador's, that it is the list of its
  filters, each once, with exactly the rows of each value in the index and no wildcards (`SetOf`), and that the
  connects with a set are the subscribed ones.

`TimingService_proofs`, for any combination of time policies, any offsets, periods and bounds on times,
and up to three timers (which is how far the heap is modelled):

* `TypeCorrect`.  The invariant is `ScalarsOK`, the numbers and flags, and `TimersOK`: timers are numbered as
  they are created, the queue has each once and not the one that runs, it is empty until the federate joins,
  and a timer is due no earlier than after a period.  The lemmas on `Push`, `Pop` and `PushAll` say which timers are in a
  queue then and that the first is due first; `TimerSteps` sorts out the few steps that change timers.
* `CyclicTimersAreQueuedCorrect`, if no timer is created between joining and going online (`tm_created_joined`
  shows what happens then).
* `TimersInOrderCorrect`, if `SetPeriod` is not called (`tm_set_period`): of the heap it is enough to know that its
  first element is due first (`OrderInv`).
* `CanceledIsSilentCorrect`, if no callback cancels its own timer (`tm_cancels_itself`) and no timer is canceled before
  a join, which restarts it.
* `TimersOnTimeCorrect`, if all timers are created before the federate joins and neither `SetPeriod` nor
  `RequestSimulationTime` is called.  `OnTimeInv` says that with a policy the time moves by grants only
  (`PolicyInv`), that an advance request is open from `TimeRequest` to the grant and timers run only between
  the grant and the next request (`RequestInv`), that the RTI holds one callback at most and no grant past the request
  (`InboxInv`), and that no queued timer is behind the simulation time or the request (`DueInv`).

`Federation_proofs`, for any number of federates, of which any may wait for the measurement start or start
measurements, and any bounds on measurements, departures and crashes:

* `RtinodeIsConsistent`, without any condition: who owes a point at the server is a member of the federation
  the point is registered in, a registered point is owed by somebody, and a federation with members exists.
* The other theorems are about behaviours in good time (`Calm`: nobody starts, stops or leaves while others are on their way,
  and no answer comes too late) in which there is one stop at most or one application that stops (`OneStop`).  Each condition is
  needed: `fed_destroyed`, `fed_one_creator` and its `SynchronizedMeansAll` variant have untimely events, and two applications that
  stop the same measurement part the federates for ever even in good time (the variant of
  `fed_measurements` above).
* `PhasesHold` is the inductive invariant `Inv`.  It says where the federates are together: they gather in federation `k` (`Gather`:
  each is outside, on its way into it, or inside and waiting), they measure in it
  (`Measure`), or they part from it (`Part`: some are still online in `k` with the stop in their inbox, some have left,
  some gather in the one after `k` already).  In each phase it says what is registered at the server, who owes it,
  what has been announced to each federate and what is still in its inbox; one federate at most is between finding
  no federation and registering its points (`OneCreates`).
  A gathering ends when the last one that owed the point of the start has achieved it, and a parting when the last one has left.
* `SynchronizedMeansAllCorrect`, `TypeCorrect` (the index of a federation grows with every stop, so with `MaxStops <= MaxIndex`
  it never exceeds `MaxIndex`), `ConnectingIsSafe` (one creator, and no exception that nobody catches),
  `MeetingPlacesCorrect` (all who are joined are in one federation or in two that follow one another) and
  `NobodyIsLeftBehind` (a waiting federate comes online only when no other one in its federation still waits for the init) follow from it.

The proofs follow the actions of `Next`, one step each.  They use the assumptions on
the constants named in the modules, which TLC evaluates in the runs.

Only model-checked is liveness (`FederatesMeet`, `ConnectEnds`, `NoFederationStaysBehind` and the properties of that
kind in the other runs): the proof system has no rules for fairness (ENABLED).  It cannot carry out
inductions over data either, which is why `TimingService` has its heap for three timers only.  That
`SynchronizedMeansAll` and `TypeOK` of `Federation` survive one event at a wrong moment is
shown by the run `fed_measurements` alone.

## 5. Not modelled

The bus managements of BusService (the bus simulators and their attributes), TextLogService, ServiceLocator and DoRegistry, TypeLib and the applications (see the
plan); encodings, serialisation, UUIDs and ClaDi have no state a protocol depends on.
The polled mode of DistSimIB and `RunTo` run the same blocks in the application's
thread.  Of OpenRTI, the distribution of updates and the hierarchy of servers are taken as external.
In `InteractionFilters` the server has the set of a connect whose filter is
unsubscribed (part of `TypeOK`), as every connect does that goes through its ambassador; when the class as a
whole has been unsubscribed before, as in `bus_resubscribed`, ServerModel.cpp:818
dereferences an iterator at the end, which `BusMessages` takes as doing nothing.  Left out of `DOService`: targets registered by the UUID of a
source and the discovery callbacks.  Data races on containers (`mTimerQueue`, `mRemoteSources`,
`mPendingCallContexts` in one-way calls) and self-deadlocks within a single call are listed as
hazards and not modelled.

## 6. Plan

Done: `RemoteAmbassador`, `LastValue` and `DOService`, `TimingService`, `FieldCalls`, `BusMessages`,
`Federation`, `TupleSets`, `FilterPromise` and `InteractionFilters`; the proofs of section 4.

Left:

1. `BusManagement`: several federates and one network: a bus simulator registers, is discovered, initialised by
   its attributes, removed, and registered again after a rejoin; the views of all federates agree in the end, and
   a message goes out as a request or as received accordingly.
2. `ServiceLocator` and `DoRegistry`: creation and teardown while callbacks run; `TypeLib`: synchronous calls and
   blocking initialisation on top of `FieldCalls`.
3. Sending with time stamps while an advance is pending: `TimingService` and `DOService` of one
   federate together.
4. Proofs: that the simulation time never goes back; how far `SynchronizedMeansAll` holds
   of federations with untimely events.
