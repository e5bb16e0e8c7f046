# Verification of the IoTivity-C sample programs

The repository holds the sample programs and the documentation of the IoTivity C stack; the
stack itself (`liboctbstack`, `liboc`) is not in it. Its own logic is in the servers and
clients under `examples/`: what they keep between the callbacks of the stack, and the
threads, signal handlers and waits around it. This project models those programs: the ones
with a protocol of their own have a module each, and the clients and servers that differ only
in what their callbacks decide run in one module for all clients and one for all servers. It
model-checks them with TLC on small instances, and proves the safety properties
with TLAPS for all values of the constants. The stack appears only as the programs see it: as
callbacks that come or do not come, and calls that succeed or fail.

## Inventory

| Part | State | Operations | What is hard | What makes it correct |
|---|---|---|---|---|
| Light server, `SimpleClientServer/ocserver.cpp` | `interestedObservers`, `gLightUnderObservation`, `gCurrLightInstance`, the lights, `gResourceUri`, `gQuitFlag` | GET, PUT, POST, DELETE, observe and its end in the entity handler; notifier thread; presence thread; SIGINT | the notifier reads the table, and writes the flag, without a lock; the threads are cancelled and joined | the table and the flag agree with the stack's observers; no id of a stranger is notified; every observer that stays is notified; nothing calls a stopped stack; the server ends |
| Slow server, `ocserverslow.cpp` | `gRequestList`, `LED`, the alarm | entity handler that copies and queues; SIGALRM handler that serves; clean-up | a signal handler between any two steps of the list's owner | each request served once, in order; nothing after the clean-up; progress |
| Provisioning client, `provisioning/provisioningclient.c` | device lists and their counts, `g_doneCB` | 3 discoveries, 10 operations with a callback, 2 without | late, missing and early callbacks that share one flag; stale counts | selections are in the list; an operation is not ended by a stranger's callback; waits end |
| GET client, `get/get_client.c` | `waiting`, `resourceList`, `device_address`, `conn_type` | menu thread with 6 requests; 4 service routines in the main thread | a flag instead of a lock; a response faster than its sender | list and address are never used by both threads; the address is whole; the program ends |
| Light client, `occlient.cpp` | `TestCase`, `serverAddr`, counters of notifications, `gPresenceHandle` | discovery that starts a test; GET, PUT, POST, DELETE, observe, presence; thread that deletes again | every discovery response runs the test again, two observations share a counter, the second DELETE reads the address another response writes | requests go to who answered; each subscription ends, once; a DELETE is repeated at most once |
| Remote access client, collection client, slow client | the same, with fewer tests | discovery, one test | handles overwritten, cancelled or never set | the same |
| Basic operations, `ocserverbasicops.cpp`, `occlientbasicops.cpp`, `ams/*` | LED, instances, `gResourceUri`; list of resources; address, secure port and URI | GET, PUT, POST; the queries of each new resource | instance limit, `gResourceUri`; answers from several addresses; the secure port of another resource | URIs name the resource; each resource is asked once; a secure port goes with a secure resource |
| Collection server, `ocservercoll.cpp` | light, fan, room; flag; notifier | handlers of the room and of its members | a shadowed global: the notifier has no handle | SIGINT ends it, its thread joined first (nobody is notified: see `Servers`) |
| GET, discovery and mraa servers, `get/`, `discovery/`, `mraa/` | the sensor's pins | dispatchers and service routines; a work thread | routines that are not set, payloads that are never computed, a work thread that outlives main | what is sent was computed; requests do not end the process |
| Sample servers for provisioning, AMS service, routers | as the basic operations server, or none | the same | | the same |
| Tizen light server and client | as their counterparts, and the GLib main loop | a thread that calls `OCProcess`; `stopPresenceCount` | the thread tells another thread's loop to quit, and may be too early | presence stops once; joins before `OCStop` |
| Direct pairing client, discovery and mraa clients | lists of devices and resources | menus | lists replaced under a running pairing | |
| Arduino light server | flag | `setup` and `loop` | | |
| Formatting, logger test, documentation | none | | | |

The programs talk to each other only through the stack: a client's request becomes a call of
the server's entity handler inside `OCProcess`, an observer's registration is first accepted
by the stack and then announced to the handler, and a notification is asked for by resource
handle or by observation ids. Inside a program the parts share globals: the light server's
table and flag (main thread and notifier), the slow server's list (main thread and signal
handler), the provisioning client's `g_doneCB` (menu and callbacks), the GET client's
`waiting`, list and address (two threads).

## Modules

| Module | Role |
|---|---|
| `ObserverTable` | abstract: a bounded set of observers |
| `LightServer` | the light server, which implements `ObserverTable` |
| `LightServerProofs`, `LightTableProofs` | its theorems: types, notification list and joins; presence, table and flag, the refinement, the end |
| `InOrderResponder` | abstract: a server that defers its responses |
| `SlowServer`, `SlowServerProofs` | the slow server, which implements `InOrderResponder`, and its theorems |
| `ProvisionClient`, `ProvisionClientProofs` | the provisioning client and its theorems |
| `GetClient`, `GetClientProofs` | the GET client and its theorems |
| `ClientCallbacks` | what the clients' callbacks have in common: requests, answers, what a callback does |
| `LightClient`, `TizenLightClient`, `RemoteAccessClient`, `CollectionClient`, `BasicOpsClient`, `AmsClient`, `SlowClient` | what each client's callbacks decide |
| `Clients` | runs them: main loop, callbacks, requests, threads |
| `ClientsProofs` | its theorems: what the callbacks decide, types, requests, queries and subscriptions |
| `ServerCallbacks` | what the servers' handlers have in common: requests, what a handler does |
| `LightResources`, `TizenLightResources`, `BasicOpsServer`, `CollectionServer`, `TemperatureServer`, `SensorServer` | what each server's handlers decide |
| `ServerMains` | how the servers' main functions differ |
| `Servers` | runs them: set-up, main loop, requests, the thread that changes the light, the end |
| `ServersTypeProofs`, `ServersProofs` | its theorems: what the handlers decide and the types; the rest |
| `MC...` | instances for TLC; the values of the constants are in the `.cfg` files |

Definitions named `X_Something`, under a comment that begins with "Mutant", are variants of
`X` with one plausible mistake. They are not part of any specification: they document, for
each property, a mistake in the code that would break it.

### LightServer

`main` is the position of the main thread: `test` is the loop condition, `process` is inside
`OCProcess`, where one request at a time is handled. `ProcessPostRequest`,
`ProcessDeleteRequest`, `ProcessObserveRegister` and `ProcessObserveDeregister` are the
handlers of these names. A handler is split where the notifier can see the difference: a
registration writes the id, the valid flag and the observation flag in three steps
(`ProcessObserveRegister`, `RegisterValid`, `RegisterFlag`), a deregistration the slots and
then the flag. The loop of a deregistration is one step, for among the slots that hold the id
at most one is valid, and an invalid slot that is made invalid shows no change.
`NotifierScan` and `NotifierTake` are the two reads of a slot in
`ChangeLightRepresentation`, `NotifierNoObservers` the write that follows the result of
`OCNotifyAllObservers`. `gLightUnderObservation`, `interestedObservers` and the others bear
the source's names. `resources` and `stackObs` are the stack's resources and observers;
`OCDeleteResource` removes the observers without calling the handler for them. GET, PUT and a
POST beyond the limit touch none of these variables and appear as `ProcessNothing`.

`NotifiedIdsRegistered` speaks of slots: an id it allows was registered during the round or is in
a slot that has not been freed. After `/a/light` was deleted the stack has forgotten its
observers while their slots stay (finding 2), so such ids still count.

The table's `resourceHandle` is kept although the code never sets it: it is what
`ProcessDeleteRequest` compares, and `RoundInv` proves that the comparison never succeeds.

`WithPresence = FALSE` is a build without `WITH_PRESENCE`. There the code cancels and joins a
thread id that was never set; the model takes the outcome in which both calls return.
`pthread_create` is assumed to succeed.

After one failed creation `presenceNotificationGenerator` deletes nothing, for `res` keeps its
error: with `/a/fan` created and `/a/led` failed, `/a/fan` stays. `DeletesWhatItCreated` says
what holds without a failure: the second loop deletes only what the first created, and all of it.

### ObserverTable

For as long as `/a/light` exists, `interestedObservers` is to its clients a set of at most
`MaxObservations` ids: it grows by the observer that registers, shrinks by the one that leaves,
and turns one away only when it is full. The code has slots instead, fills one in two steps,
and empties one by lowering its flag, so that old ids stay in it. `ImplementsTable` maps
`members` to the ids of the valid slots and of the slot that is being filled; `outside` to the observers that found no slot; `gone` to `/a/light` being deleted, after
which the table keeps its slots (finding 2) and nothing is promised.

### SlowServer and InOrderResponder

`AlarmHandler` is one action that can happen between any two steps of the main thread, since
a signal handler runs to its end before main goes on. The handler's steps in main are the
copy, the insertion, the alarm; the clean-up frees one request per step. An alarm during the
clean-up makes the code use a freed request or an invalidated iterator: the outcome is a
choice between a crash and going on. `accepted`, `served` and `answers` are history. The
refinement maps the log of the abstract server to `accepted`, its position to `served` and
its value to `led`; the clean-up drops requests, which the abstract server allows by
promising nothing about when a request is served.

### ProvisionClient

One thread. A list is represented by its length, with 0 for `NULL`, as discovery returns no
empty list. `CallApi` is the pattern of nine operations: lower the flag, call the API, wait;
callbacks of this or earlier calls may run inside the call and in each `OCProcess` of the
wait. `removeDeviceWithUuid` has the two first steps in the other order. Each operation of
the menu is a definition of its name that says which list it uses and how many devices it
takes from it. `EndsWith` are the early returns. The callbacks differ only in what they print.

### GetClient

`ui` is the position of `prompt_user`, `main` that of the main thread. `ProcessResponse` is
the call of a service routine, `collectUniqueResource` proceeds resource by resource, and
within one resource by the three assignments of the address. `OCDoResource` is the sending
of any of the requests, `UiAwait` the assignment `waiting = 1` after it. An empty list printed,
or a missing response, crashes the program as the code does. A response lists finitely many
resources (`IsFiniteSet(Uris)`), which only the theorem about the end of the program needs.

### Clients

`program`, `test` and `unicast` are chosen in the initial state, as the command line does, and
the module of the program says what its callbacks do with an answer or a notification: an
`Outcome` that names the address to save, the requests to make, the subscription to cancel, and
whether the transaction is kept. `Clients` carries an outcome out, in the order of the code:
the responder's host and port are saved in two steps (`SaveHost`, `SavePort`), since the thread
that repeats a DELETE (`RequestDeleteDeathResourceTask`) copies the address at any moment, and
then the requests are made one by one (`InvokeOCDoResource`), each of which may be refused. The
basic operations client interleaves these with `collectUniqueResource`. `calls` and `live` are
the stack's: the requests it accepted, whose indices are the handles, and the handles whose
callback it still has. `OCCancel` at low quality of service ends a subscription at once; at
high quality the server confirms it, and further notifications may come before. An answer may
come from any address, any number of times while the transaction is kept; the two addresses of
the instance belong to one device.

What the model shows beyond its properties, and no property denies:

* A test is run against every responder that lists the resource, for the transaction is kept;
  the second DELETE goes to whichever server answered last, or to the host of one answer and
  the port of another, and may be made of a stack that main has stopped.
* In the Tizen and remote access clients the handle is one global and the test is `== 15`: with
  several subscriptions the notification that reaches it cancels the latest one, not its own.
  `TEST_OBS_PRESENCE_WITH_FILTERS` subscribes twice with one handle. `NotificationsBounded` and
  `CancelsLive` therefore speak of one subscription.
* The collection client never observes, and at its third response cancels a handle that was
  never set.
* The callbacks of the remote access, collection, basic operations and ams clients read through
  `NULL` when there is no response or no payload (`Crash`).
* In `ams`, a list that ends with `doxm` or `pstat` leaves that URI in the global as the target.

### Servers

`program` is chosen in the initial state; `ServerMains` gives the calls its main makes before
the loop (each may fail, and main ends or goes on: `SetUp`), what a failing `OCProcess` does,
what is joined and how it ends. `ProcessRequest` is the call of the entity handler by
`OCProcess`, which decides at once what to do (`Handling`); then, in the order of the code,
`Write` writes power and state, `CreateInstance` or `DeleteResource` calls the stack,
`OCDoResponse` builds the payload from what `gResourceUri` and the resource are then and sends
it, and `Observe` is the handler's last branch. Between any two the other thread may run.
`power += 5` is a load and a store (`Load`, `Store`), `Notify` tests the flag and calls the
stack. The observers of these programs are counted here, and one by one in `LightServer`. Both
builds of the light servers, with presence and without, are in the run.

Where the code uses what was never set, or was freed, the outcome is a choice between a crash and
going on: main joins a thread that was never started (`UnsetThread`); Tizen's handler destroys,
at its end, a `response.payload` that only responding sets (`frees`, in `Observe`); the
temperature service hands `OCDoResponse` a pointer that PUT and DELETE leave unset (payload
`unset`); the sensor reads contexts its first reading has closed (`crash = "may"`, in
`ProcessRequest`). A call of `NULL` is a crash and nothing else (`"must"`). The pins are taken to
be open after the set-up. `SurvivesRequests` says that nothing else ends a process.

`wanted` is what the requests and the thread meant to write, `lost` says that the thread
stored over a request's write, `added` how often it added while a request was handled,
`announced` the URIs of instances clients were told: history, read by the properties only.

What the model shows beyond its properties, and no property denies:

* A POST beyond the limit of instances writes the light even when no response is sent. A POST
  of the LED servers beyond it, where the comment at `ocserverbasicops.cpp:163` says the request
  updates the LED, writes nothing.
* An instance whose creation failed is announced, and counts (`failed` in
  `InstancesAnnounced`).
* After a request for an instance, the light's own representation carries the instance's URI.
* The update the thread lost may let a response show more than the query's limit
  (`QueryHonoured` says: only then).
* On Tizen, when the thread ends before the GLib loop runs, or because `OCProcess` failed, the
  main thread is never told, and waits for ever (`main = "gone"` with `glib = "running"`): the
  one outcome `ShutdownCompletes` leaves out. In every other the main thread leaves its loop,
  joins and stops the stack.
* The temperature service, if it survives a PUT or DELETE, has answered with whatever the pointer
  led to; so has the mraa sensor at every reading after the first.
* In the collection server `createResources` declares a local `light` that hides the global one
  (`ocservercoll.cpp:582`): the thread notifies a handle that is `NULL`, is refused for ever,
  and never lowers the flag (`createResources`, `Notifies`). A property would only repeat
  that line.

## Runs

| Run | Instance | What it shows |
|---|---|---|
| `LightAll` | 2 slots, 3 clients, 1 instance, broadcast, presence | types; table and flag agree with the stack; quiet after stop; presence |
| `LightList` | 4 slots, 3 clients, list notification, with fairness | the list fits; ids are of the round; even slots keep being notified |
| `LightAllLive` | 2 slots, 2 clients, presence, with fairness | observers keep being notified; shutdown completes |
| `LightDelete` | 1 client | finding: a deleted light's observers stay |
| `LightFlagRace` | 2 clients | finding: a registered client with the flag down |
| `Slow` | 5 requests: 2 PUTs, 2 GETs, 1 other, with fairness | backlog, refinement, clean-up, progress, shutdown |
| `SlowRearm` | 3 requests | finding: a backlog without an alarm |
| `Provision` | 2 devices, 3 calls, time-out of 2 rounds, with fairness | selection, ends of the wait |
| `ProvisionBlocking` | the same | finding: success without a callback |
| `Get` | 2 servers, 2 resources, with fairness | flag, address, a response faster than its sender, shutdown |
| `Clients` | 7 programs with all their tests, 2 addresses, 3 lists of resources | destinations, counts, subscriptions, unique queries |
| `Servers` | 13 programs, 2 instances, 3 requests, 2 rounds of the thread, with fairness | power, query, URIs, instances; which requests may end the process; no thread left when the stack is stopped; the end |

Bounds. The table needs a slot that is skipped by the notifier, a slot that is not, a slot
that is free, and one client more than slots for the full table: 2 and 4 slots with 3 clients
have all of these, and an id can be used again. One instance is enough for observers of
another resource than `/a/light`; the limit itself is reached. Five requests allow a queue with
PUTs before and after GETs and an unsupported method between. Three calls let two abandoned
callbacks meet a third operation; a time-out of 2 rounds stands for 60, as only its being
reached matters. Two servers are what the pieces of an address can be mixed from.
`LightAll` uses the symmetry of the observation ids, which are only compared; the runs with
temporal properties use no symmetry.

In `Clients`, two answers let a test run twice against two addresses, and a device answer
twice; the threshold of notifications is 2 instead of 15 or 20, and one more is counted for
each subscription; one request may be refused; a test's requests get one response, three where
the third matters. The lists have a plain light, and a secure LED before and after `doxm`. In
`Servers`, three requests can fill the two instances and ask once more, ask for an instance
and then for the light, or observe, observe again and leave; `SAMPLE_MAX_NUM_POST_INSTANCE` is
2 in the source. Two rounds of the thread are what a lost update and a later one need, and
`stopPresenceCount` starts at 1 instead of 10 to be passed in them. The requests of each
program are those its handlers tell apart. Neither run fills the table of observers, which
`LightAll` and `LightList` do.

Fairness. The threads are scheduled by the operating system, so that a thread that can take a
step takes one eventually: weak fairness of the main thread, the notifier and the presence
thread of the light server, of the main and the menu thread of the get client, and of the main
loop of the slow server, and of the main loop, the GLib loop and the notifier in `Servers`. The provisioning client has one thread, and fairness
is asked only of the rounds of its wait and of its return. The alarm of the slow server rings once it is armed, at most
as often postponed as requests arrive. Nothing is assumed of clients, of users or of
callbacks: no request, choice or response ever has to come, and SIGINT may never be sent.

### Findings

1. `ocserverslow.cpp:309`: the alarm is re-armed when the list is empty, where the comment
   says when it is not. Requests of a burst are answered only as others arrive.
2. `ocserver.cpp:357`: deletion of `/a/light` is to clear its observers, but compares a field
   that is never set.
3. `ocserver.cpp:713`: the notifier lowers the flag for a result that a registration has made
   obsolete; the new client is not notified until another one registers.
4. `provisioningclient.c:1526`: after the time-out the caller announces success.

`get_client.c:505` and its like raise `waiting` after the request was sent: a response that is
faster finds it down, and it stays up with nothing outstanding, so that the menu waits until
SIGINT, or the failure of `OCProcess`, ends the program. `MissedResponseIsFinal` states this
as a property.

## Proofs

What is proved holds for every value of the constants that satisfies the modules' named
assumptions: an even number of slots and a notification type of 0 or 1 (main refuses others),
disjoint sets of PUTs and GETs, finitely many URIs in the GET client, natural bounds.

* `LightServer`: the inductive invariant `IInv` is a conjunction of named parts, each proved
  in order on top of the ones before. `TypeOK` first. `ScanInv`: the scan is at an even slot and
  has collected at most half as many ids, whence `NotifyListFits`. `JoinInv`: a thread main no
  longer waits for is over, whence `QuietAfterStop`. `PresenceInv`: the sets of created and
  remaining resources at each position of the presence thread, whence `DeletesWhatItCreated`.
  `RoundInv`: everything the notifier could pick now is registered in
  this round, whence `NotifiedIdsRegistered`; it needs that a slot being filled is not valid
  yet, since the id is written before the flag.
  `FlagInv` (the flag is written by two threads: by main after the table, by the notifier only
  with broadcast) gives `FlagMatchesTable`. `TableInv` adds to the table the slot that is being
  filled, whose observer the stack already has, and gives `TableMatchesStack`; both use
  `RoundInv` for the deletion that clears no slot. On the same invariants rests the refinement,
  `TableRefinement`: the step that writes the id is `Admit` (and the set has then as many
  members as there are slots in use, `TrackedCount`), that of a full table `TurnAway`, the step
  that lowers the valid flag `Deregister`, a deletion `Gone`; all others stutter.
* `SlowServer`: `ListInv` says that what is pushed is new and that the clean-up leaves nothing
  behind; `ListIsBacklog` and `NothingAfterClear` follow; `IterInv` keeps the clean-up's iterator
  in the list although the alarm may take the front from under it. The refinement is proved step by
  step: `PushRequest` is `Accept`, the alarm with a request is `Serve`, all others stutter.
* `ProvisionClient`: `ListInv` (a list that is there has as many devices as were counted)
  gives `SelectionInList`; `WaitInv` (the flag is up only for a callback since the call, and
  only the current call and abandoned ones are owed a callback) gives `CallbackEndsWait` and
  `EarlyReturnIsOwn`.
* `GetClient`: `IdleInv` (a flag that is found down means that nothing is outstanding) gives
  `PromptMeansIdle` and `QuietAfterStop`; `AddressInv` with `PromptMeansIdle` gives
  `AddressIsWhole`. From `IdleInv` also follow that no service routine writes what the user's
  thread reads while it acts (`NoConcurrentWrite`), and from `JoinInv` (main joins that thread
  only after it was cancelled and told to quit) `MissedResponseIsFinal`.
* `Servers`: one lemma for each handler says what holds of whatever it decides (`Sound`: it
  concerns the resource asked for, and only main's POST creates), and `Decides` puts them
  together: what is written is what the request means, and a payload that is a representation
  has passed the query. `TypeInv` is `TypeOK` with what is still to be set up and the request
  that is handled. On top of it, `EndInv` (who starts the thread joins it; the GLib loop is told
  to quit only by a thread that is gone) gives `QuietAfterStop`; `AnswerInv` (`gResourceUri` is
  the light's or that of an instance asked for; what was sent was set as the response; only
  Tizen's handler frees it) gives `UriNamesResource` and `PayloadDefined`, and with `EndInv`
  `SurvivesRequests`, for `CrashCases` shows that four actions alone can end the process, each
  in a case the property names; `AnnounceInv` (what was announced has
  smaller numbers than what is to be) gives `InstancesAnnounced`; `PowerInv` (what the thread
  loaded is the power, unless it was written since) gives `PowerAccounted`, and with it
  `QueryInv` gives `QueryHonoured`. `PresenceStoppedOnce` and `PayloadDefined` of `Servers` are
  proved and spend no run.
* `Clients`: one lemma for each program says what holds of whatever its callbacks decide
  (`Sound`: its type, which requests it makes, and that it makes them only once the address is
  to be saved), and `AnswerSound` and `ResponseSound` put them together. `TypeInv` is `TypeOK`
  with which program makes which requests. `ReachInv` gives `RequestsReachResponders`: what
  is waiting reaches an endpoint that answered, from the address the callback will have saved
  when it is made (`Coming`). `QueryInv` gives `QueriedOnce`: a GET comes first among what is
  waiting, for a resource that was new when it was inserted, and every GET made before is for
  a resource of the list. `SubscriptionInv` gives `CancelsLive` and `NotificationsBounded`:
  the kept handle is that of a subscription, a single subscription is over at the
  threshold, and in occlient every notification beyond it ends an observation. `CurrentInv`
  (a callback that runs is of a transaction the stack has had, and gives it up if there is one
  response) gives `AnsweredOnce`: no callback is called again for a transaction that is over.

How a program ends. For each program a natural number, `ShutdownRank`, bounds the steps that are
left after SIGINT, and `ShutdownAdvances` says that every step lowers it. It is a sum over the
threads: main's part counts its way through the request it handles and the joins, the
others' their way to the next test of the flag. A step may raise one part only if another drops
by more: a registration that starts the notifier, a GLib loop that is told to quit and
hands over to main, an alarm that is armed for what is left in the list. In `Clients`, where the
number of requests a callback makes has no bound, it is a pair, `MainRank` and, where main stays,
`WorkRank`: a resource that is collected outweighs the five requests made for it, a request
the thread it may start. The theorems `ShutdownBounded` (of `LightServer`, `SlowServer`,
`GetClient`, `Servers`, `Clients`) and `WaitBounded` (a wait of the provisioning client takes at
most `CALLBACK_TIMEOUT + 1` steps) prove this for every instance, with that the ranks are natural
numbers. So no program runs on after SIGINT, whatever the schedule, whatever the other threads do,
and however long the lists are; that it does not stop short either, at a join or in a loop nobody
leaves, is what `ShutdownCompletes` and `WaitEnds` add under fairness. For the light server
`JoinsEnd` proves the part of it that concerns the joins. The ranks were checked with TLC on
the instances of the runs before they were proved, and spend no run. A first rank of the slow
server forgot that a crash leaves the list as it is; its instance of five requests has too short
a list to show that, and the proof found it.

Only model-checked: the liveness properties (`AllObserversNotified`, `EvenSlotsNotified`,
`ArrivalServesOldest`, `WaitEnds`, `ShutdownCompletes` of each program), which need fairness and
`ENABLED`, out of the prover's reach, and of course the findings. `ShutdownCompletes` is checked
for every program but those of `Clients`, where what is shown of the end is `ShutdownAdvances`.

## Not modelled

* `discovery/client.c` and `mraa/client.c`: menus over the service routines that `GetClient`
  has, in an earlier form in which a multicast discovery stays open. Of their own they have a
  tree of what was discovered, which is only printed.
* `ams/occlientdirectpairing.cpp`: its lists belong to the stack, and whether a device of an
  old list may still be used depends on what the stack keeps. Its choice of a pairing method
  lets one more through than there are (`:515`), which is read from the stack's memory.
* The Arduino server, for a board: one thread, no table, no end.
* `discovery/led.c`, `discovery/button.c`, `mraa/led.c`: routines that are empty or drive pins.
* The Windows branch of the slow server, in which the alarm is a thread.
* What is printed or logged, result codes as text, the contents of representations beyond power
  and state, header options, the contents of ACLs typed by the user, and persistent storage,
  which the stack opens through a callback that only renames the file.
* Failures of `pthread_create`, except where the Tizen and the collection server start the
  thread that changes the light: main goes on, and joins an identifier that was never set. The
  presence thread, the thread of the GLib programs and the notifier that `ocserver.cpp` starts
  for its first observer are taken to start.
* The stack itself, which is not in the repository.
