------------------------------ MODULE Servers ------------------------------
(***************************************************************************)
(* The sample servers as they run: main, which sets the server up, calls   *)
(* OCProcess in a loop and ends it; the entity handlers OCProcess calls;   *)
(* the thread that changes the light and notifies its observers, in the    *)
(* programs that have one.  Which program runs is chosen at the start;     *)
(* what its handlers decide is in its module, how its main differs in      *)
(* ServerMains.  (SlowServer has the server of slow responses, LightServer *)
(* the observers of the light and its presence thread.)                    *)
(***************************************************************************)
EXTENDS ServerMains, Integers, FiniteSets, Functions

CONSTANTS
  Configurations,     \* bound: the builds, with presence or without, and the values of -o
  Requests,           \* bound: the requests a client may make of each program
  MaxRequests,        \* bound: requests in a run
  MaxTicks,           \* bound: rounds of the thread that changes the light
  StopPresenceAfter   \* Tizen: stopPresenceCount at the start; 10 in the source

Programs == {"light", "tizen", "basicops", "ams", "justworks", "randompin", "coll", "get",
             "discovery", "mraa", "router", "tizenrouter", "amsservice"}

ASSUME ServersConstants ==
  /\ Configurations \subseteq BOOLEAN \X {0, 1}
  /\ Requests \in [Programs -> SUBSET RequestType]
  /\ MaxRequests \in Nat /\ MaxTicks \in Nat /\ StopPresenceAfter \in Nat

Light == INSTANCE LightResources
Tizen == INSTANCE TizenLightResources
BasicOps == INSTANCE BasicOpsServer
Coll == INSTANCE CollectionServer
Get == INSTANCE TemperatureServer
Mraa == INSTANCE SensorServer

VARIABLES
  program, withPresence, gObserveNotifyType,   \* the program, its build, its command line
  setup,                  \* what main is still to set up
  gQuitFlag,
  main,                   \* the thread that calls OCProcess
  glib,                   \* Tizen: the main thread, in the GLib main loop
  made,                   \* the resources the stack has
  rep,                    \* power and state of the light and of its instances
  gResourceUri, gCurrInstance, gLightUnderObservation,
  slots,                  \* number of entries of interestedObservers in use
  observers,              \* number of observers of the light the stack has
  pins,                   \* mraa: the sensor is open
  req, handling, response, sent,   \* the request that is handled
  notifier, reg,          \* the thread that changes the light; the power it loaded
  cancelled,              \* it was cancelled
  stopPresenceCount,
  requests, ticks, presenceStops,                     \* history: how often
  wanted, wrote, lost, added, asked, readings, announced, failed

config == <<program, withPresence, gObserveNotifyType>>
resources == <<made, rep, gResourceUri, gCurrInstance, pins>>
observation == <<gLightUnderObservation, slots, observers>>
handler == <<req, handling, response, sent>>
thread == <<notifier, reg, cancelled, stopPresenceCount, ticks, presenceStops>>
writes == <<wanted, wrote, lost, added>>
history == <<requests, asked, readings, announced, failed>>
vars == <<config, setup, gQuitFlag, main, glib, resources, observation, handler, thread, writes,
          history>>

Lights == {Main} \cup {Instance(i) : i \in 0 .. MaxInstances - 1}

MainOf(p) == CASE p = "light" -> ocserver(withPresence)
               [] p = "tizen" -> tizen_ocserver(withPresence)
               [] p = "basicops" -> ocserverbasicops
               [] p = "ams" -> ams_ocserverbasicops
               [] p = "justworks" -> sampleserver_justworks
               [] p = "randompin" -> sampleserver_randompin
               [] p = "coll" -> ocservercoll
               [] p = "get" -> get_server
               [] p = "discovery" -> discovery_server
               [] p = "mraa" -> mraa_server
               [] p = "router" -> ocrouting
               [] p = "tizenrouter" -> tizen_ocrouting
               [] p = "amsservice" -> ocamsservice

HasGLib == program \in {"tizen", "tizenrouter"}

NoRequest == [resource |-> Unknown, method |-> "OTHER", flag |-> {}, action |-> "register",
              body |-> "none", power |-> {}, state |-> {}, query |-> {}]
NoResponse == [set |-> FALSE, payload |-> "none", uri |-> Main, power |-> 0]

Init ==
  /\ program \in Programs
  /\ \E c \in (IF program \in {"light", "tizen"} THEN Configurations ELSE {<<FALSE, 0>>}) :
       withPresence = c[1] /\ gObserveNotifyType = c[2]
  /\ setup = MainOf(program).setup
  /\ gQuitFlag = FALSE
  /\ main = "setup"
  /\ glib = (IF HasGLib THEN "setup" ELSE "none")
  /\ made = {}
  /\ rep = [r \in Lights |-> [power |-> 0, state |-> FALSE]]
  /\ gResourceUri = Main /\ gCurrInstance = 0
  /\ gLightUnderObservation = FALSE /\ slots = 0 /\ observers = 0
  /\ pins = TRUE
  /\ req = NoRequest /\ handling = Ignore(NoRequest) /\ response = NoResponse /\ sent = FALSE
  /\ notifier = "none" /\ reg = 0 /\ cancelled = FALSE
  /\ stopPresenceCount = StopPresenceAfter
  /\ requests = 0 /\ ticks = 0 /\ presenceStops = 0
  /\ wanted = rep /\ wrote = FALSE /\ lost = FALSE /\ added = 0
  /\ asked = {} /\ readings = 0 /\ announced = <<>> /\ failed = {}

Alive == main \notin {"stopped", "aborted", "crashed"}

-----------------------------------------------------------------------------
(* Main: setting up, the loop, and the end.                                *)

serving == <<resources, observation, handler, writes, history>>

\* The next call succeeds, or fails: then main ends, or goes on without the resource, or
\* without the thread, whose identifier is then not set.
SetUp ==
  /\ main = "setup" /\ setup # <<>>
  /\ setup' = Tail(setup)
  /\ \/ /\ made' = made \cup Head(setup).creates
        /\ notifier' = IF Head(setup).starts THEN "sleep" ELSE notifier
        /\ UNCHANGED main
     \/ /\ main' = IF Head(setup).fatal THEN "aborted" ELSE main
        /\ UNCHANGED <<made, notifier>>
  /\ UNCHANGED <<config, gQuitFlag, glib, rep, gResourceUri, gCurrInstance, pins, observation,
                 handler, reg, cancelled, stopPresenceCount, ticks, presenceStops, writes,
                 history>>

\* SIGINT is handled from here on.
Enter ==
  /\ main = "setup" /\ setup = <<>>
  /\ main' = "test"
  /\ glib' = IF HasGLib THEN "starting" ELSE glib
  /\ UNCHANGED <<config, setup, gQuitFlag, thread, serving>>

handleSigInt ==
  /\ Alive /\ main # "setup" /\ ~gQuitFlag
  /\ gQuitFlag' = TRUE
  /\ UNCHANGED <<config, setup, main, glib, thread, serving>>

\* Mutant: the loop goes on while the light has observers.
LoopTest_WhileObserved ==
  /\ main = "test"
  /\ \/ ~gQuitFlag \/ observers > 0
     \/ gQuitFlag /\ observers = 0
  /\ main' = IF ~gQuitFlag \/ observers > 0 THEN "process"
             ELSE CASE MainOf(program).after = "stop" -> "joining"
                    [] MainOf(program).after = "exit" -> "stopped"
                    [] MainOf(program).after = "quit" -> "gone"
  /\ glib' = IF main' = "gone" /\ glib = "running" THEN "quit" ELSE glib
  /\ UNCHANGED <<config, setup, gQuitFlag, thread, serving>>

\* while (!gQuitFlag).  To tell a GLib loop to quit that does not run yet has no effect.
LoopTest ==
  /\ main = "test"
  /\ main' = IF ~gQuitFlag THEN "process"
             ELSE CASE MainOf(program).after = "stop" -> "joining"
                    [] MainOf(program).after = "exit" -> "stopped"
                    [] MainOf(program).after = "quit" -> "gone"
  /\ glib' = IF main' = "gone" /\ glib = "running" THEN "quit" ELSE glib
  /\ UNCHANGED <<config, setup, gQuitFlag, thread, serving>>

ProcessNothing ==
  /\ main = "process"
  /\ main' = "test"
  /\ UNCHANGED <<config, setup, gQuitFlag, glib, thread, serving>>

\* Without GLib main returns, and every thread ends with it; or it takes no notice.
ProcessFails ==
  /\ main = "process"
  /\ main' = CASE MainOf(program).onError = "return" -> "aborted"
               [] MainOf(program).onError = "continue" -> "test"
               [] MainOf(program).onError = "thread" -> "gone"
  /\ UNCHANGED <<config, setup, gQuitFlag, glib, thread, serving>>

\* g_main_loop_run, and what follows it.
GMainLoop ==
  /\ Alive
  /\ \/ glib = "starting" /\ glib' = "running" /\ UNCHANGED main
     \/ glib = "quit" /\ glib' = "returned" /\ main' = "joining"
  /\ UNCHANGED <<config, setup, gQuitFlag, thread, serving>>

\* What main cancels and joins although it never ran: the presence thread in a build without
\* it; the thread that changes the light, if it could not be started.  Only ocserver.cpp looks
\* whether that one was started.  The identifier is not set: anything may happen.
UnsetThread ==
  \/ "presence" \in MainOf(program).joins /\ ~withPresence
  \/ "notifier" \in MainOf(program).joins /\ notifier = "none" /\ program # "light"

\* The thread that changes the light is cancelled, and main waits for its end; so is the
\* presence thread.
Join ==
  /\ main = "joining"
  /\ cancelled' = ("notifier" \in MainOf(program).joins)
  /\ \/ "notifier" \in MainOf(program).joins /\ notifier \notin {"none", "ended"} /\ UNCHANGED main
     \/ /\ "notifier" \in MainOf(program).joins => notifier \in {"none", "ended"}
        /\ \/ main' = "stopping"
           \/ UnsetThread /\ main' = "crashed"
  /\ UNCHANGED <<config, setup, gQuitFlag, glib, notifier, reg, stopPresenceCount, ticks,
                 presenceStops, serving>>

\* OCStop, whose failure is logged.
Stop ==
  /\ main = "stopping"
  /\ main' = "stopped"
  /\ UNCHANGED <<config, setup, gQuitFlag, glib, thread, serving>>

-----------------------------------------------------------------------------
(* Requests.                                                               *)

Handler(r) ==
  CASE program = "light" -> Light!OCEntityHandlerCb(r, gCurrInstance, rep[Main].power)
    [] program = "tizen" -> Tizen!OCEntityHandlerCb(r, gCurrInstance, rep[Main].power)
    [] program \in {"basicops", "ams", "justworks", "randompin"} ->
         BasicOps!OCEntityHandlerCb(r, gCurrInstance)
    [] program = "coll" /\ r.resource = Main -> Coll!OCEntityHandlerLightCb(r)
    [] program = "coll" /\ r.resource = Fan -> Coll!OCEntityHandlerFanCb(r)
    [] program = "coll" /\ r.resource = Room -> Coll!OCEntityHandlerRoomCb(r)
    [] program = "get" -> Get!temperature_request_dispatcher(r)
    [] program = "mraa" -> Mraa!temperature_request_dispatcher(r, pins)
    [] OTHER -> Ignore(r)

\* What is called for a resource the stack does not have.
DefaultHandler(r) == CASE program = "light" -> Light!OCDeviceEntityHandlerCb(r)
                       [] program = "tizen" -> Tizen!OCDeviceEntityHandlerCb(r)
                       [] program = "coll" -> Coll!OCDeviceEntityHandlerCb(r)
                       [] OTHER -> Ignore(r)

Observes(r, action) == r.resource = Main /\ "observe" \in r.flag /\ r.action = action

requestFrame == <<config, setup, gQuitFlag, glib, thread>>

\* The stack calls a handler, which decides what to do; it lets gResourceUri name the
\* resource.  An observer was added to, or removed from, the stack's before.
ProcessRequest(r) ==
  /\ main = "process" /\ requests < MaxRequests
  /\ requests' = requests + 1
  /\ req' = r
  /\ handling' = IF r.resource \in made THEN Handler(r) ELSE DefaultHandler(r)
  /\ \/ handling'.crash # "must" /\ main' = "write"
     \/ handling'.crash # "no" /\ main' = "crashed"
  /\ gResourceUri' = IF handling'.uri # {} THEN CHOOSE u \in handling'.uri : TRUE
                     ELSE gResourceUri
  /\ pins' = (pins /\ ~handling'.closes)
  /\ observers' = CASE r.resource \in made /\ Observes(r, "register") -> observers + 1
                    [] r.resource \in made /\ Observes(r, "deregister") /\ observers > 0 ->
                         observers - 1
                    [] OTHER -> observers
  /\ asked' = IF r.resource \in made THEN asked \cup ({r.resource} \cap Instances) ELSE asked
  /\ readings' = IF handling'.closes THEN readings + 1 ELSE readings
  /\ UNCHANGED <<requestFrame, made, rep, gCurrInstance, gLightUnderObservation, slots,
                 response, sent, writes, announced, failed>>

\* What a request for power and state means, whatever the handler does: of the LED servers
\* only PUT writes; a POST sets constants.
Means(r) ==
  LET asks == r.resource \in made \cap Lights /\ "request" \in r.flag
      lights == program \in {"light", "tizen"}
      puts == /\ asks /\ r.method = "PUT" /\ r.body # "other"
              /\ lights \/ program \in {"basicops", "ams", "justworks", "randompin"}
      posts == /\ asks /\ r.method = "POST" /\ lights
               /\ r.resource = Main => gCurrInstance = MaxInstances
  IN [power |-> IF puts THEN r.power
                ELSE IF posts THEN (IF r.resource = Main THEN {11} ELSE {22}) ELSE {},
      state |-> IF puts THEN r.state ELSE IF posts THEN {TRUE} ELSE {}]

\* value, with what is in change.
Updated(value, change) ==
  [power |-> IF change.power = {} THEN value.power ELSE CHOOSE p \in change.power : TRUE,
   state |-> IF change.state = {} THEN value.state ELSE CHOOSE s \in change.state : TRUE]

Write ==
  /\ main = "write"
  /\ main' = IF handling.create \/ handling.delete THEN "resource"
             ELSE IF handling.responds THEN "respond" ELSE "observe"
  /\ rep' = [r \in Lights |-> IF r = handling.resource THEN Updated(rep[r], handling) ELSE rep[r]]
  /\ wanted' = [r \in Lights |-> IF r = req.resource THEN Updated(wanted[r], Means(req))
                                 ELSE wanted[r]]
  /\ LET writesLight == handling.resource = Main /\ handling.power # {}
     IN /\ wrote' = (notifier = "loaded" /\ (wrote \/ writesLight))
        /\ lost' = (lost /\ ~writesLight)
  /\ UNCHANGED <<requestFrame, made, gResourceUri, gCurrInstance, pins, observation, handler,
                 added, history>>

instanceFrame == <<requestFrame, rep, gResourceUri, pins, gLightUnderObservation, slots, req,
                   handling, response, sent, writes, requests, asked, readings, announced>>

\* Mutant: only an instance that was created is counted, but each is announced.
CreateInstance_CountsCreated ==
  /\ main = "resource" /\ handling.create
  /\ main' = "respond"
  /\ \/ made' = made \cup {Instance(gCurrInstance)} /\ UNCHANGED failed
        /\ gCurrInstance' = gCurrInstance + 1
     \/ failed' = failed \cup {Instance(gCurrInstance)} /\ UNCHANGED <<made, gCurrInstance>>
  /\ UNCHANGED <<instanceFrame, observers>>

\* createLightResource and createLEDResource return 0 even when OCCreateResource failed.
CreateInstance ==
  /\ main = "resource" /\ handling.create
  /\ main' = "respond"
  /\ gCurrInstance' = gCurrInstance + 1
  /\ \/ made' = made \cup {Instance(gCurrInstance)} /\ UNCHANGED failed
     \/ failed' = failed \cup {Instance(gCurrInstance)} /\ UNCHANGED made
  /\ UNCHANGED <<instanceFrame, observers>>

\* OCDeleteResource, or it fails, and no response is sent.  The stack forgets the observers.
DeleteResource ==
  /\ main = "resource" /\ handling.delete
  /\ \/ main' = "respond" /\ made' = made \ {req.resource} /\ observers' = 0
     \/ main' = "observe" /\ UNCHANGED <<made, observers>>
  /\ UNCHANGED <<instanceFrame, gCurrInstance, failed>>

\* The payload takes what gResourceUri and the resource are now.  OCDoResponse may fail; there
\* may be no memory for the payload, and the response is not set; and OCDoResponse reads
\* through a pointer that was never written.
OCDoResponse ==
  /\ main = "respond"
  /\ \/ /\ main' = "observe"
        /\ sent' = TRUE
        /\ response' = [set |-> TRUE, payload |-> handling.payload, uri |-> gResourceUri,
                        power |-> IF handling.payload = "rep" THEN rep[handling.resource].power
                                  ELSE 0]
        /\ announced' = IF handling.create THEN Append(announced, Instance(gCurrInstance - 1))
                        ELSE announced
     \/ /\ main' = "observe"
        /\ response' = [response EXCEPT !.set = TRUE]
        /\ UNCHANGED <<sent, announced>>
     \/ /\ handling.payload \notin {"none", "unset"} /\ main' = "observe"
        /\ UNCHANGED <<sent, response, announced>>
     \/ /\ handling.payload = "unset" /\ main' = "crashed"
        /\ UNCHANGED <<sent, response, announced>>
  /\ UNCHANGED <<requestFrame, resources, observation, req, handling, writes, requests, asked,
                 readings, failed>>

\* ProcessObserveRegister, in ocserver.cpp with the start of the thread, and
\* ProcessObserveDeregister; in the collection, the handlers' second branch.  Then the
\* handler returns, unless what it frees was never set.
Observe ==
  /\ main = "observe"
  /\ LET registers == /\ program \in {"light", "tizen"} /\ req.resource \in made
                      /\ "observe" \in req.flag /\ req.action = "register"
         deregisters == /\ program \in {"light", "tizen"} /\ req.resource \in made
                        /\ "observe" \in req.flag /\ req.action = "deregister"
         raises == program = "coll" /\ req.resource \in made /\ Coll!RaisesFlag(req)
     IN /\ slots' = CASE registers -> slots + 1
                      [] deregisters /\ slots > 0 -> slots - 1
                      [] OTHER -> slots
        /\ gLightUnderObservation' = CASE registers \/ raises -> TRUE
                                       [] deregisters /\ slots' = 0 -> FALSE
                                       [] OTHER -> gLightUnderObservation
        /\ notifier' = IF program = "light" /\ registers /\ notifier = "none" THEN "sleep"
                       ELSE notifier
  /\ \/ /\ main' = "test"
        /\ req' = NoRequest /\ handling' = Ignore(NoRequest)
        /\ response' = NoResponse /\ sent' = FALSE
     \/ handling.frees /\ ~response.set /\ main' = "crashed" /\ UNCHANGED handler
  /\ added' = 0
  /\ UNCHANGED <<config, setup, gQuitFlag, glib, resources, observers, reg, cancelled,
                 stopPresenceCount, ticks, presenceStops, wanted, wrote, lost, history>>

MainThread ==
  \/ SetUp \/ Enter \/ LoopTest \/ ProcessNothing \/ ProcessFails \/ Join \/ Stop
  \/ \E r \in Requests[program] : ProcessRequest(r)
  \/ Write \/ CreateInstance \/ DeleteResource \/ OCDoResponse \/ Observe

-----------------------------------------------------------------------------
(* ChangeLightRepresentation, the thread that changes the light.           *)

notifierFrame == <<config, setup, gQuitFlag, main, glib, made, gResourceUri, gCurrInstance, pins,
                   slots, observers, handler, history>>

\* power += 5: the thread loads the power and stores what it loaded, plus 5.
Load ==
  /\ Alive /\ notifier = "sleep" /\ ticks < MaxTicks
  /\ notifier' = "loaded"
  /\ reg' = rep[Main].power
  /\ ticks' = ticks + 1
  /\ UNCHANGED <<notifierFrame, rep, gLightUnderObservation, cancelled, stopPresenceCount,
                 presenceStops, writes>>

Store ==
  /\ Alive /\ notifier = "loaded"
  /\ notifier' = "stored"
  /\ rep' = [rep EXCEPT ![Main].power = reg + 5]
  /\ wanted' = [wanted EXCEPT ![Main].power = @ + 5]
  /\ lost' = (lost \/ wrote)
  /\ reg' = 0 /\ wrote' = FALSE
  /\ added' = IF main \in {"write", "resource", "respond"} THEN added + 1 ELSE added
  /\ UNCHANGED <<notifierFrame, gLightUnderObservation, cancelled, stopPresenceCount, ticks,
                 presenceStops>>

\* The handle the thread passes to the stack: of the resource main created, if it did; the
\* collection's is that of a global whose handle was never set.
Notifies == Main \in made /\ (program = "coll" => Main \in Coll!createResources)

\* The flag is tested; all observers are notified, or a list of them, with the result of
\* which nothing is done.  Where all are to be notified and the light has none left, the
\* flag is lowered.
Notify ==
  /\ Alive /\ notifier = "stored"
  /\ notifier' = "notified"
  /\ gLightUnderObservation' =
       (gLightUnderObservation /\ ~(gObserveNotifyType = 0 /\ Notifies /\ observers = 0))
  /\ UNCHANGED <<notifierFrame, rep, reg, cancelled, stopPresenceCount, ticks, presenceStops,
                 writes>>

\* Tizen: if (!stopPresenceCount--) OCStopPresence().  Then the loop's test.
StopPresence ==
  /\ Alive /\ notifier = "notified"
  /\ notifier' = IF gQuitFlag THEN "ended" ELSE "sleep"
  /\ IF program = "tizen" /\ withPresence
     THEN /\ stopPresenceCount' = stopPresenceCount - 1
          /\ presenceStops' = presenceStops + (IF stopPresenceCount = 0 THEN 1 ELSE 0)
     ELSE UNCHANGED <<stopPresenceCount, presenceStops>>
  /\ UNCHANGED <<notifierFrame, rep, gLightUnderObservation, reg, cancelled, ticks,
                 writes>>

\* A thread that was cancelled ends where it sleeps.
Cancelled ==
  /\ Alive /\ notifier = "sleep" /\ cancelled
  /\ notifier' = "ended"
  /\ UNCHANGED <<notifierFrame, rep, gLightUnderObservation, reg, cancelled, stopPresenceCount,
                 ticks, presenceStops, writes>>

Notifier == Load \/ Store \/ Notify \/ StopPresence \/ Cancelled

-----------------------------------------------------------------------------
\* Nothing happens any more once the process is over, or nobody is left to end it.
Terminated == (~Alive \/ main = "gone") /\ UNCHANGED vars

Next == MainThread \/ GMainLoop \/ handleSigInt \/ Notifier \/ Terminated

\* The threads run; nobody has to ask for anything or to interrupt.
Fairness == WF_vars(MainThread) /\ WF_vars(GMainLoop) /\ WF_vars(Notifier)

Spec == Init /\ [][Next]_vars
FairSpec == Spec /\ Fairness
-----------------------------------------------------------------------------
ConfigOK == program \in Programs /\ withPresence \in BOOLEAN /\ gObserveNotifyType \in {0, 1}

MainOK ==
  /\ setup \in Seq(SetupCall) /\ gQuitFlag \in BOOLEAN
  /\ main \in {"setup", "test", "process", "write", "resource", "respond", "observe",
               "joining", "stopping", "gone", "stopped", "aborted", "crashed"}
  /\ glib \in {"none", "setup", "starting", "running", "quit", "returned"}

LightType == [power : Nat, state : BOOLEAN]

ResourcesOK ==
  /\ made \subseteq Resources
  /\ rep \in [Lights -> LightType]
  /\ gResourceUri \in Lights /\ gCurrInstance \in 0 .. MaxInstances
  /\ pins \in BOOLEAN

ObservationOK == gLightUnderObservation \in BOOLEAN /\ slots \in Nat /\ observers \in Nat

ResponseType == [set : BOOLEAN, uri : Lights, power : Nat,
                 payload : {"none", "rep", "created", "fixed", "undefined", "unset"}]

HandlerOK == /\ req \in RequestType /\ handling \in Handling
             /\ response \in ResponseType /\ sent \in BOOLEAN

ThreadOK ==
  /\ notifier \in {"none", "sleep", "loaded", "stored", "notified", "ended"} /\ reg \in Nat
  /\ cancelled \in BOOLEAN /\ stopPresenceCount \in Int
  /\ ticks \in 0 .. MaxTicks /\ presenceStops \in Nat

WritesOK ==
  wanted \in [Lights -> LightType] /\ wrote \in BOOLEAN /\ lost \in BOOLEAN /\ added \in Nat

HistoryOK ==
  /\ requests \in 0 .. MaxRequests /\ asked \subseteq Instances /\ readings \in Nat
  /\ announced \in Seq(Lights) /\ failed \subseteq Lights

TypeOK == /\ ConfigOK /\ MainOK /\ ResourcesOK /\ ObservationOK
          /\ HandlerOK /\ ThreadOK /\ WritesOK /\ HistoryOK

\* What the resources hold is what the requests meant and the thread added, except that the
\* light's power may be off for as long as nobody writes it again, once the thread has added
\* to a value it had loaded before a request wrote another (ocserver.cpp:683).
PowerAccounted ==
  \A r \in Lights : /\ rep[r].state = wanted[r].state
                    /\ rep[r].power # wanted[r].power => r = Main /\ lost

\* A GET for the light with the query power<X, if it shows the light, shows X or less, or
\* what the thread added between the check and the response; unless the thread had loaded a
\* power before a request wrote another.
QueryHonoured ==
  /\ sent /\ response.payload = "rep" /\ program \in {"light", "tizen"}
  /\ req.method = "GET" /\ req.resource = Main
  => lost \/ \A limit \in req.query : response.power <= limit + 5 * added

\* A representation of an instance has the URI of that instance; one of the light has the
\* light's, or that of an instance somebody asked for before (ocserver.cpp:131).
UriNamesResource ==
  sent /\ response.payload = "rep" =>
    \/ response.uri = req.resource
    \/ req.resource = Main /\ response.uri \in asked

\* No URI is announced to two clients that POST, and a URI that is announced is one of a
\* resource the stack has, unless its creation failed: that goes unnoticed.
InstancesAnnounced ==
  /\ IsInjective(announced)
  /\ \A i \in DOMAIN announced : announced[i] \in made \cup failed
  /\ Len(announced) <= gCurrInstance

\* No client is sent what was never computed, except by the temperature service in response
\* to PUT and DELETE, and by the sensor after its first reading has closed the pins.
PayloadDefined ==
  sent => /\ response.payload = "unset" => program = "get" /\ req.method \in {"PUT", "DELETE"}
          /\ response.payload = "undefined" => program = "mraa" /\ readings > 1

\* No request that was answered ends the process, and of the others only these may: on Tizen,
\* one for the light or an instance, whose handler frees a pointer never written
\* (tizen/ocserver.cpp:641); a PUT or DELETE for the temperature (get/temperature.c:169); a PUT
\* for the sensor, or any reading but the first (mraa/temperature.c:111).  After SIGINT the
\* process survives its own end, where every thread it joins was started (ocserver.cpp:1135).
SurvivesRequests ==
  main = "crashed" =>
    \/ ~sent /\ \/ program = "tizen" /\ req.resource \in Lights
                \/ program = "get" /\ req.method \in {"PUT", "DELETE"}
                \/ program = "mraa" /\ (req.method = "PUT" \/ readings > 1)
    \/ gQuitFlag /\ \/ program \in {"light", "tizen"} /\ ~withPresence
                    \/ program \in {"tizen", "coll"} /\ notifier = "none"

\* Once main stops the stack, no thread is left that could notify through it.
QuietAfterStop == main \in {"stopping", "stopped"} => notifier \in {"none", "ended"}

\* The Tizen server stops presence once, after the thread's first StopPresenceAfter rounds.
PresenceStoppedOnce ==
  presenceStops = IF program = "tizen" /\ withPresence /\ stopPresenceCount < 0 THEN 1 ELSE 0

\* How many steps are left after SIGINT, at most: main's, through the request it handles and
\* its end; those of the GLib loop; those of the thread, which that request may start.
MainRank == CASE main = "process" -> 13
              [] main = "write" -> 12
              [] main = "resource" -> 11
              [] main = "respond" -> 10
              [] main = "observe" -> 9
              [] main = "test" -> 4
              [] main = "joining" -> 3
              [] main = "stopping" -> 1
              [] OTHER -> 0
GLibRank == CASE glib = "starting" -> 6
              [] glib = "running" -> 5
              [] glib = "quit" -> 4
              [] OTHER -> 0
NotifierRank == CASE notifier = "sleep" -> 4
                  [] notifier = "loaded" -> 3
                  [] notifier = "stored" -> 2
                  [] notifier = "notified" -> 1
                  [] OTHER -> 0
CancelRank == IF cancelled THEN 0 ELSE 1
ShutdownRank == MainRank + GLibRank + NotifierRank + CancelRank

\* After SIGINT every step of every server brings its end closer, or that of the last thing
\* that still moves, where main is gone and the GLib loop was never told to quit.
ShutdownAdvances == [][gQuitFlag => ShutdownRank' < ShutdownRank]_vars

\* SIGINT ends every server, and on Tizen the main thread too, out of its GLib loop: except
\* where the thread that was to tell that loop to quit did not (OCProcess had failed) or did
\* so before the loop ran.  Then it runs for ever (tizen/ocserver.cpp:959).
ShutdownCompletes == gQuitFlag ~> (~Alive \/ (main = "gone" /\ glib = "running"))
=============================================================================
