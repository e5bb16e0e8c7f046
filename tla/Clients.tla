------------------------------ MODULE Clients ------------------------------
(***************************************************************************)
(* The sample clients that discover a server and run a test against it, as *)
(* they run inside the stack: the main loop, the callbacks OCProcess calls *)
(* for answers, responses and notifications, the requests a callback makes *)
(* one after the other, and the threads that repeat a DELETE.  Which       *)
(* program runs is chosen at the start; what its callbacks decide is in    *)
(* the module of the program.                                              *)
(***************************************************************************)
EXTENDS ClientCallbacks, FiniteSets

CONSTANTS
  Endpoints,       \* addresses that may answer
  DeviceOf,        \* the device an address belongs to
  NoEndpoint,      \* the host of an address that was never saved
  ResourceLists,   \* lists of resources a discovery may find
  MaxAnswers,      \* bound: answers to discoveries
  MaxResponses,    \* bound: responses to requests, for each program
  MaxFailures,     \* bound: requests that the stack refuses
  MaxSeen          \* bound: notifications counted

ASSUME ClientsConstants ==
  /\ NoEndpoint \notin Endpoints
  /\ DeviceOf \in [Endpoints -> Endpoints]
  /\ ResourceLists \subseteq Seq([uri : Uris, secure : BOOLEAN])
  /\ MaxAnswers \in Nat /\ MaxFailures \in Nat /\ MaxSeen \in Nat

Programs == {"occlient", "tizen", "remote", "coll", "basicops", "ams", "slow"}

ASSUME ResponsesBounded == MaxResponses \in [Programs -> Nat]

Occlient == INSTANCE LightClient
Tizen == INSTANCE TizenLightClient
Remote == INSTANCE RemoteAccessClient
Coll == INSTANCE CollectionClient
Basic == INSTANCE BasicOpsClient
Ams == INSTANCE AmsClient
Slow == INSTANCE SlowClient

VARIABLES
  program, test, unicast,   \* the program and its command line
  gQuitFlag,
  main,                     \* the thread that calls OCProcess
  glib,                     \* Tizen: the main thread, in the GLib main loop
  serverAddr,               \* [addr, port]; the port with whether it is the secure one
  current, answerer, uris, verdict, todo, lastOk,   \* the callback that runs
  resourceList,
  calls,                    \* the requests the stack accepted; a handle is an index
  live,                     \* handles whose callback the stack still has
  gObserveDoHandle, gPresenceHandle,
  gNumObserveNotifies, gNumPresenceNotifies,
  sleeping,                 \* number of threads that are to repeat a DELETE
  answers, responses, failures, heard, badCancel   \* history

commandLine == <<program, test, unicast>>
callback == <<current, answerer, uris, verdict, todo, lastOk>>
stackVars == <<calls, live>>
counters == <<gObserveDoHandle, gPresenceHandle, gNumObserveNotifies, gNumPresenceNotifies>>
history == <<answers, responses, failures, heard, badCancel>>
vars == <<commandLine, gQuitFlag, main, glib, serverAddr, callback, resourceList, stackVars,
          counters, sleeping, history>>

TestsOf(p) == CASE p \in {"occlient", "tizen"} -> Occlient!Tests
                [] p = "remote" -> Remote!Tests
                [] p = "coll" -> Coll!Tests
                [] p = "basicops" -> Basic!Tests
                [] p = "ams" -> Ams!Tests
                [] p = "slow" -> Slow!Tests

FirstRequests(p, t, u) == CASE p = "occlient" -> Occlient!main(t, u)
                            [] p = "tizen" -> Tizen!GMainLoopThread(t, u)
                            [] p = "remote" -> Remote!main
                            [] p = "coll" -> Coll!main
                            [] p = "basicops" -> Basic!main
                            [] p = "ams" -> Ams!main
                            [] p = "slow" -> Slow!main

Ports == (Endpoints \cup {NoEndpoint}) \X BOOLEAN

\* The options are valid, the stack is up and the address for unicast was read.  Remote
\* access and the collection client have no option for unicast discovery.
Init ==
  /\ program \in Programs
  /\ test \in TestsOf(program)
  /\ unicast \in (IF program \in {"remote", "coll"} THEN {FALSE} ELSE BOOLEAN)
  /\ gQuitFlag = FALSE
  /\ main = "run"
  /\ glib = (IF program = "tizen" THEN "starting" ELSE "none")
  /\ serverAddr = [addr |-> NoEndpoint, port |-> <<NoEndpoint, FALSE>>]
  /\ current = 0 /\ answerer = NoEndpoint /\ uris = <<>> /\ verdict = Keep
  /\ todo = FirstRequests(program, test, unicast) /\ lastOk = TRUE
  /\ resourceList = <<>>
  /\ calls = <<>> /\ live = {}
  /\ gObserveDoHandle = 0 /\ gPresenceHandle = 0
  /\ gNumObserveNotifies = (IF program = "coll" THEN 1 ELSE 0) /\ gNumPresenceNotifies = 0
  /\ sleeping = 0
  /\ answers = 0 /\ responses = 0 /\ failures = 0 /\ heard = {} /\ badCancel = FALSE

Alive == main \notin {"stopped", "aborted", "crashed"}

-----------------------------------------------------------------------------
(* The main loop.                                                          *)

loopFrame == <<commandLine, serverAddr, callback, resourceList, stackVars, counters, sleeping,
               history>>

\* while (!gQuitFlag), and OCStop after it.  The thread of the Tizen client tells the GLib
\* loop to quit instead, which is lost on a loop that does not run yet.
LoopTest ==
  /\ main = "test"
  /\ \/ ~gQuitFlag /\ main' = "process" /\ UNCHANGED glib
     \/ gQuitFlag /\ program # "tizen" /\ main' = "stopping" /\ UNCHANGED glib
     \/ /\ gQuitFlag /\ program = "tizen" /\ main' = "gone"
        /\ glib' = IF glib = "running" THEN "quit" ELSE glib
  /\ UNCHANGED <<gQuitFlag, loopFrame>>

ProcessNothing ==
  /\ main = "process"
  /\ main' = "test"
  /\ UNCHANGED <<gQuitFlag, glib, loopFrame>>

\* main returns; on Tizen only the thread does, and the GLib loop is never told.
ProcessFails ==
  /\ main = "process"
  /\ main' = IF program = "tizen" THEN "gone" ELSE "aborted"
  /\ UNCHANGED <<gQuitFlag, glib, loopFrame>>

\* The process ends when main returns, threads or no threads.
Exit ==
  /\ main = "stopping"
  /\ main' = "stopped"
  /\ UNCHANGED <<gQuitFlag, glib, loopFrame>>

\* g_main_loop_run, and what follows it.
GMainLoop ==
  /\ Alive
  /\ \/ glib = "starting" /\ glib' = "running" /\ UNCHANGED main
     \/ glib = "quit" /\ glib' = "returned" /\ main' = "stopped"
  /\ UNCHANGED <<gQuitFlag, loopFrame>>

handleSigInt ==
  /\ Alive /\ ~gQuitFlag
  /\ gQuitFlag' = TRUE
  /\ UNCHANGED <<main, glib, loopFrame>>

-----------------------------------------------------------------------------
(* Callbacks.                                                              *)

callbackFrame == <<commandLine, gQuitFlag, glib>>

\* The stack ends the subscription of h at once, unless the server is to confirm it; a
\* handle it does not have (any more) is an error.
OCCancel(h, qos) ==
  /\ live' = IF qos = "low" THEN live \ {h} ELSE live
  /\ badCancel' = (badCancel \/ (qos # "none" /\ h \notin live))

\* What the callback of transaction h, called with something from endpoint e, begins with.
Begin(h, e, outcome) ==
  /\ current' = h /\ answerer' = e
  /\ verdict' = outcome /\ todo' = outcome.requests /\ lastOk' = TRUE
  /\ main' = IF outcome.crash THEN "crashed" ELSE IF outcome.saves THEN "host" ELSE "run"

DiscoverOutcome(answer) ==
  CASE program = "occlient" -> Occlient!discoveryReqCB(test, answer)
    [] program = "tizen" -> Tizen!discoveryReqCB(test, answer)
    [] program = "remote" -> Remote!discoveryReqCB(test, answer)
    [] program = "coll" -> Coll!discoveryReqCB(test, answer)
    [] program = "basicops" -> Basic!discoveryReqCB(unicast, answer)
    [] program = "ams" -> Ams!discoveryReqCB(test, unicast, answer)
    [] program = "slow" -> Slow!discoveryReqCB(test, unicast, answer)

AnswerOutcome(method, answer) ==
  CASE method = "DISCOVER" -> DiscoverOutcome(answer)
    [] method = "PLATFORM" /\ program = "occlient" -> Occlient!PlatformDiscoveryReqCB(unicast)
    [] method = "PLATFORM" /\ program = "tizen" -> Tizen!PlatformDiscoveryReqCB(unicast)
    [] method = "DEVICE" /\ program = "occlient" -> Occlient!DeviceDiscoveryReqCB(unicast)
    [] method = "DEVICE" /\ program = "tizen" -> Tizen!DeviceDiscoveryReqCB(unicast)

Answers == {NullAnswer, EmptyAnswer(TRUE), EmptyAnswer(FALSE)}
             \cup {Answer(list) : list \in ResourceLists}

\* What an answer lists, for the programs that look at it.
Listed(e, answer) ==
  {<<e, r.uri, r.secure>> : r \in {answer.resources[i] : i \in DOMAIN answer.resources}}
    \cap (IF program \in {"occlient", "basicops", "ams"} THEN {e} \X Uris \X BOOLEAN ELSE {})

\* A discovery is answered; it may be again for as long as its transaction is kept.
ProcessAnswer(h, e, answer) ==
  LET outcome == AnswerOutcome(calls[h].method, answer)
  IN /\ main = "process"
     /\ answers < MaxAnswers
     /\ calls[h].method \in Discoveries
     /\ Begin(h, e, outcome)
     /\ uris' = IF outcome.collects THEN answer.resources ELSE <<>>
     /\ answers' = answers + 1
     /\ heard' = heard \cup {<<e, Discovery, FALSE>>} \cup Listed(e, answer)
     /\ UNCHANGED <<callbackFrame, serverAddr, resourceList, stackVars, counters, sleeping,
                    responses, failures, badCancel>>

SingleOutcome(method, r) ==
  CASE program \in {"occlient", "tizen", "remote", "basicops", "ams", "slow"} -> Delete
    [] program = "coll" /\ method = "GET" -> Coll!getReqCB(test, r, gNumObserveNotifies + 1)
    [] program = "coll" /\ method = "PUT" -> Coll!putReqCB(r)

NotificationOutcome(method, r) ==
  CASE method = "OBSERVE" /\ program = "occlient" ->
         Occlient!obsReqCB(test, r, gNumObserveNotifies + 1)
    [] method = "OBSERVE" /\ program = "tizen" ->
         Tizen!obsReqCB(test, r, gNumObserveNotifies + 1)
    [] method = "OBSERVE" /\ program = "remote" ->
         Remote!obsReqCB(test, r, gNumObserveNotifies + 1)
    [] method = "PRESENCE" /\ program = "occlient" ->
         Occlient!presenceCB(r, gNumPresenceNotifies + 1)
    [] method = "PRESENCE" /\ program = "tizen" ->
         Tizen!presenceCB(r, gNumPresenceNotifies + 1)

\* A response to a request, or a notification, comes from the endpoint asked.
ProcessResponse(h, r) ==
  LET method == calls[h].method
      outcome == IF method \in Single THEN SingleOutcome(method, r)
                 ELSE NotificationOutcome(method, r)
      stored == IF method = "PRESENCE" THEN gPresenceHandle ELSE gObserveDoHandle
  IN /\ main = "process"
     /\ method \notin Discoveries
     /\ method \in Single => responses < MaxResponses[program]
     /\ outcome.counts => gNumObserveNotifies < MaxSeen /\ gNumPresenceNotifies < MaxSeen
     /\ Begin(h, calls[h].addr, outcome)
     /\ uris' = <<>>
     /\ responses' = IF method \in Single THEN responses + 1 ELSE responses
     /\ OCCancel(IF outcome.of = "own" THEN h ELSE stored, outcome.cancel)
     /\ gNumObserveNotifies' = IF outcome.counts /\ method # "PRESENCE"
                               THEN gNumObserveNotifies + 1 ELSE gNumObserveNotifies
     /\ gNumPresenceNotifies' = IF outcome.counts /\ method = "PRESENCE"
                                THEN gNumPresenceNotifies + 1 ELSE gNumPresenceNotifies
     /\ UNCHANGED <<callbackFrame, serverAddr, resourceList, calls, gObserveDoHandle,
                    gPresenceHandle, sleeping, answers, failures, heard>>

bodyFrame == <<callbackFrame, current, answerer, counters, sleeping, history>>

\* The responder's address is copied into the global that the DELETE threads read: first the
\* host, then the port, which ams replaces by that of the secure resource.
SaveHost ==
  /\ main = "host"
  /\ main' = "port"
  /\ serverAddr' = [serverAddr EXCEPT !.addr = answerer]
  /\ UNCHANGED <<bodyFrame, uris, verdict, todo, lastOk, resourceList, stackVars>>

SavePort ==
  /\ main = "port"
  /\ main' = "run"
  /\ serverAddr' = [serverAddr EXCEPT !.port = <<answerer, verdict.secure>>]
  /\ UNCHANGED <<bodyFrame, uris, verdict, todo, lastOk, resourceList, stackVars>>

\* Where a request goes.
Destination ==
  CASE program = "basicops" /\ resourceList # <<>> -> Basic!getResource(resourceList).endpoint
    [] program = "coll" -> [addr |-> answerer, port |-> <<answerer, FALSE>>]
    [] OTHER -> serverAddr

Call(req, dest, by) == [method |-> req.method, uri |-> req.uri, addr |-> dest.addr,
                        port |-> dest.port, by |-> by]

Stores(method) == CASE program = "occlient" -> Occlient!InvokeOCDoResource(method)
                    [] program = "tizen" -> Tizen!InvokeOCDoResource(method)
                    [] program = "remote" -> Remote!InvokeOCDoResource(method)
                    [] OTHER -> "none"

\* The handle of a request that was accepted.
StoreHandle(method, handle) ==
  /\ gObserveDoHandle' = IF Stores(method) = "gObserveDoHandle" THEN handle
                         ELSE gObserveDoHandle
  /\ gPresenceHandle' = IF Stores(method) = "gPresenceHandle" THEN handle ELSE gPresenceHandle

requestFrame == <<callbackFrame, main, current, answerer, uris, verdict, serverAddr,
                  resourceList, gNumObserveNotifies, gNumPresenceNotifies, answers, responses,
                  heard, badCancel>>

Accept == /\ lastOk' = TRUE
          /\ calls' = Append(calls, Call(Head(todo), Destination, "main"))
          /\ live' = live \cup {Len(calls')}
          /\ UNCHANGED failures

Refuse == /\ failures < MaxFailures
          /\ failures' = failures + 1
          /\ lastOk' = FALSE
          /\ UNCHANGED stackVars

\* Mutant: the handle is stored whatever OCDoResource returned.
InvokeOCDoResource_AlwaysStores ==
  /\ main = "run" /\ todo # <<>>
  /\ todo' = Tail(todo)
  /\ StoreHandle(Head(todo).method, Len(calls) + 1)
  /\ Accept \/ Refuse
  /\ UNCHANGED <<requestFrame, sleeping>>

\* The next request is made, and may fail; one that depends on the request before it is left
\* out when that failed.
InvokeOCDoResource ==
  /\ main = "run" /\ todo # <<>>
  /\ todo' = Tail(todo)
  /\ \/ /\ Head(todo).ifOk => lastOk
        /\ Accept
        /\ StoreHandle(Head(todo).method, Len(calls'))
        /\ sleeping' = IF Head(todo).again THEN sleeping + 1 ELSE sleeping
     \/ /\ Head(todo).ifOk => lastOk
        /\ Refuse
        /\ UNCHANGED <<gObserveDoHandle, gPresenceHandle, sleeping>>
     \/ /\ Head(todo).ifOk /\ ~lastOk
        /\ UNCHANGED <<lastOk, stackVars, gObserveDoHandle, gPresenceHandle, sleeping, failures>>
  /\ UNCHANGED requestFrame

\* collectUniqueResource: the next resource is old, or no memory is left, or it is inserted
\* and queried at once.
collectUniqueResource ==
  /\ main = "run" /\ todo = <<>> /\ uris # <<>>
  /\ uris' = Tail(uris)
  /\ LET sid == DeviceOf[answerer]
         endpoint == [addr |-> answerer, port |-> <<answerer, FALSE>>]
     IN \/ UNCHANGED <<resourceList, todo>>
        \/ /\ ~Basic!IsOld(resourceList, sid, endpoint, Head(uris).uri)
           /\ resourceList' = Basic!insertResource(resourceList, sid, endpoint, Head(uris).uri)
           /\ todo' = Basic!queryResource(test, resourceList')
  /\ UNCHANGED <<bodyFrame, main, verdict, lastOk, serverAddr, stackVars>>

\* The callback returns, and the stack drops the transaction if it is told to.
Return ==
  /\ main = "run" /\ todo = <<>> /\ uris = <<>>
  /\ main' = "test"
  /\ live' = IF verdict.keep THEN live ELSE live \ {current}
  /\ current' = 0 /\ answerer' = NoEndpoint /\ verdict' = Keep /\ lastOk' = TRUE
  /\ UNCHANGED <<callbackFrame, uris, todo, serverAddr, resourceList, calls, counters, sleeping,
                 history>>

Main ==
  \/ LoopTest \/ ProcessNothing \/ ProcessFails \/ Exit
  \/ \E h \in live, e \in Endpoints, answer \in Answers : ProcessAnswer(h, e, answer)
  \/ \E h \in live, r \in Responses : ProcessResponse(h, r)
  \/ SaveHost \/ SavePort \/ InvokeOCDoResource \/ collectUniqueResource \/ Return

-----------------------------------------------------------------------------
\* A thread wakes after 30 seconds and repeats the DELETE, with the address that was saved
\* last, whatever main is doing.  A stack that was stopped refuses.
RequestDeleteDeathResourceTask ==
  /\ Alive /\ sleeping > 0
  /\ sleeping' = sleeping - 1
  /\ \/ /\ main # "stopping"
        /\ calls' = Append(calls, Call(Occlient!RequestDeleteDeathResourceTask, serverAddr,
                                       "thread"))
        /\ live' = live \cup {Len(calls')}
        /\ UNCHANGED failures
     \/ /\ main = "stopping" \/ failures < MaxFailures
        /\ failures' = IF main = "stopping" THEN failures ELSE failures + 1
        /\ UNCHANGED stackVars
  /\ UNCHANGED <<callbackFrame, main, serverAddr, callback, resourceList, counters, answers,
                 responses, heard, badCancel>>

\* Nothing happens any more once the process is over, or nobody is left to end it.
Terminated == (~Alive \/ main = "gone") /\ UNCHANGED vars

Next == Main \/ GMainLoop \/ handleSigInt \/ RequestDeleteDeathResourceTask \/ Terminated

Spec == Init /\ [][Next]_vars
-----------------------------------------------------------------------------
Addresses == [addr : Endpoints \cup {NoEndpoint}, port : Ports]

ConfigOK == program \in Programs /\ test \in TestsOf(program) /\ unicast \in BOOLEAN

MainOK ==
  /\ gQuitFlag \in BOOLEAN
  /\ main \in {"test", "process", "host", "port", "run", "stopping", "gone",
               "stopped", "aborted", "crashed"}
  /\ glib \in {"none", "starting", "running", "quit", "returned"}

CallbackOK ==
  /\ current \in Nat /\ answerer \in Endpoints \cup {NoEndpoint}
  /\ uris \in Seq([uri : Uris, secure : BOOLEAN])
  /\ verdict \in Outcomes /\ todo \in Seq(Requests) /\ lastOk \in BOOLEAN

AddressOK ==
  /\ serverAddr \in Addresses
  /\ resourceList \in Seq([sid : Endpoints, uri : Uris, endpoint : Addresses])

CallType == [method : Methods, uri : Uris, addr : Endpoints \cup {NoEndpoint},
             port : Ports, by : {"main", "thread"}]

CallsOK ==
  /\ calls \in Seq(CallType) /\ live \subseteq DOMAIN calls
  /\ gObserveDoHandle \in 0 .. Len(calls) /\ gPresenceHandle \in 0 .. Len(calls)

CountersOK == gNumObserveNotifies \in Nat /\ gNumPresenceNotifies \in Nat /\ sleeping \in Nat

HistoryOK ==
  /\ answers \in 0 .. MaxAnswers /\ responses \in 0 .. MaxResponses[program]
  /\ failures \in 0 .. MaxFailures
  /\ heard \subseteq Endpoints \X Uris \X BOOLEAN
  /\ badCancel \in BOOLEAN

TypeOK == /\ ConfigOK /\ MainOK /\ CallbackOK /\ AddressOK
          /\ CallsOK /\ CountersOK /\ HistoryOK

CallsOf(method) == {i \in DOMAIN calls : calls[i].method = method}

\* A client stops counting: in occlient each of its observations gets at most one
\* notification beyond the threshold, although they share one counter; the others, which
\* cancel only at the threshold, do so if there is just one subscription.
NotificationsBounded ==
  /\ program = "occlient" /\ test = "OBS" =>
       gNumObserveNotifies <= MaxNotifications + Cardinality(CallsOf("OBSERVE"))
  /\ /\ program = "remote" \/ (program = "tizen" /\ test = "OBS")
     /\ Cardinality(CallsOf("OBSERVE")) <= 1
     => gNumObserveNotifies <= MaxNotifications
  /\ Cardinality(CallsOf("PRESENCE")) <= 1 => gNumPresenceNotifies <= MaxNotifications

\* With one subscription of a kind, OCCancel is never called with a handle that was not
\* stored or has ended.  (With several it may be, and the collection client, which observes
\* nothing, does so at the third response: see the README.)
CancelsLive ==
  /\ program # "coll"
  /\ Cardinality(CallsOf("OBSERVE")) <= 1 /\ Cardinality(CallsOf("PRESENCE")) <= 1
  => ~badCancel

Answered == {e \in Endpoints : <<e, Discovery, FALSE>> \in heard}

\* Every request of a test goes to the whole address of an endpoint that answered, which in
\* occlient lists /a/light and in basicops and ams the resource asked for; in ams what is asked
\* for at a secure port is a secure resource, none that every device has there.  Only a
\* thread's DELETE may go to the pieces of two such addresses.
RequestsReachResponders ==
  \A i \in DOMAIN calls :
    calls[i].method \notin Discoveries =>
      /\ calls[i].addr \in Answered /\ calls[i].port[1] \in Answered
      /\ calls[i].by = "main" =>
           /\ calls[i].port[1] = calls[i].addr
           /\ program = "occlient" => \E s \in BOOLEAN : <<calls[i].addr, Light, s>> \in heard
           /\ program \in {"basicops", "ams"} /\ calls[i].uri # "" =>
                \E s \in BOOLEAN : <<calls[i].addr, calls[i].uri, s>> \in heard
           /\ program = "ams" /\ calls[i].port[2] =>
                calls[i].uri # Doxm /\ <<calls[i].addr, calls[i].uri, TRUE>> \in heard

\* Basic operations: however often and from whatever address a device answers, a resource of
\* it is in the list once and gets one GET.
QueriedOnce ==
  program = "basicops" =>
    /\ \A i, k \in DOMAIN resourceList :
         resourceList[i].sid = resourceList[k].sid /\ resourceList[i].uri = resourceList[k].uri
           => i = k
    /\ \A i, k \in CallsOf("GET") :
         DeviceOf[calls[i].addr] = DeviceOf[calls[k].addr] /\ calls[i].uri = calls[k].uri => i = k

\* No callback is called again once its transaction is over, and where a request has one
\* response (everywhere but in the collection client) its transaction is over when the
\* callback that got the response returns.
AnsweredOnce ==
  [][/\ \A h \in DOMAIN calls \ live : h \notin live' /\ (current' = h => current = h)
     /\ /\ program # "coll" /\ current # 0 /\ current' # current
        /\ calls[current].method \in Single
        => current \notin live']_vars

\* How far main is from its end after SIGINT, and how much it may still do where it is: there
\* are at most five requests for a resource that is collected, each may start a thread, and
\* each thread makes one request more.
MainRank == CASE main = "process" -> 6
              [] main = "host" -> 5
              [] main = "port" -> 4
              [] main = "run" -> 3
              [] main = "test" -> 2
              [] main \in {"stopping", "gone"} -> 1
              [] OTHER -> 0
WorkRank == 11 * Len(uris) + 2 * Len(todo) + sleeping + (IF glib = "starting" THEN 1 ELSE 0)

\* After SIGINT every step of a client brings it closer to its end, or leaves it less to do
\* before: no discovery, however much it found, and no thread keeps it from ending.
ShutdownAdvances ==
  [][gQuitFlag => \/ MainRank' < MainRank
                  \/ MainRank' = MainRank /\ WorkRank' < WorkRank]_vars
=============================================================================
