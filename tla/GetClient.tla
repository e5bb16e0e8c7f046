----------------------------- MODULE GetClient -----------------------------
(***************************************************************************)
(* The client of examples/get/get_client.c: a thread that prompts the user *)
(* and sends requests, and the main thread that runs the stack and, inside *)
(* it, the service routines for the responses.  The two share the resource *)
(* list, the address of the temperature server and gQuitFlag without a     *)
(* lock; the flag waiting is all that keeps them apart.                    *)
(***************************************************************************)
EXTENDS Naturals, FiniteSets

CONSTANTS
  Servers,       \* servers that may answer a discovery
  Uris,          \* URIs they may list
  TEMPERATURE,   \* RSC_URI_TEMPERATURE
  NoServer       \* the address before any discovery

\* A response lists finitely many resources.
ASSUME GetClientConstants ==
  /\ TEMPERATURE \in Uris /\ IsFiniteSet(Uris)
  /\ NoServer \notin Servers

VARIABLES
  gQuitFlag,
  waiting,
  resourceList,          \* the resources in it, as <<server, uri>>
  device_address,        \* [addr, port], each by the server it belongs to
  conn_type,             \* likewise
  outstanding,           \* kinds of requests the stack awaits a response for
  main, server, uris,    \* main thread; the response in a service routine
  ui,                    \* the thread that runs prompt_user
  cancelled              \* pthread_cancel(ui_thread) was called

addressVars == <<device_address, conn_type>>
mainVars == <<main, server, uris>>
vars == <<gQuitFlag, waiting, resourceList, addressVars, outstanding, mainVars, ui, cancelled>>

Init ==
  /\ gQuitFlag = FALSE
  /\ waiting = FALSE
  /\ resourceList = {}
  /\ device_address = [addr |-> NoServer, port |-> NoServer] /\ conn_type = NoServer
  /\ outstanding = {}
  /\ main = "test" /\ server = NoServer /\ uris = {}
  /\ ui = "test"
  /\ cancelled = FALSE

Alive == main \notin {"stopped", "aborted", "crashed"}

-----------------------------------------------------------------------------
(* Main thread.                                                            *)

MainGoto(from, to) == main = from /\ main' = to

mainFrame == <<gQuitFlag, ui>>

\* Mutant: the user's thread is joined, but not cancelled.
LoopTest_NoCancel ==
  /\ MainGoto("test", IF gQuitFlag THEN "join" ELSE "process")
  /\ UNCHANGED <<waiting, resourceList, addressVars, outstanding, server, uris, cancelled,
                 mainFrame>>

LoopTest ==
  /\ MainGoto("test", IF gQuitFlag THEN "join" ELSE "process")
  /\ cancelled' = gQuitFlag
  /\ UNCHANGED <<waiting, resourceList, addressVars, outstanding, server, uris, mainFrame>>

\* OCProcess has no response, or fails and main returns.
ProcessNothing ==
  /\ MainGoto("process", "test") \/ MainGoto("process", "aborted")
  /\ UNCHANGED <<waiting, resourceList, addressVars, outstanding, server, uris, cancelled,
                 mainFrame>>

\* The first response to a request: the service routines return
\* OC_STACK_DELETE_TRANSACTION, so that the stack drops any further one.
ProcessResponse(kind) ==
  /\ kind \in outstanding
  /\ outstanding' = outstanding \ {kind}
  /\ MainGoto("process", IF kind = "resource" THEN "collect" ELSE "notify")
  /\ server' \in Servers
  /\ uris' \in (IF kind = "resource" THEN SUBSET Uris ELSE {{}})
  /\ UNCHANGED <<waiting, resourceList, addressVars, cancelled, mainFrame>>

\* Without a client_response, all but svc_device_discovery_response read through NULL in
\* print_client_response_header, before they test for it.
ProcessNullResponse(kind) ==
  /\ kind \in outstanding
  /\ outstanding' = outstanding \ {kind}
  /\ MainGoto("process", IF kind = "device" THEN "notify" ELSE "crashed")
  /\ UNCHANGED <<waiting, resourceList, addressVars, server, uris, cancelled, mainFrame>>

\* Mutant: the server id is not stored in the node.
insertResource_NoSid(uri) ==
  /\ uris' = uris \ {uri}
  /\ resourceList' \in {resourceList, resourceList \cup {<<NoServer, uri>>}}

\* The list stays as it is if memory runs out.
insertResource(uri) ==
  /\ uris' = uris \ {uri}
  /\ resourceList' \in {resourceList, resourceList \cup {<<server, uri>>}}

\* collectUniqueResource takes one resource after the other.  The address of a temperature
\* resource is saved before it is inserted: the address as a whole, with the port the
\* response came from, then the resource's port, then the connection type.
CollectOther ==
  /\ MainGoto("collect", "collect")
  /\ \E uri \in uris \ {TEMPERATURE} : insertResource(uri)
  /\ UNCHANGED <<waiting, addressVars, outstanding, server, cancelled, mainFrame>>

SaveAddress ==
  /\ MainGoto("collect", "port")
  /\ TEMPERATURE \in uris
  /\ device_address' = [addr |-> server, port |-> NoServer]
  /\ UNCHANGED <<waiting, resourceList, conn_type, outstanding, server, uris, cancelled,
                 mainFrame>>

SavePort ==
  /\ MainGoto("port", "conn")
  /\ device_address' = [device_address EXCEPT !.port = server]
  /\ UNCHANGED <<waiting, resourceList, conn_type, outstanding, server, uris, cancelled,
                 mainFrame>>

SaveConnType ==
  /\ MainGoto("conn", "collect")
  /\ conn_type' = server
  /\ insertResource(TEMPERATURE)
  /\ UNCHANGED <<waiting, device_address, outstanding, server, cancelled, mainFrame>>

\* Mutant: waiting is cleared while resources are still being collected.
CollectDone_Early ==
  /\ MainGoto("collect", "collect")
  /\ waiting
  /\ waiting' = FALSE
  /\ UNCHANGED <<resourceList, addressVars, outstanding, server, uris, cancelled, mainFrame>>

CollectDone ==
  /\ MainGoto("collect", "notify")
  /\ uris = {}
  /\ UNCHANGED <<waiting, resourceList, addressVars, outstanding, server, uris, cancelled,
                 mainFrame>>

collectUniqueResource ==
  CollectOther \/ SaveAddress \/ SavePort \/ SaveConnType \/ CollectDone

\* "tell ui thread we're done", the last thing every service routine does.
Notify ==
  /\ MainGoto("notify", "test")
  /\ waiting' = FALSE
  /\ UNCHANGED <<resourceList, addressVars, outstanding, server, uris, cancelled, mainFrame>>

\* Mutant: the stack is stopped without waiting for the thread.
JoinUi_NoJoin ==
  /\ MainGoto("join", "stopped")
  /\ UNCHANGED <<waiting, resourceList, addressVars, outstanding, server, uris, cancelled,
                 mainFrame>>

\* pthread_join of the user's thread, then OCStop.
JoinUi ==
  /\ MainGoto("join", "stopped")
  /\ ui = "exit"
  /\ UNCHANGED <<waiting, resourceList, addressVars, outstanding, server, uris, cancelled,
                 mainFrame>>

Kinds == {"platform", "device", "resource", "get"}

Main == \/ LoopTest \/ ProcessNothing \/ collectUniqueResource \/ Notify \/ JoinUi
        \/ \E kind \in Kinds : ProcessResponse(kind) \/ ProcessNullResponse(kind)

handleSigInt ==
  /\ Alive /\ ~gQuitFlag
  /\ gQuitFlag' = TRUE
  /\ UNCHANGED <<waiting, resourceList, addressVars, outstanding, mainVars, ui, cancelled>>

-----------------------------------------------------------------------------
(* prompt_user                                                             *)

UiGoto(from, to) == Alive /\ ui = from /\ ui' = to

uiFrame == <<resourceList, addressVars, server, uris, cancelled>>

\* Mutant: waiting is not looked at.
UiTest_Impatient ==
  /\ UiGoto("test", IF gQuitFlag THEN "exit" ELSE "prompt")
  /\ UNCHANGED <<gQuitFlag, waiting, outstanding, main, uiFrame>>

\* The loop: with waiting up the thread sleeps a moment and tests again.
UiTest ==
  /\ UiGoto("test", IF gQuitFlag THEN "exit" ELSE IF waiting THEN "test" ELSE "prompt")
  /\ UNCHANGED <<gQuitFlag, waiting, outstanding, main, uiFrame>>

\* The user chooses a request, the list, or something that is not in the menu.
UiPrompt ==
  /\ \E action \in Kinds \cup {"list", "test"} : UiGoto("prompt", action)
  /\ UNCHANGED <<gQuitFlag, waiting, outstanding, main, uiFrame>>

UiQuit ==
  /\ UiGoto("prompt", "test")
  /\ gQuitFlag' = TRUE
  /\ UNCHANGED <<waiting, outstanding, main, uiFrame>>

\* OCDoResource of the requests discover_platform, discover_device, discover_resources, and
\* get_resource or get_pstat, which go to device_address.
OCDoResource(kind) ==
  /\ UiGoto(kind, "await")
  /\ outstanding' \in {outstanding, outstanding \cup {kind}}
  /\ UNCHANGED <<gQuitFlag, waiting, main, uiFrame>>

\* waiting goes up when OCDoResource has returned, with or without success.
UiAwait ==
  /\ UiGoto("await", "test")
  /\ waiting' = TRUE
  /\ UNCHANGED <<gQuitFlag, outstanding, main, uiFrame>>

\* The first node is read before the test for the end of the list: an empty list crashes.
print_resource_list ==
  /\ UiGoto("list", "test")
  /\ \/ /\ resourceList = {}
        /\ main' = "crashed"
        /\ UNCHANGED waiting
     \/ /\ resourceList # {}
        /\ waiting' = FALSE
        /\ UNCHANGED main
  /\ UNCHANGED <<gQuitFlag, outstanding, uiFrame>>

\* Cancellation takes effect in nanosleep, in scanf and in the input and output of the rest.
UiCancelled ==
  /\ cancelled
  /\ \/ waiting /\ UiGoto("test", "exit")
     \/ \E point \in Kinds \cup {"prompt", "list"} : UiGoto(point, "exit")
  /\ UNCHANGED <<gQuitFlag, waiting, outstanding, main, uiFrame>>

\* What the thread does by itself, without the user.
UiRuns == \/ UiTest \/ UiAwait \/ print_resource_list \/ UiCancelled
          \/ \E kind \in Kinds : OCDoResource(kind)

prompt_user == UiRuns \/ UiPrompt \/ UiQuit

-----------------------------------------------------------------------------
Terminated == ~Alive /\ UNCHANGED vars

Next == Main \/ handleSigInt \/ prompt_user \/ Terminated

\* Both threads run; the user may never type, and a response may never come.
Fairness == WF_vars(Main) /\ WF_vars(UiRuns)

Spec == Init /\ [][Next]_vars
FairSpec == Spec /\ Fairness

-----------------------------------------------------------------------------
InRoutine == main \in {"collect", "port", "conn", "notify"}
Choosing == ui \in Kinds \cup {"prompt", "list"}

TypeOK ==
  /\ gQuitFlag \in BOOLEAN
  /\ waiting \in BOOLEAN
  /\ resourceList \subseteq Servers \X Uris
  /\ device_address \in [addr : Servers \cup {NoServer}, port : Servers \cup {NoServer}]
  /\ conn_type \in Servers \cup {NoServer}
  /\ outstanding \subseteq Kinds
  /\ main \in {"test", "process", "collect", "port", "conn", "notify", "join", "stopped",
               "aborted", "crashed"}
  /\ server \in Servers \cup {NoServer}
  /\ main \in {"collect", "port", "conn"} => server \in Servers
  /\ uris \subseteq Uris
  /\ ui \in Kinds \cup {"test", "prompt", "list", "await", "exit"}
  /\ cancelled \in BOOLEAN

\* The user is prompted, and what is chosen is done, only while no response is awaited or
\* being handled: the list and the address are never used by both threads at once.
PromptMeansIdle == Alive /\ Choosing => outstanding = {} /\ ~InRoutine

AddressWhole == device_address.addr = device_address.port /\ device_address.addr = conn_type

\* A GET goes to the address, port and connection type of one server, although the service
\* routine saves them one by one and a later discovery may find another server.
AddressIsWhole == ui = "get" /\ Alive => AddressWhole

\* OCStop is called only when the user's thread can no longer send a request.
QuietAfterStop == main = "stopped" => ui = "exit"

\* SIGINT or "q" ends the program, even while it waits for the user or for a response that
\* does not come.
ShutdownCompletes == gQuitFlag ~> ~Alive

-----------------------------------------------------------------------------
(* The inductive invariant.                                                *)

\* When the user's thread is about to find waiting down, nothing is outstanding; and while
\* a response is handled the request it belongs to was the only one.
IdleInv ==
  /\ PromptMeansIdle
  /\ \A k1, k2 \in outstanding : k1 = k2
  /\ Alive /\ ui = "test" /\ ~waiting => outstanding = {} /\ ~InRoutine
  /\ Alive /\ ui \in {"test", "await"} /\ InRoutine => outstanding = {}
  /\ QuietAfterStop

\* The address is in pieces only between the steps that save it.
AddressInv ==
  /\ main = "port" => device_address.addr = server
  /\ main = "conn" => device_address.addr = server /\ device_address.port = server
  /\ main \notin {"port", "conn"} => AddressWhole

IInv == TypeOK /\ IdleInv /\ AddressInv

-----------------------------------------------------------------------------
(* What the flag waiting costs and buys.                                   *)

\* While the user's thread prompts, or does what was chosen, no service routine writes what
\* it reads: not the list it may print, nor the address its request goes to.
NoConcurrentWrite ==
  [][Choosing => UNCHANGED <<resourceList, device_address, conn_type>>]_vars

\* get_client.c:505 raises the flag when the request is already with the stack, so that the
\* response may come first.  The user's thread then waits for a response that was handled:
\* with no request outstanding no step of the client lowers the flag again, and only SIGINT,
\* or the failure of OCProcess, gets it out.
MissedResponseIsFinal ==
  [][Alive /\ ui = "test" /\ waiting /\ outstanding = {} /\ ~InRoutine
       => waiting' /\ ui' \in {"test", "exit"} /\ (ui' = "exit" => gQuitFlag)]_vars

-----------------------------------------------------------------------------
(* How the shutdown comes to its end.                                      *)

\* Until main cancels it the user's thread may sit in a prompt: pthread_join is called only
\* when it was cancelled and told to quit.
JoinInv ==
  /\ cancelled => gQuitFlag
  /\ main = "join" => cancelled
  /\ main \in {"port", "conn"} => TEMPERATURE \in uris

\* How many steps each thread can take after SIGINT, at most; the user's answers count too.
MainRank == CASE main = "process" -> 4 * Cardinality(Uris) + 5
              [] main = "collect" -> 4 * Cardinality(uris) + 4
              [] main = "port" -> 4 * Cardinality(uris) + 3
              [] main = "conn" -> 4 * Cardinality(uris) + 2
              [] main = "notify" -> 3
              [] main = "test" -> 2
              [] main = "join" -> 1
              [] OTHER -> 0
UiRank == CASE ui = "prompt" -> 4
            [] ui \in Kinds -> 3
            [] ui \in {"await", "list"} -> 2
            [] ui = "test" -> 1
            [] OTHER -> 0
ShutdownRank == MainRank + UiRank

\* After SIGINT or "q" every step of either thread brings the end closer.
ShutdownAdvances == [][gQuitFlag => ShutdownRank' < ShutdownRank]_vars
=============================================================================
