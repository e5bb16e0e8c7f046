---------------------------- MODULE ServerMains ----------------------------
(***************************************************************************)
(* How the main functions of the sample servers differ: what they set up   *)
(* before the loop, what a failure of OCProcess does, which threads they   *)
(* start and stop, and how they end.  Servers runs them.                   *)
(***************************************************************************)
EXTENDS ServerCallbacks, Sequences

\* A call made before the loop: the resource it creates if any, whether it starts the thread
\* that changes the light, and whether main ends when it fails.
SetupCall == [creates : SUBSET Resources, starts : BOOLEAN, fatal : BOOLEAN]

Must == [creates |-> {}, starts |-> FALSE, fatal |-> TRUE]
MustCreate(r) == [Must EXCEPT !.creates = {r}]
\* The creation of a resource whose result is logged, and not looked at.
Create(r) == [Must EXCEPT !.creates = {r}, !.fatal = FALSE]
StartNotifier == [Must EXCEPT !.starts = TRUE, !.fatal = FALSE]

\* onError: when OCProcess fails, main returns, or it goes on, or the thread that calls it
\* ends.  joins: what main cancels and joins after the loop.  after: main stops the stack,
\* or exits, or the thread tells the GLib loop of main to quit.
MainType == [setup : Seq(SetupCall), onError : {"return", "continue", "thread"},
             joins : SUBSET {"notifier", "presence"}, after : {"stop", "exit", "quit"}]

\* OCInit, OCStartPresence in a build with it, platform and device information.
LightSetup(withPresence) == (IF withPresence THEN <<Must, Must>> ELSE <<Must>>) \o <<Must, Must>>

\* ocserver.cpp: the thread that changes the light is started by its first observer.
ocserver(withPresence) ==
  [setup |-> Append(LightSetup(withPresence), Create(Main)),
   onError |-> "return", joins |-> {"notifier", "presence"}, after |-> "stop"]

\* tizen/SimpleClientServer/ocserver.cpp: OCProcess is called by a thread, GMainLoopThread.
tizen_ocserver(withPresence) ==
  [setup |-> LightSetup(withPresence) \o <<Create(Main), StartNotifier>>,
   onError |-> "thread", joins |-> {"notifier", "presence"}, after |-> "quit"]

ocserverbasicops ==
  [setup |-> <<Must, Create(Main)>>, onError |-> "return", joins |-> {}, after |-> "stop"]

ams_ocserverbasicops ==
  [setup |-> <<Must, Create(Main)>>, onError |-> "return", joins |-> {}, after |-> "stop"]

sampleserver_justworks ==
  [setup |-> <<Must, Create(Main)>>, onError |-> "return", joins |-> {}, after |-> "stop"]

\* The callback that shows the PIN is set between the two calls.
sampleserver_randompin ==
  [setup |-> <<Must, Create(Main)>>, onError |-> "return", joins |-> {}, after |-> "stop"]

\* Mutant: the stack is stopped without waiting for the thread.
ocservercoll_JoinsNobody ==
  [setup |-> <<Must, Create(Fan), Create(Main), Create(Room), StartNotifier>>,
   onError |-> "return", joins |-> {}, after |-> "stop"]

\* In test case 2 the room has a handler of the program's.
ocservercoll ==
  [setup |-> <<Must, Create(Fan), Create(Main), Create(Room), StartNotifier>>,
   onError |-> "return", joins |-> {"notifier"}, after |-> "stop"]

\* get/get_server.c: main ends its thread; the thread that is left goes on when OCProcess
\* fails, and leaves the process without stopping the stack.
get_server ==
  [setup |-> <<Must, Must, Must, Must, MustCreate(Main)>>,
   onError |-> "continue", joins |-> {}, after |-> "exit"]

\* discovery/server.c, with an LED and a button for the one resource here.
discovery_server ==
  [setup |-> <<Must, Must, Must, Must, MustCreate(Main)>>,
   onError |-> "continue", joins |-> {}, after |-> "exit"]

\* mraa/server.c; of its resources the temperature sensor.
mraa_server ==
  [setup |-> <<Must, Must, Must, Must, MustCreate(Main)>>,
   onError |-> "return", joins |-> {}, after |-> "stop"]

ocrouting == [setup |-> <<Must>>, onError |-> "return", joins |-> {}, after |-> "stop"]

tizen_ocrouting == [setup |-> <<Must>>, onError |-> "thread", joins |-> {}, after |-> "quit"]

ocamsservice == [setup |-> <<Must>>, onError |-> "return", joins |-> {}, after |-> "stop"]
=============================================================================
