---------------------------- MODULE ServersProofs ----------------------------
(***************************************************************************)
(* The safety of Servers, for any number of instances and any requests:    *)
(* how a server ends, what it answers, and the power of the light.         *)
(***************************************************************************)
EXTENDS ServersTypeProofs

USE DEF Main, Instance, Instances, Fan, Room, Unknown, Resources

-----------------------------------------------------------------------------
(* The end of a server, and the thread that changes the light.             *)

\* Who starts the thread waits for it; only the light's servers wait for the presence thread;
\* who leaves without stopping the stack waits for nobody.
LEMMA JoinsWhat ==
  ASSUME NEW p \in Programs
  PROVE  /\ p \in {"light", "tizen", "coll"} <=> "notifier" \in MainOf(p).joins
         /\ "presence" \in MainOf(p).joins => p \in {"light", "tizen"}
         /\ MainOf(p).after = "exit" => MainOf(p).joins = {}
  BY DEF Programs, MainOf, ocserver, tizen_ocserver, ocserverbasicops, ams_ocserverbasicops,
         sampleserver_justworks, sampleserver_randompin, ocservercoll, get_server,
         discovery_server, mraa_server, ocrouting, tizen_ocrouting, ocamsservice

\* main goes on to its end only when it was told to; a thread that runs is one main joins.
EndInv ==
  /\ notifier # "none" => "notifier" \in MainOf(program).joins
  /\ main \in {"joining", "stopping"} \/ glib = "quit" => gQuitFlag
  /\ glib = "quit" => main = "gone"
  /\ QuietAfterStop

LEMMA InitEnds == Init => EndInv
  BY DEF Init, EndInv, QuietAfterStop

LEMMA NextEnds == TypeInv /\ EndInv /\ [Next]_vars => EndInv'
<1> SUFFICES ASSUME TypeInv, EndInv PROVE [Next]_vars => EndInv'
  OBVIOUS
<1> USE DEF TypeInv, QuietAfterStop
<1>1. SetUp => EndInv'
  <2> SUFFICES ASSUME SetUp PROVE EndInv'
    OBVIOUS
  <2>1. Head(setup).starts => program \in {"tizen", "coll"}
    <3>1. Head(setup) \in SetupCalls(program)
      BY DEF SetUp, SetupInv
    <3>. QED
      BY <3>1 DEF SetupCalls
  <2>2. \/ notifier' = "sleep" /\ "notifier" \in MainOf(program).joins
        \/ notifier' = notifier
    BY <2>1, JoinsWhat DEF SetUp, TypeOK, ConfigOK
  <2>3. main = "setup" /\ main' \in {"setup", "aborted"} /\ MainOf(program)' = MainOf(program)
    BY DEF SetUp, config, MainOf
  <2>4. UNCHANGED <<program, gQuitFlag, glib>>
    BY DEF SetUp, config
  <2>. QED
    BY <2>2, <2>3, <2>4 DEF EndInv
<1>2. Enter => EndInv'
  <2> SUFFICES ASSUME Enter PROVE EndInv'
    OBVIOUS
  <2>1. MainOf(program)' = MainOf(program)
    BY DEF Enter, config, MainOf
  <2>. QED
    BY <2>1 DEF Enter, serving, thread, EndInv, config, handler
<1>3. LoopTest => EndInv'
  <2> SUFFICES ASSUME LoopTest PROVE EndInv'
    OBVIOUS
  <2>1. MainOf(program)' = MainOf(program)
    BY DEF LoopTest, config, MainOf
  <2>2. /\ main' \in {"process", "joining", "stopped", "gone"}
        /\ main' # "process" => gQuitFlag
        /\ main' = "stopped" => MainOf(program).after = "exit"
    BY MainsTyped DEF LoopTest, TypeOK, ConfigOK
  <2>3. main' = "stopped" => notifier = "none"
    BY <2>2, JoinsWhat DEF EndInv, TypeOK, ConfigOK
  <2>4. (glib' = "quit" => glib = "quit" \/ main' = "gone") /\ gQuitFlag' = gQuitFlag
    BY DEF LoopTest
  <2>5. main' \in {"joining", "stopping"} \/ glib' = "quit" => gQuitFlag'
    BY <2>2, <2>4 DEF EndInv
  <2>6. UNCHANGED <<program, notifier>>
    BY DEF LoopTest, config, thread
  <2>7. glib' = "quit" => main' = "gone"
    BY <2>4 DEF LoopTest, EndInv
  <2>. QED
    BY <2>1, <2>2, <2>3, <2>5, <2>6, <2>7 DEF EndInv
<1>4. ProcessNothing => EndInv'
  <2> SUFFICES ASSUME ProcessNothing PROVE EndInv'
    OBVIOUS
  <2>1. MainOf(program)' = MainOf(program)
    BY DEF ProcessNothing, config, MainOf
  <2>. QED
    BY <2>1 DEF ProcessNothing, serving, thread, EndInv, config, handler
<1>5. ProcessFails => EndInv'
  <2> SUFFICES ASSUME ProcessFails PROVE EndInv'
    OBVIOUS
  <2>1. MainOf(program)' = MainOf(program)
    BY DEF ProcessFails, config, MainOf
  <2>2. main' \in {"aborted", "test", "gone"}
    BY MainsTyped DEF ProcessFails, TypeOK, ConfigOK
  <2>. QED
    BY <2>1, <2>2 DEF ProcessFails, EndInv, config, thread
<1>6. Join => EndInv'
  <2> SUFFICES ASSUME Join PROVE EndInv'
    OBVIOUS
  <2>1. MainOf(program)' = MainOf(program)
    BY DEF Join, config, MainOf
  <2>2. main' = "stopping" => notifier \in {"none", "ended"}
    BY DEF Join, EndInv
  <2>3. main' \in {"joining", "stopping", "crashed"} /\ gQuitFlag' = gQuitFlag /\ gQuitFlag
    BY DEF Join, EndInv
  <2>. QED
    BY <2>1, <2>2, <2>3 DEF Join, EndInv, config
<1>7. Stop => EndInv'
  <2> SUFFICES ASSUME Stop PROVE EndInv'
    OBVIOUS
  <2>1. MainOf(program)' = MainOf(program)
    BY DEF Stop, config, MainOf
  <2>. QED
    BY <2>1 DEF Stop, serving, thread, EndInv, config, handler
<1>8. GMainLoop => EndInv'
  <2> SUFFICES ASSUME GMainLoop PROVE EndInv'
    OBVIOUS
  <2>1. MainOf(program)' = MainOf(program)
    BY DEF GMainLoop, config, MainOf
  <2>. QED
    BY <2>1 DEF GMainLoop, serving, thread, EndInv, config, handler
<1>9. handleSigInt => EndInv'
  <2> SUFFICES ASSUME handleSigInt PROVE EndInv'
    OBVIOUS
  <2>1. MainOf(program)' = MainOf(program)
    BY DEF handleSigInt, config, MainOf
  <2>. QED
    BY <2>1 DEF handleSigInt, serving, thread, EndInv, config, handler
<1>10. \A r \in Requests[program] : ProcessRequest(r) => EndInv'
  <2> SUFFICES ASSUME NEW r \in Requests[program], ProcessRequest(r) PROVE EndInv'
    OBVIOUS
  <2>1. MainOf(program)' = MainOf(program)
    BY DEF ProcessRequest, requestFrame, config, MainOf
  <2>2. main' \in {"crashed", "write"}
    BY DEF ProcessRequest
  <2>. QED
    BY <2>1, <2>2 DEF ProcessRequest, EndInv, requestFrame, config, thread
<1>11. Write => EndInv'
  <2> SUFFICES ASSUME Write PROVE EndInv'
    OBVIOUS
  <2>1. MainOf(program)' = MainOf(program)
    BY DEF Write, requestFrame, config, MainOf
  <2>. QED
    BY <2>1 DEF Write, requestFrame, thread, EndInv, config
<1>12. CreateInstance => EndInv'
  <2> SUFFICES ASSUME CreateInstance PROVE EndInv'
    OBVIOUS
  <2>1. MainOf(program)' = MainOf(program)
    BY DEF CreateInstance, instanceFrame, requestFrame, config, MainOf
  <2>. QED
    BY <2>1 DEF CreateInstance, instanceFrame, requestFrame, thread, EndInv, config
<1>13. DeleteResource => EndInv'
  <2> SUFFICES ASSUME DeleteResource PROVE EndInv'
    OBVIOUS
  <2>1. MainOf(program)' = MainOf(program)
    BY DEF DeleteResource, instanceFrame, requestFrame, config, MainOf
  <2>. QED
    BY <2>1 DEF DeleteResource, instanceFrame, requestFrame, thread, EndInv, config
<1>14. OCDoResponse => EndInv'
  <2> SUFFICES ASSUME OCDoResponse PROVE EndInv'
    OBVIOUS
  <2>1. MainOf(program)' = MainOf(program)
    BY DEF OCDoResponse, requestFrame, config, MainOf
  <2>. QED
    BY <2>1 DEF OCDoResponse, requestFrame, thread, EndInv, config
<1>15. Observe => EndInv'
  <2> SUFFICES ASSUME Observe PROVE EndInv'
    OBVIOUS
  <2>1. MainOf(program)' = MainOf(program)
    BY DEF Observe, config, MainOf
  <2>2. notifier' = notifier \/ (notifier' = "sleep" /\ program = "light")
    BY DEF Observe
  <2>3. notifier' # "none" => "notifier" \in MainOf(program).joins
    BY <2>2, JoinsWhat DEF EndInv, TypeOK, ConfigOK
  <2>. QED
    BY <2>1, <2>3 DEF Observe, EndInv, config
<1>16. Load => EndInv'
  <2> SUFFICES ASSUME Load PROVE EndInv'
    OBVIOUS
  <2>1. MainOf(program)' = MainOf(program)
    BY DEF Load, notifierFrame, config, MainOf
  <2>. QED
    BY <2>1 DEF Load, notifierFrame, EndInv, config, handler
<1>17. Store => EndInv'
  <2> SUFFICES ASSUME Store PROVE EndInv'
    OBVIOUS
  <2>1. MainOf(program)' = MainOf(program)
    BY DEF Store, notifierFrame, config, MainOf
  <2>. QED
    BY <2>1 DEF Store, notifierFrame, EndInv, config, handler
<1>18. Notify => EndInv'
  <2> SUFFICES ASSUME Notify PROVE EndInv'
    OBVIOUS
  <2>1. MainOf(program)' = MainOf(program)
    BY DEF Notify, notifierFrame, config, MainOf
  <2>. QED
    BY <2>1 DEF Notify, EndInv, notifierFrame, config, handler
<1>19. StopPresence => EndInv'
  <2> SUFFICES ASSUME StopPresence PROVE EndInv'
    OBVIOUS
  <2>1. MainOf(program)' = MainOf(program)
    BY DEF StopPresence, notifierFrame, config, MainOf
  <2>. QED
    BY <2>1 DEF StopPresence, notifierFrame, EndInv, config, handler
<1>20. Cancelled => EndInv'
  <2> SUFFICES ASSUME Cancelled PROVE EndInv'
    OBVIOUS
  <2>1. MainOf(program)' = MainOf(program)
    BY DEF Cancelled, notifierFrame, config, MainOf
  <2>. QED
    BY <2>1 DEF Cancelled, notifierFrame, EndInv, config, handler
<1>21. UNCHANGED vars => EndInv'
  <2> SUFFICES ASSUME UNCHANGED vars PROVE EndInv'
    OBVIOUS
  <2>1. MainOf(program)' = MainOf(program)
    BY DEF vars, config, MainOf
  <2>. QED
    BY <2>1 DEF vars, thread, EndInv, config, handler
<1>. QED
  BY <1>1, <1>2, <1>3, <1>4, <1>5, <1>6, <1>7, <1>8, <1>9, <1>10, <1>11, <1>12, <1>13, <1>14,
     <1>15, <1>16, <1>17, <1>18, <1>19, <1>20, <1>21, StepCases

\* Once main stops the stack, no thread is left that could notify through it.
THEOREM Quiet == Spec => []QuietAfterStop
<1>1. TypeInv /\ EndInv => QuietAfterStop
  BY DEF EndInv
<1>. QED
  BY <1>1, InitTyped, NextTyped, InitEnds, NextEnds, PTL DEF Spec

-----------------------------------------------------------------------------
(* What is answered.                                                       *)

\* A handler lets gResourceUri name only a resource the stack has.
LEMMA DefaultNamesNothing ==
  ASSUME NEW r \in RequestType, r.resource \notin made
  PROVE  Decision(r).uri = {}
<1>1. Decision(r) = DefaultHandler(r)
  BY DEF Decision
<1>. QED
  BY <1>1 DEF DefaultHandler, Ignore, Light!OCDeviceEntityHandlerCb,
              Light!ProcessNonExistingResourceRequest, Light!Respond, Light!Ignore,
              Tizen!OCDeviceEntityHandlerCb, Tizen!ProcessNonExistingResourceRequest,
              Tizen!Respond, Tizen!Ignore, Coll!OCDeviceEntityHandlerCb, Coll!Respond,
              Coll!Ignore

\* When a handler computes the payload from what is undefined, and when it does not set it.
Undefined == program = "mraa" /\ readings > 1
Unset(r) == program = "get" /\ r.method \in {"PUT", "DELETE"}

\* What was sent was set as the response; only the Tizen handler frees a response's payload.
AnswerInv ==
  /\ sent => main = "observe" /\ response.set
  /\ handling.frees => program = "tizen" /\ req.resource \in Lights
  /\ gResourceUri \in asked \cup {Main}
  /\ program = "mraa" /\ ~pins => readings > 0
  /\ main \in {"write", "resource", "respond"} =>
       /\ handling.payload = "undefined" => Undefined
       /\ handling.payload = "unset" => Unset(req)
  /\ UriNamesResource
  /\ PayloadDefined

LEMMA InitAnswers == Init => AnswerInv
<1> SUFFICES ASSUME Init PROVE AnswerInv
  OBVIOUS
<1>1. /\ sent = FALSE /\ gResourceUri = Main /\ pins = TRUE /\ main = "setup"
      /\ ~handling.frees
  BY DEF Init, Ignore
<1>. QED
  BY <1>1 DEF AnswerInv, UriNamesResource, PayloadDefined

\* What AnswerInv is about, but for main.
answering == <<program, gResourceUri, asked, pins, readings, req, handling, response, sent>>

LEMMA AnswersKept ==
  ASSUME AnswerInv, UNCHANGED answering,
         main' \in {"write", "resource", "respond"} => main \in {"write", "resource", "respond"},
         sent => main' = "observe"
  PROVE  AnswerInv'
<1>1. UNCHANGED <<program, gResourceUri, asked, pins, readings, req, handling, response, sent>>
  BY DEF answering
<1>. QED
  BY <1>1 DEF AnswerInv, UriNamesResource, PayloadDefined, Undefined, Unset

LEMMA NextAnswers == TypeInv /\ EndInv /\ AnswerInv /\ [Next]_vars => AnswerInv'
<1> SUFFICES ASSUME TypeInv, EndInv, AnswerInv PROVE [Next]_vars => AnswerInv'
  OBVIOUS
<1> USE DEF TypeInv
<1>1. SetUp => AnswerInv'
  <2> SUFFICES ASSUME SetUp PROVE AnswerInv'
    OBVIOUS
  <2>1. UNCHANGED answering
    BY DEF SetUp, handler, history, config, answering
  <2>2. /\ main' \in {"write", "resource", "respond"} => main \in {"write", "resource", "respond"}
        /\ sent => main' = "observe"
    BY DEF SetUp, AnswerInv
  <2>. QED
    BY <2>1, <2>2, AnswersKept
<1>2. Enter => AnswerInv'
  <2> SUFFICES ASSUME Enter PROVE AnswerInv'
    OBVIOUS
  <2>1. UNCHANGED answering
    BY DEF Enter, serving, resources, handler, history, config, answering
  <2>2. /\ main' \in {"write", "resource", "respond"} => main \in {"write", "resource", "respond"}
        /\ sent => main' = "observe"
    BY DEF Enter, AnswerInv
  <2>. QED
    BY <2>1, <2>2, AnswersKept
<1>3. LoopTest => AnswerInv'
  <2> SUFFICES ASSUME LoopTest PROVE AnswerInv'
    OBVIOUS
  <2>1. UNCHANGED answering
    BY DEF LoopTest, serving, resources, handler, history, config, answering
  <2>2. /\ main' \in {"write", "resource", "respond"} => main \in {"write", "resource", "respond"}
        /\ sent => main' = "observe"
    BY MainsTyped DEF LoopTest, AnswerInv, TypeOK, ConfigOK
  <2>. QED
    BY <2>1, <2>2, AnswersKept
<1>4. ProcessNothing => AnswerInv'
  <2> SUFFICES ASSUME ProcessNothing PROVE AnswerInv'
    OBVIOUS
  <2>1. UNCHANGED answering
    BY DEF ProcessNothing, serving, resources, handler, history, config, answering
  <2>2. /\ main' \in {"write", "resource", "respond"} => main \in {"write", "resource", "respond"}
        /\ sent => main' = "observe"
    BY DEF ProcessNothing, AnswerInv
  <2>. QED
    BY <2>1, <2>2, AnswersKept
<1>5. ProcessFails => AnswerInv'
  <2> SUFFICES ASSUME ProcessFails PROVE AnswerInv'
    OBVIOUS
  <2>1. UNCHANGED answering
    BY DEF ProcessFails, serving, resources, handler, history, config, answering
  <2>2. /\ main' \in {"write", "resource", "respond"} => main \in {"write", "resource", "respond"}
        /\ sent => main' = "observe"
    BY MainsTyped DEF ProcessFails, AnswerInv, TypeOK, ConfigOK
  <2>. QED
    BY <2>1, <2>2, AnswersKept
<1>6. Join => AnswerInv'
  <2> SUFFICES ASSUME Join PROVE AnswerInv'
    OBVIOUS
  <2>1. UNCHANGED answering
    BY DEF Join, serving, resources, handler, history, config, answering
  <2>2. /\ main' \in {"write", "resource", "respond"} => main \in {"write", "resource", "respond"}
        /\ sent => main' = "observe"
    BY DEF Join, AnswerInv
  <2>. QED
    BY <2>1, <2>2, AnswersKept
<1>7. Stop => AnswerInv'
  <2> SUFFICES ASSUME Stop PROVE AnswerInv'
    OBVIOUS
  <2>1. UNCHANGED answering
    BY DEF Stop, serving, resources, handler, history, config, answering
  <2>2. /\ main' \in {"write", "resource", "respond"} => main \in {"write", "resource", "respond"}
        /\ sent => main' = "observe"
    BY DEF Stop, AnswerInv
  <2>. QED
    BY <2>1, <2>2, AnswersKept
<1>8. GMainLoop => AnswerInv'
  <2> SUFFICES ASSUME GMainLoop PROVE AnswerInv'
    OBVIOUS
  <2>1. UNCHANGED answering
    BY DEF GMainLoop, serving, resources, handler, history, config, answering
  <2>2. /\ main' \in {"write", "resource", "respond"} => main \in {"write", "resource", "respond"}
        /\ sent => main' = "observe"
    BY DEF GMainLoop, serving, handler, AnswerInv, EndInv
  <2>. QED
    BY <2>1, <2>2, AnswersKept
<1>9. handleSigInt => AnswerInv'
  <2> SUFFICES ASSUME handleSigInt PROVE AnswerInv'
    OBVIOUS
  <2>1. UNCHANGED answering
    BY DEF handleSigInt, serving, resources, handler, history, config, answering
  <2>2. /\ main' \in {"write", "resource", "respond"} => main \in {"write", "resource", "respond"}
        /\ sent => main' = "observe"
    BY DEF handleSigInt, AnswerInv
  <2>. QED
    BY <2>1, <2>2, AnswersKept
<1>10. \A r \in Requests[program] : ProcessRequest(r) => AnswerInv'
  <2> SUFFICES ASSUME NEW r \in Requests[program], ProcessRequest(r) PROVE AnswerInv'
    OBVIOUS
  <2>1. r \in RequestType /\ handling' = Decision(r) /\ req' = r
    BY ServersConstants DEF ProcessRequest, Decision, TypeOK, ConfigOK
  <2>2. ~sent' /\ main' \in {"crashed", "write"} /\ program' = program
    BY DEF ProcessRequest, requestFrame, config, AnswerInv
  <2>3. gResourceUri' \in asked' \cup {Main}
    <3>1. CASE handling'.uri = {}
      BY <3>1 DEF ProcessRequest, AnswerInv
    <3>2. CASE handling'.uri # {}
      <4>1. gResourceUri' \in handling'.uri
        BY <3>2 DEF ProcessRequest
      <4>2. handling'.uri \subseteq {r.resource} \cap Instances
        BY <2>1, Decides DEF Sound
      <4>3. r.resource \in made
        BY <2>1, <3>2, DefaultNamesNothing
      <4>4. asked' = asked \cup ({r.resource} \cap Instances)
        BY <4>3 DEF ProcessRequest
      <4>. QED
        BY <4>1, <4>2, <4>4
    <3>. QED
      BY <3>1, <3>2
  <2>4. /\ pins' = (pins /\ ~handling'.closes)
        /\ readings' = IF handling'.closes THEN readings + 1 ELSE readings
        /\ readings \in Nat
    BY DEF ProcessRequest, TypeOK, HistoryOK
  <2>5. program = "mraa" /\ ~pins' => readings' > 0
    <3>1. ~pins' => ~pins \/ handling'.closes
      BY <2>4
    <3>2. handling'.closes => readings' > 0
      BY <2>4
    <3>3. ~handling'.closes => readings' = readings
      BY <2>4
    <3>4. program = "mraa" /\ ~pins => readings > 0
      BY DEF AnswerInv
    <3>. QED
      BY <3>1, <3>2, <3>3, <3>4
  <2>6. /\ handling'.payload = "undefined" => Undefined'
        /\ handling'.payload = "unset" => Unset(req)'
        /\ handling'.frees => program' = "tizen" /\ req'.resource \in Lights
    <3>1. /\ handling'.payload = "undefined" => program = "mraa" /\ handling'.closes /\ ~pins
          /\ handling'.payload = "unset" => program = "get" /\ r.method \in {"PUT", "DELETE"}
          /\ handling'.frees => program = "tizen" /\ r.resource \in Lights
      BY <2>1, Decides
    <3>2. program = "mraa" /\ handling'.closes /\ ~pins => readings' > 1
      BY <2>4 DEF AnswerInv
    <3>. QED
      BY <2>1, <2>2, <3>1, <3>2 DEF Undefined, Unset
  <2>. QED
    BY <2>2, <2>3, <2>5, <2>6 DEF AnswerInv, UriNamesResource, PayloadDefined
<1>11. Write => AnswerInv'
  <2> SUFFICES ASSUME Write PROVE AnswerInv'
    OBVIOUS
  <2>1. UNCHANGED answering
    BY DEF Write, requestFrame, handler, history, config, answering
  <2>2. /\ main' \in {"write", "resource", "respond"} => main \in {"write", "resource", "respond"}
        /\ sent => main' = "observe"
    BY DEF Write, requestFrame, AnswerInv
  <2>. QED
    BY <2>1, <2>2, AnswersKept
<1>12. CreateInstance => AnswerInv'
  <2> SUFFICES ASSUME CreateInstance PROVE AnswerInv'
    OBVIOUS
  <2>1. UNCHANGED answering
    BY DEF CreateInstance, instanceFrame, requestFrame, config, answering
  <2>2. /\ main' \in {"write", "resource", "respond"} => main \in {"write", "resource", "respond"}
        /\ sent => main' = "observe"
    BY DEF CreateInstance, instanceFrame, requestFrame, AnswerInv
  <2>. QED
    BY <2>1, <2>2, AnswersKept
<1>13. DeleteResource => AnswerInv'
  <2> SUFFICES ASSUME DeleteResource PROVE AnswerInv'
    OBVIOUS
  <2>1. UNCHANGED answering
    BY DEF DeleteResource, instanceFrame, requestFrame, config, answering
  <2>2. /\ main' \in {"write", "resource", "respond"} => main \in {"write", "resource", "respond"}
        /\ sent => main' = "observe"
    BY DEF DeleteResource, instanceFrame, requestFrame, AnswerInv
  <2>. QED
    BY <2>1, <2>2, AnswersKept
<1>14. OCDoResponse => AnswerInv'
  <2> SUFFICES ASSUME OCDoResponse PROVE AnswerInv'
    OBVIOUS
  <2>1. /\ UNCHANGED <<program, gResourceUri, asked, pins, readings, req, handling>>
        /\ main' \in {"observe", "crashed"} /\ ~sent
    BY DEF OCDoResponse, requestFrame, config, resources, AnswerInv
  <2>2. ASSUME sent' = sent PROVE AnswerInv'
    BY <2>1, <2>2 DEF AnswerInv, UriNamesResource, PayloadDefined
  <2>3. ASSUME sent', main' = "observe", response'.set,
               response'.payload = handling.payload, response'.uri = gResourceUri
        PROVE  AnswerInv'
    <3>1. /\ response'.payload = "undefined" => Undefined
          /\ response'.payload = "unset" => Unset(req)
      BY <2>3 DEF OCDoResponse, AnswerInv
    <3>2. PayloadDefined'
      BY <2>1, <3>1 DEF PayloadDefined, Undefined, Unset
    <3>3. handling.payload = "rep" =>
            req.resource \in Lights /\ (req.resource \in Instances => gResourceUri = req.resource)
      BY DEF OCDoResponse, HandlingInv
    <3>4. handling.payload = "rep" => gResourceUri = req.resource \/ req.resource = Main
      BY <3>3, LightsAre, ServerConstants
    <3>5. UriNamesResource'
      BY <2>1, <2>3, <3>4 DEF UriNamesResource, AnswerInv
    <3>. QED
      BY <2>1, <2>3, <3>2, <3>5 DEF AnswerInv
  <2>. QED
    BY <2>2, <2>3 DEF OCDoResponse
<1>15. Observe => AnswerInv'
  <2> SUFFICES ASSUME Observe PROVE AnswerInv'
    OBVIOUS
  <2>1. UNCHANGED <<program, gResourceUri, pins, asked, readings>>
    BY DEF Observe, config, resources, history
  <2>2. ~sent' /\ main' \in {"test", "crashed"}
    BY DEF Observe, handler, AnswerInv
  <2>3. handling'.frees => program = "tizen" /\ req'.resource \in Lights
    BY DEF Observe, handler, AnswerInv, Ignore
  <2>. QED
    BY <2>1, <2>2, <2>3 DEF AnswerInv, UriNamesResource, PayloadDefined
<1>16. Load => AnswerInv'
  <2> SUFFICES ASSUME Load PROVE AnswerInv'
    OBVIOUS
  <2>1. UNCHANGED answering
    BY DEF Load, notifierFrame, handler, history, config, answering
  <2>2. /\ main' \in {"write", "resource", "respond"} => main \in {"write", "resource", "respond"}
        /\ sent => main' = "observe"
    BY DEF Load, notifierFrame, AnswerInv
  <2>. QED
    BY <2>1, <2>2, AnswersKept
<1>17. Store => AnswerInv'
  <2> SUFFICES ASSUME Store PROVE AnswerInv'
    OBVIOUS
  <2>1. UNCHANGED answering
    BY DEF Store, notifierFrame, handler, history, config, answering
  <2>2. /\ main' \in {"write", "resource", "respond"} => main \in {"write", "resource", "respond"}
        /\ sent => main' = "observe"
    BY DEF Store, notifierFrame, AnswerInv
  <2>. QED
    BY <2>1, <2>2, AnswersKept
<1>18. Notify => AnswerInv'
  <2> SUFFICES ASSUME Notify PROVE AnswerInv'
    OBVIOUS
  <2>1. UNCHANGED answering
    BY DEF Notify, notifierFrame, handler, history, config, answering
  <2>2. /\ main' \in {"write", "resource", "respond"} => main \in {"write", "resource", "respond"}
        /\ sent => main' = "observe"
    BY DEF Notify, notifierFrame, AnswerInv
  <2>. QED
    BY <2>1, <2>2, AnswersKept
<1>19. StopPresence => AnswerInv'
  <2> SUFFICES ASSUME StopPresence PROVE AnswerInv'
    OBVIOUS
  <2>1. UNCHANGED answering
    BY DEF StopPresence, notifierFrame, handler, history, config, answering
  <2>2. /\ main' \in {"write", "resource", "respond"} => main \in {"write", "resource", "respond"}
        /\ sent => main' = "observe"
    BY DEF StopPresence, notifierFrame, AnswerInv
  <2>. QED
    BY <2>1, <2>2, AnswersKept
<1>20. Cancelled => AnswerInv'
  <2> SUFFICES ASSUME Cancelled PROVE AnswerInv'
    OBVIOUS
  <2>1. UNCHANGED answering
    BY DEF Cancelled, notifierFrame, handler, history, config, answering
  <2>2. /\ main' \in {"write", "resource", "respond"} => main \in {"write", "resource", "respond"}
        /\ sent => main' = "observe"
    BY DEF Cancelled, notifierFrame, AnswerInv
  <2>. QED
    BY <2>1, <2>2, AnswersKept
<1>21. UNCHANGED vars => AnswerInv'
  <2> SUFFICES ASSUME UNCHANGED vars PROVE AnswerInv'
    OBVIOUS
  <2>1. UNCHANGED answering
    BY DEF vars, resources, handler, history, config, answering
  <2>2. /\ main' \in {"write", "resource", "respond"} => main \in {"write", "resource", "respond"}
        /\ sent => main' = "observe"
    BY DEF vars, AnswerInv
  <2>. QED
    BY <2>1, <2>2, AnswersKept
<1>. QED
  BY <1>1, <1>2, <1>3, <1>4, <1>5, <1>6, <1>7, <1>8, <1>9, <1>10, <1>11, <1>12, <1>13, <1>14,
     <1>15, <1>16, <1>17, <1>18, <1>19, <1>20, <1>21, StepCases

\* A representation has the URI of the resource asked for, except that the light's may have
\* that of an instance somebody asked for before.
THEOREM UrisNameResources == Spec => []UriNamesResource
<1>1. TypeInv /\ AnswerInv => UriNamesResource
  BY DEF AnswerInv
<1>. QED
  BY <1>1, InitTyped, NextTyped, InitEnds, NextEnds, InitAnswers,
     NextAnswers, PTL DEF Spec

\* Nothing undefined is sent, but in the cases PayloadDefined names.
THEOREM PayloadsDefined == Spec => []PayloadDefined
<1>1. TypeInv /\ AnswerInv => PayloadDefined
  BY DEF AnswerInv
<1>. QED
  BY <1>1, InitTyped, NextTyped, InitEnds, NextEnds, InitAnswers,
     NextAnswers, PTL DEF Spec

-----------------------------------------------------------------------------
(* What ends the process.                                                  *)

\* What main cancels without its having run, by program.
LEMMA UnsetWhere ==
  ASSUME TypeOK, UnsetThread
  PROVE  \/ program \in {"light", "tizen"} /\ ~withPresence
         \/ program \in {"tizen", "coll"} /\ notifier = "none"
<1>1. program \in Programs
  BY DEF TypeOK, ConfigOK
<1>2. CASE "presence" \in MainOf(program).joins /\ ~withPresence
  BY <1>1, <1>2, JoinsWhat
<1>3. CASE "notifier" \in MainOf(program).joins /\ notifier = "none" /\ program # "light"
  BY <1>1, <1>3, JoinsWhat
<1>. QED
  BY <1>2, <1>3 DEF UnsetThread

\* A step that ends in a crash is one of four.
LEMMA CrashCases ==
  ASSUME TypeInv, EndInv, SurvivesRequests
  PROVE  [Next]_vars =>
           \/ SurvivesRequests'
           \/ Join \/ OCDoResponse \/ Observe
           \/ \E r \in Requests[program] : ProcessRequest(r)
<1> DEFINE P == \/ SurvivesRequests'
                \/ Join \/ OCDoResponse \/ Observe
                \/ \E r \in Requests[program] : ProcessRequest(r)
<1>0. ASSUME main' # "crashed" PROVE P
  BY <1>0 DEF SurvivesRequests
<1>1. SetUp => P
  BY <1>0 DEF SetUp
<1>2. Enter => P
  BY <1>0 DEF Enter
<1>3. LoopTest => P
  BY <1>0, MainsTyped DEF LoopTest, TypeInv, TypeOK, ConfigOK
<1>4. ProcessNothing => P
  BY <1>0 DEF ProcessNothing
<1>5. ProcessFails => P
  BY <1>0, MainsTyped DEF ProcessFails, TypeInv, TypeOK, ConfigOK
<1>6. Join => P
  OBVIOUS
<1>7. Stop => P
  BY <1>0 DEF Stop
<1>8. GMainLoop => P
  BY <1>0 DEF GMainLoop, Alive
<1>9. handleSigInt => P
  BY <1>0 DEF handleSigInt, Alive
<1>10. \A r \in Requests[program] : ProcessRequest(r) => P
  OBVIOUS
<1>11. Write => P
  BY <1>0 DEF Write
<1>12. CreateInstance => P
  BY <1>0 DEF CreateInstance
<1>13. DeleteResource => P
  BY <1>0 DEF DeleteResource
<1>14. OCDoResponse => P
  OBVIOUS
<1>15. Observe => P
  OBVIOUS
<1>16. Load => P
  BY <1>0 DEF Load, notifierFrame, Alive
<1>17. Store => P
  BY <1>0 DEF Store, notifierFrame, Alive
<1>18. Notify => P
  BY <1>0 DEF Notify, notifierFrame, Alive
<1>19. StopPresence => P
  BY <1>0 DEF StopPresence, notifierFrame, Alive
<1>20. Cancelled => P
  BY <1>0 DEF Cancelled, notifierFrame, Alive
<1>21. UNCHANGED vars => P
  BY DEF vars, config, handler, thread, history, SurvivesRequests
<1> HIDE DEF P
<1>. QED
  BY <1>1, <1>2, <1>3, <1>4, <1>5, <1>6, <1>7, <1>8, <1>9, <1>10, <1>11, <1>12, <1>13, <1>14,
     <1>15, <1>16, <1>17, <1>18, <1>19, <1>20, <1>21, StepCases DEF P

LEMMA NextSurvives ==
  TypeInv /\ EndInv /\ AnswerInv /\ SurvivesRequests /\ [Next]_vars => SurvivesRequests'
<1> SUFFICES ASSUME TypeInv, EndInv, AnswerInv, SurvivesRequests
             PROVE  [Next]_vars => SurvivesRequests'
  OBVIOUS
<1> USE DEF TypeInv
<1>1. Join => SurvivesRequests'
  <2> SUFFICES ASSUME Join, main' = "crashed" PROVE SurvivesRequests'
    BY DEF SurvivesRequests
  <2>1. UnsetThread /\ gQuitFlag /\ UNCHANGED <<program, withPresence, gQuitFlag, notifier>>
    BY DEF Join, EndInv, config
  <2>. QED
    BY <2>1, UnsetWhere DEF SurvivesRequests
<1>2. \A r \in Requests[program] : ProcessRequest(r) => SurvivesRequests'
  <2> SUFFICES ASSUME NEW r \in Requests[program], ProcessRequest(r), main' = "crashed"
               PROVE  SurvivesRequests'
    BY DEF SurvivesRequests
  <2>1. r \in RequestType /\ handling' = Decision(r) /\ req' = r /\ ~sent'
    BY ServersConstants DEF ProcessRequest, Decision, TypeOK, ConfigOK, AnswerInv
  <2>2. handling'.crash \in {"may", "must"} /\ program' = program /\ readings \in Nat
    <3>1. handling' \in Handling
      BY <2>1, Decides DEF Sound
    <3>2. handling'.crash # "no"
      BY DEF ProcessRequest
    <3>. QED
      BY <3>1, <3>2 DEF ProcessRequest, requestFrame, config, Handling, TypeOK, HistoryOK
  <2>3. CASE handling'.crash = "must"
    BY <2>1, <2>2, <2>3, Decides DEF SurvivesRequests
  <2>4. CASE handling'.crash = "may"
    <3>1. program = "mraa" /\ handling'.closes /\ ~pins
      BY <2>1, <2>4, Decides
    <3>2. readings > 0 /\ readings' = readings + 1
      BY <3>1 DEF ProcessRequest, AnswerInv
    <3>. QED
      BY <2>1, <2>2, <3>1, <3>2 DEF SurvivesRequests
  <2>. QED
    BY <2>2, <2>3, <2>4
<1>3. OCDoResponse => SurvivesRequests'
  <2> SUFFICES ASSUME OCDoResponse, main' = "crashed" PROVE SurvivesRequests'
    BY DEF SurvivesRequests
  <2>1. /\ main = "respond" /\ handling.payload = "unset"
        /\ UNCHANGED <<program, req, sent>>
    BY DEF OCDoResponse, requestFrame, config
  <2>2. ~sent /\ Unset(req)
    BY <2>1 DEF AnswerInv
  <2>. QED
    BY <2>1, <2>2 DEF SurvivesRequests, Unset
<1>4. Observe => SurvivesRequests'
  <2> SUFFICES ASSUME Observe, main' = "crashed" PROVE SurvivesRequests'
    BY DEF SurvivesRequests
  <2>1. handling.frees /\ ~response.set /\ UNCHANGED <<program, req, sent>>
    BY DEF Observe, config, handler
  <2>2. ~sent /\ program = "tizen" /\ req.resource \in Lights
    BY <2>1 DEF AnswerInv
  <2>. QED
    BY <2>1, <2>2 DEF SurvivesRequests
<1>. QED
  BY <1>1, <1>2, <1>3, <1>4, CrashCases

\* No request that was answered ends the process; nor does one that was not, but on Tizen, at
\* the temperature and the sensor; nor its own end, where every thread it joins was started.
THEOREM Survival == Spec => []SurvivesRequests
<1>1. Init => SurvivesRequests
  BY DEF Init, SurvivesRequests
<1>. QED
  BY <1>1, InitTyped, NextTyped, InitEnds, NextEnds, InitAnswers, NextAnswers, NextSurvives,
     PTL DEF Spec

-----------------------------------------------------------------------------
(* The instances that POST creates.                                        *)

\* How many were created, not counting the one whose URI is still to be announced.
Announceable == IF main = "respond" /\ handling.create THEN gCurrInstance - 1 ELSE gCurrInstance

\* What was announced is below that, so the next announcement is none of them.
AnnounceInv ==
  /\ Len(announced) <= Announceable
  /\ \A i \in DOMAIN announced : announced[i] \in 1 .. Announceable
  /\ \A i \in DOMAIN announced : announced[i] \in made \cup failed
  /\ IsInjective(announced)
  /\ main = "respond" /\ handling.create => gCurrInstance \in made \cup failed

LEMMA InitAnnounces == Init => AnnounceInv
<1> SUFFICES ASSUME Init PROVE AnnounceInv
  OBVIOUS
<1>1. announced = <<>> /\ gCurrInstance = 0 /\ main = "setup"
  BY DEF Init
<1>. QED
  BY <1>1 DEF AnnounceInv, Announceable, IsInjective

\* The invariant is kept as long as nothing is announced and only the light is deleted.
LEMMA AnnouncedKept ==
  ASSUME AnnounceInv, announced' = announced, Announceable' = Announceable,
         Announceable \in Nat, made \subseteq made' \cup {Main}, failed \subseteq failed',
         main' = "respond" /\ handling'.create => gCurrInstance' \in made' \cup failed'
  PROVE  AnnounceInv'
<1>1. \A i \in DOMAIN announced : announced[i] # Main
  BY DEF AnnounceInv
<1>. QED
  BY <1>1 DEF AnnounceInv, IsInjective

LEMMA NextAnnounces == TypeInv /\ EndInv /\ AnnounceInv /\ [Next]_vars => AnnounceInv'
<1> SUFFICES ASSUME TypeInv, EndInv, AnnounceInv PROVE [Next]_vars => AnnounceInv'
  OBVIOUS
<1> USE DEF TypeInv
<1>1. SetUp => AnnounceInv'
  <2> SUFFICES ASSUME SetUp PROVE AnnounceInv'
    OBVIOUS
  <2>1. UNCHANGED <<gCurrInstance, handling, announced, failed>> /\ made \subseteq made'
    BY DEF SetUp, handler, history
  <2>2. main' = "respond" <=> main = "respond"
    BY DEF SetUp
  <2>. QED
    BY <2>1, <2>2, AnnouncedKept DEF AnnounceInv, Announceable, TypeOK, ResourcesOK
<1>2. Enter => AnnounceInv'
  <2> SUFFICES ASSUME Enter PROVE AnnounceInv'
    OBVIOUS
  <2>1. UNCHANGED <<gCurrInstance, handling, announced, failed>> /\ made \subseteq made'
    BY DEF Enter, serving, resources, handler, history
  <2>2. main' = "respond" <=> main = "respond"
    BY DEF Enter
  <2>. QED
    BY <2>1, <2>2, AnnouncedKept DEF AnnounceInv, Announceable, TypeOK, ResourcesOK
<1>3. LoopTest => AnnounceInv'
  <2> SUFFICES ASSUME LoopTest PROVE AnnounceInv'
    OBVIOUS
  <2>1. UNCHANGED <<gCurrInstance, handling, announced, failed>> /\ made \subseteq made'
    BY DEF LoopTest, serving, resources, handler, history
  <2>2. main' = "respond" <=> main = "respond"
    BY MainsTyped DEF LoopTest, TypeOK, ConfigOK
  <2>. QED
    BY <2>1, <2>2, AnnouncedKept DEF AnnounceInv, Announceable, TypeOK, ResourcesOK
<1>4. ProcessNothing => AnnounceInv'
  <2> SUFFICES ASSUME ProcessNothing PROVE AnnounceInv'
    OBVIOUS
  <2>1. UNCHANGED <<gCurrInstance, handling, announced, failed>> /\ made \subseteq made'
    BY DEF ProcessNothing, serving, resources, handler, history
  <2>2. main' = "respond" <=> main = "respond"
    BY DEF ProcessNothing
  <2>. QED
    BY <2>1, <2>2, AnnouncedKept DEF AnnounceInv, Announceable, TypeOK, ResourcesOK
<1>5. ProcessFails => AnnounceInv'
  <2> SUFFICES ASSUME ProcessFails PROVE AnnounceInv'
    OBVIOUS
  <2>1. UNCHANGED <<gCurrInstance, handling, announced, failed>> /\ made \subseteq made'
    BY DEF ProcessFails, serving, resources, handler, history
  <2>2. main' = "respond" <=> main = "respond"
    BY MainsTyped DEF ProcessFails, TypeOK, ConfigOK
  <2>. QED
    BY <2>1, <2>2, AnnouncedKept DEF AnnounceInv, Announceable, TypeOK, ResourcesOK
<1>6. Join => AnnounceInv'
  <2> SUFFICES ASSUME Join PROVE AnnounceInv'
    OBVIOUS
  <2>1. UNCHANGED <<gCurrInstance, handling, announced, failed>> /\ made \subseteq made'
    BY DEF Join, serving, resources, handler, history
  <2>2. main' = "respond" <=> main = "respond"
    BY DEF Join
  <2>. QED
    BY <2>1, <2>2, AnnouncedKept DEF AnnounceInv, Announceable, TypeOK, ResourcesOK
<1>7. Stop => AnnounceInv'
  <2> SUFFICES ASSUME Stop PROVE AnnounceInv'
    OBVIOUS
  <2>1. UNCHANGED <<gCurrInstance, handling, announced, failed>> /\ made \subseteq made'
    BY DEF Stop, serving, resources, handler, history
  <2>2. main' = "respond" <=> main = "respond"
    BY DEF Stop
  <2>. QED
    BY <2>1, <2>2, AnnouncedKept DEF AnnounceInv, Announceable, TypeOK, ResourcesOK
<1>8. GMainLoop => AnnounceInv'
  <2> SUFFICES ASSUME GMainLoop PROVE AnnounceInv'
    OBVIOUS
  <2>1. UNCHANGED <<gCurrInstance, handling, announced, failed>> /\ made \subseteq made'
    BY DEF GMainLoop, serving, resources, handler, history
  <2>2. main' = "respond" <=> main = "respond"
    BY DEF GMainLoop, EndInv
  <2>. QED
    BY <2>1, <2>2, AnnouncedKept DEF AnnounceInv, Announceable, TypeOK, ResourcesOK
<1>9. handleSigInt => AnnounceInv'
  <2> SUFFICES ASSUME handleSigInt PROVE AnnounceInv'
    OBVIOUS
  <2>1. UNCHANGED <<gCurrInstance, handling, announced, failed>> /\ made \subseteq made'
    BY DEF handleSigInt, serving, resources, handler, history
  <2>2. main' = "respond" <=> main = "respond"
    BY DEF handleSigInt
  <2>. QED
    BY <2>1, <2>2, AnnouncedKept DEF AnnounceInv, Announceable, TypeOK, ResourcesOK
<1>10. \A r \in Requests[program] : ProcessRequest(r) => AnnounceInv'
  <2> SUFFICES ASSUME NEW r \in Requests[program], ProcessRequest(r) PROVE AnnounceInv'
    OBVIOUS
  <2>1. UNCHANGED <<made, failed, announced,
                    gCurrInstance>> /\ main = "process" /\ main' # "respond"
    BY DEF ProcessRequest
  <2>. QED
    BY <2>1, AnnouncedKept DEF Announceable, TypeOK, ResourcesOK
<1>11. Write => AnnounceInv'
  <2> SUFFICES ASSUME Write PROVE AnnounceInv'
    OBVIOUS
  <2>1. UNCHANGED <<made, failed, announced, gCurrInstance, handling>> /\ main = "write"
        /\ (main' = "respond" => ~handling.create)
    BY DEF Write, handler, history
  <2>. QED
    BY <2>1, AnnouncedKept DEF Announceable, TypeOK, ResourcesOK
<1>12. CreateInstance => AnnounceInv'
  <2> SUFFICES ASSUME CreateInstance PROVE AnnounceInv'
    OBVIOUS
  <2>1. /\ main = "resource" /\ main' = "respond" /\ gCurrInstance' = gCurrInstance + 1
        /\ UNCHANGED <<announced, handling>> /\ handling.create
        /\ made \subseteq made' /\ failed \subseteq failed'
        /\ gCurrInstance' \in made' \cup failed'
    BY DEF CreateInstance, instanceFrame, Instance
  <2>2. Announceable' = Announceable /\ Announceable \in Nat
    BY <2>1 DEF Announceable, TypeOK, ResourcesOK
  <2>. QED
    BY <2>1, <2>2, AnnouncedKept
<1>13. DeleteResource => AnnounceInv'
  <2> SUFFICES ASSUME DeleteResource PROVE AnnounceInv'
    OBVIOUS
  <2>1. req.resource = Main /\ ~handling.create
    BY DEF DeleteResource, HandlingInv, Sound
  <2>2. /\ UNCHANGED <<failed, announced, gCurrInstance, handling>> /\ main = "resource"
        /\ made \subseteq made' \cup {Main}
    BY <2>1 DEF DeleteResource, instanceFrame
  <2>. QED
    BY <2>1, <2>2, AnnouncedKept DEF Announceable, TypeOK, ResourcesOK
<1>14. OCDoResponse => AnnounceInv'
  <2> SUFFICES ASSUME OCDoResponse PROVE AnnounceInv'
    OBVIOUS
  <2>1. /\ UNCHANGED <<made, failed, gCurrInstance, handling>>
        /\ main = "respond" /\ main' \in {"observe", "crashed"}
    BY DEF OCDoResponse, resources
  <2>2. gCurrInstance \in Nat /\ announced \in Seq(Lights) /\ (handling.create => gCurrInstance > 0)
    BY DEF OCDoResponse, TypeOK, ResourcesOK, HistoryOK, HandlingInv
  <2>3. CASE ~handling.create
    <3>1. announced' = announced
      BY <2>3 DEF OCDoResponse
    <3>. QED
      BY <2>1, <2>2, <2>3, <3>1, AnnouncedKept DEF Announceable
  <2>4. CASE handling.create
    <3> DEFINE last == gCurrInstance
    <3>1. /\ Announceable = last - 1 /\ Announceable' = last
          /\ last \in made \cup failed
      BY <2>1, <2>4 DEF Announceable, AnnounceInv
    <3>2. announced' = announced \/ announced' = Append(announced, last)
      BY <2>2, <2>4 DEF OCDoResponse, Instance
    <3>3. CASE announced' = announced
      BY <2>1, <2>2, <3>1, <3>3 DEF AnnounceInv, IsInjective
    <3>4. CASE announced' = Append(announced, last)
      <4>1. /\ DOMAIN announced = 1 .. Len(announced) /\ Len(announced) \in Nat
            /\ DOMAIN announced' = 1 .. Len(announced) + 1 /\ Len(announced') = Len(announced) + 1
            /\ \A i \in DOMAIN announced : announced'[i] = announced[i]
            /\ announced'[Len(announced) + 1] = last
        BY <2>2, <3>4
      <4>2. Len(announced') <= Announceable'
        BY <2>2, <3>1, <4>1 DEF AnnounceInv
      <4>3. ASSUME NEW i \in DOMAIN announced'
            PROVE  announced'[i] \in 1 .. last /\ announced'[i] \in made \cup failed
        BY <2>2, <3>1, <4>1 DEF AnnounceInv
      <4>4. ASSUME NEW i \in DOMAIN announced', NEW j \in DOMAIN announced',
                   announced'[i] = announced'[j]
            PROVE  i = j
        BY <2>2, <3>1, <4>1, <4>4 DEF AnnounceInv, IsInjective
      <4>. QED
        BY <2>1, <3>1, <4>2, <4>3, <4>4 DEF AnnounceInv, IsInjective
    <3>. QED
      BY <3>2, <3>3, <3>4
  <2>. QED
    BY <2>3, <2>4
<1>15. Observe => AnnounceInv'
  <2> SUFFICES ASSUME Observe PROVE AnnounceInv'
    OBVIOUS
  <2>1. /\ UNCHANGED <<made, failed, announced, gCurrInstance>>
        /\ main = "observe" /\ main' \in {"test", "crashed"}
    BY DEF Observe, resources, history
  <2>. QED
    BY <2>1, AnnouncedKept DEF Announceable, TypeOK, ResourcesOK
<1>16. Load => AnnounceInv'
  <2> SUFFICES ASSUME Load PROVE AnnounceInv'
    OBVIOUS
  <2>1. UNCHANGED <<gCurrInstance, handling, announced, failed>> /\ made \subseteq made'
    BY DEF Load, notifierFrame, handler, history
  <2>2. main' = "respond" <=> main = "respond"
    BY DEF Load, notifierFrame
  <2>. QED
    BY <2>1, <2>2, AnnouncedKept DEF AnnounceInv, Announceable, TypeOK, ResourcesOK
<1>17. Store => AnnounceInv'
  <2> SUFFICES ASSUME Store PROVE AnnounceInv'
    OBVIOUS
  <2>1. UNCHANGED <<gCurrInstance, handling, announced, failed>> /\ made \subseteq made'
    BY DEF Store, notifierFrame, handler, history
  <2>2. main' = "respond" <=> main = "respond"
    BY DEF Store, notifierFrame
  <2>. QED
    BY <2>1, <2>2, AnnouncedKept DEF AnnounceInv, Announceable, TypeOK, ResourcesOK
<1>18. Notify => AnnounceInv'
  <2> SUFFICES ASSUME Notify PROVE AnnounceInv'
    OBVIOUS
  <2>1. UNCHANGED <<gCurrInstance, handling, announced, failed>> /\ made \subseteq made'
    BY DEF Notify, notifierFrame, handler, history
  <2>2. main' = "respond" <=> main = "respond"
    BY DEF Notify, notifierFrame
  <2>. QED
    BY <2>1, <2>2, AnnouncedKept DEF AnnounceInv, Announceable, TypeOK, ResourcesOK
<1>19. StopPresence => AnnounceInv'
  <2> SUFFICES ASSUME StopPresence PROVE AnnounceInv'
    OBVIOUS
  <2>1. UNCHANGED <<gCurrInstance, handling, announced, failed>> /\ made \subseteq made'
    BY DEF StopPresence, notifierFrame, handler, history
  <2>2. main' = "respond" <=> main = "respond"
    BY DEF StopPresence, notifierFrame
  <2>. QED
    BY <2>1, <2>2, AnnouncedKept DEF AnnounceInv, Announceable, TypeOK, ResourcesOK
<1>20. Cancelled => AnnounceInv'
  <2> SUFFICES ASSUME Cancelled PROVE AnnounceInv'
    OBVIOUS
  <2>1. UNCHANGED <<gCurrInstance, handling, announced, failed>> /\ made \subseteq made'
    BY DEF Cancelled, notifierFrame, handler, history
  <2>2. main' = "respond" <=> main = "respond"
    BY DEF Cancelled, notifierFrame
  <2>. QED
    BY <2>1, <2>2, AnnouncedKept DEF AnnounceInv, Announceable, TypeOK, ResourcesOK
<1>21. UNCHANGED vars => AnnounceInv'
  <2> SUFFICES ASSUME UNCHANGED vars PROVE AnnounceInv'
    OBVIOUS
  <2>1. UNCHANGED <<gCurrInstance, handling, announced, failed>> /\ made \subseteq made'
    BY DEF vars, resources, handler, history
  <2>2. main' = "respond" <=> main = "respond"
    BY DEF vars
  <2>. QED
    BY <2>1, <2>2, AnnouncedKept DEF AnnounceInv, Announceable, TypeOK, ResourcesOK
<1>. QED
  BY <1>1, <1>2, <1>3, <1>4, <1>5, <1>6, <1>7, <1>8, <1>9, <1>10, <1>11, <1>12, <1>13, <1>14,
     <1>15, <1>16, <1>17, <1>18, <1>19, <1>20, <1>21, StepCases

\* No URI is announced twice, and what is announced is a resource, or one whose creation
\* failed.
THEOREM AnnouncedAreInstances == Spec => []InstancesAnnounced
<1>1. TypeInv /\ AnnounceInv => InstancesAnnounced
  BY DEF AnnounceInv, Announceable, InstancesAnnounced, TypeInv, TypeOK, ResourcesOK, HistoryOK
<1>. QED
  BY <1>1, InitTyped, NextTyped, InitEnds, NextEnds, InitAnnounces, NextAnnounces, PTL DEF Spec

-----------------------------------------------------------------------------
(* The presence of the Tizen server.                                       *)

\* Whatever the thread's number of rounds, presence is stopped once: the counter passes zero
\* once.
THEOREM PresenceStopsOnce == Spec => []PresenceStoppedOnce
<1>1. Init => PresenceStoppedOnce
  <2>1. StopPresenceAfter \in Nat
    BY ServersConstants
  <2>. QED
    BY <2>1 DEF Init, PresenceStoppedOnce
<1>2. TypeInv /\ PresenceStoppedOnce /\ [Next]_vars => PresenceStoppedOnce'
  <2> SUFFICES ASSUME TypeInv, PresenceStoppedOnce PROVE [Next]_vars => PresenceStoppedOnce'
    OBVIOUS
  <2>1. SetUp => PresenceStoppedOnce'
    BY DEF SetUp, PresenceStoppedOnce, config
  <2>2. Enter => PresenceStoppedOnce'
    BY DEF Enter, thread, PresenceStoppedOnce, config
  <2>3. LoopTest => PresenceStoppedOnce'
    BY DEF LoopTest, thread, PresenceStoppedOnce, config
  <2>4. ProcessNothing => PresenceStoppedOnce'
    BY DEF ProcessNothing, thread, PresenceStoppedOnce, config
  <2>5. ProcessFails => PresenceStoppedOnce'
    BY DEF ProcessFails, thread, PresenceStoppedOnce, config
  <2>6. Join => PresenceStoppedOnce'
    BY DEF Join, serving, PresenceStoppedOnce, config
  <2>7. Stop => PresenceStoppedOnce'
    BY DEF Stop, thread, PresenceStoppedOnce, config
  <2>8. GMainLoop => PresenceStoppedOnce'
    BY DEF GMainLoop, thread, PresenceStoppedOnce, config
  <2>9. handleSigInt => PresenceStoppedOnce'
    BY DEF handleSigInt, thread, PresenceStoppedOnce, config
  <2>10. \A r \in Requests[program] : ProcessRequest(r) => PresenceStoppedOnce'
    BY DEF ProcessRequest, requestFrame, thread, PresenceStoppedOnce, config
  <2>11. Write => PresenceStoppedOnce'
    BY DEF Write, requestFrame, thread, PresenceStoppedOnce, config
  <2>12. CreateInstance => PresenceStoppedOnce'
    BY DEF CreateInstance, instanceFrame, requestFrame, thread, PresenceStoppedOnce, config
  <2>13. DeleteResource => PresenceStoppedOnce'
    BY DEF DeleteResource, instanceFrame, requestFrame, thread, PresenceStoppedOnce, config
  <2>14. OCDoResponse => PresenceStoppedOnce'
    BY DEF OCDoResponse, requestFrame, thread, PresenceStoppedOnce, config
  <2>15. Observe => PresenceStoppedOnce'
    BY DEF Observe, PresenceStoppedOnce, config
  <2>16. Load => PresenceStoppedOnce'
    BY DEF Load, notifierFrame, PresenceStoppedOnce, config
  <2>17. Store => PresenceStoppedOnce'
    BY DEF Store, notifierFrame, PresenceStoppedOnce, config
  <2>18. Notify => PresenceStoppedOnce'
    BY DEF Notify, notifierFrame, PresenceStoppedOnce, config
  <2>19. StopPresence => PresenceStoppedOnce'
    BY DEF StopPresence, PresenceStoppedOnce, TypeInv, TypeOK, ThreadOK, notifierFrame, config
  <2>20. Cancelled => PresenceStoppedOnce'
    BY DEF Cancelled, notifierFrame, PresenceStoppedOnce, config
  <2>21. UNCHANGED vars => PresenceStoppedOnce'
    BY DEF vars, thread, PresenceStoppedOnce, config
  <2>. QED
    BY <2>1, <2>2, <2>3, <2>4, <2>5, <2>6, <2>7, <2>8, <2>9, <2>10, <2>11, <2>12, <2>13, <2>14,
       <2>15, <2>16, <2>17, <2>18, <2>19, <2>20, <2>21, StepCases
<1>. QED
  BY <1>1, <1>2, InitTyped, NextTyped, PTL DEF Spec

-----------------------------------------------------------------------------
(* The power of the light, which requests and the thread write.            *)

\* What the thread loaded is the power, unless it was written since; what a request writes is
\* what it means.  The second part is about the response to a GET for the light.
PowerInv ==
  /\ wrote => notifier = "loaded" /\ main # "setup"
  /\ notifier = "loaded" => reg = rep[Main].power \/ wrote
  /\ main = "write" => Writes(handling, Means(req).power, Means(req).state)
  /\ PowerAccounted

ShowsLight == /\ handling.payload = "rep" /\ program \in {"light", "tizen"}
              /\ req.method = "GET" /\ req.resource = Main

QueryInv ==
  /\ main \in {"write", "resource", "respond"} /\ ShowsLight =>
       lost \/ \A limit \in req.query : rep[Main].power <= limit + 5 * added
  /\ QueryHonoured

LEMMA InitPower == Init => PowerInv /\ QueryInv
<1> SUFFICES ASSUME Init PROVE PowerInv /\ QueryInv
  OBVIOUS
<1>1. wrote = FALSE /\ notifier = "none" /\ main = "setup" /\ wanted = rep /\ sent = FALSE
  BY DEF Init
<1>. QED
  BY <1>1 DEF PowerInv, PowerAccounted, QueryInv, QueryHonoured

\* What a request means depends on nothing the thread changes.
LEMMA MeansKept ==
  ASSUME UNCHANGED <<program, made, gCurrInstance, req>>
  PROVE  Means(req)' = Means(req)
  BY DEF Means

\* A write changes both values alike.
LEMMA UpdatedAlike ==
  ASSUME NEW v \in LightType, NEW w \in LightType, NEW c, NEW d,
         c.power = d.power, c.state = d.state
  PROVE  /\ v.state = w.state => Updated(v, c).state = Updated(w, d).state
         /\ c.power # {} => Updated(v, c).power = Updated(w, d).power
         /\ c.power = {} => Updated(v, c).power = v.power /\ Updated(w, d).power = w.power
  BY DEF Updated

\* The variables of PowerInv but main and the thread's, of QueryInv but main and sent.
powers == <<program, made, gCurrInstance, req, handling, rep, writes>>

LEMMA PowerKept ==
  ASSUME PowerInv, UNCHANGED powers, main' \in {"write", "setup"} => main' = main,
         UNCHANGED <<notifier, reg>> \/ (notifier # "loaded" /\ notifier' # "loaded")
  PROVE  PowerInv'
<1>1. UNCHANGED <<program, made, gCurrInstance, req, handling, rep, wanted, wrote, lost>>
  BY DEF powers, writes
<1>2. Means(req)' = Means(req)
  BY <1>1, MeansKept
<1>3. main' = "write" => Writes(handling', Means(req)'.power, Means(req)'.state)
  BY <1>1, <1>2 DEF PowerInv
<1>4. PowerAccounted'
  BY <1>1 DEF PowerInv, PowerAccounted
<1>5. /\ (wrote => notifier = "loaded" /\ main # "setup")'
      /\ (notifier = "loaded" => reg = rep[Main].power \/ wrote)'
  BY <1>1 DEF PowerInv
<1>. QED
  BY <1>3, <1>4, <1>5 DEF PowerInv

LEMMA QueryKept ==
  ASSUME QueryInv, UNCHANGED powers, UNCHANGED <<sent, response>>,
         main' \in {"write", "resource", "respond"} => main \in {"write", "resource", "respond"}
  PROVE  QueryInv'
<1>1. UNCHANGED <<program, req, handling, rep, lost, added, sent, response>>
  BY DEF powers, writes
<1>. QED
  BY <1>1 DEF QueryInv, QueryHonoured, ShowsLight

LEMMA NextPower ==
  TypeInv /\ EndInv /\ AnswerInv /\ PowerInv /\ QueryInv /\ [Next]_vars => (PowerInv /\ QueryInv)'
<1> SUFFICES ASSUME TypeInv, EndInv, AnswerInv, PowerInv, QueryInv
             PROVE  [Next]_vars => (PowerInv /\ QueryInv)'
  OBVIOUS
<1> USE DEF TypeInv
<1>1. SetUp => (PowerInv /\ QueryInv)'
  <2> SUFFICES ASSUME SetUp PROVE (PowerInv /\ QueryInv)'
    OBVIOUS
  <2>1. /\ UNCHANGED <<program, req, handling, rep, wanted, wrote, lost, added, reg>>
        /\ UNCHANGED <<sent, response>> /\ notifier' \in {"sleep", notifier}
        /\ main = "setup" /\ main' \in {"setup", "aborted"}
    BY DEF SetUp, handler, config, writes
  <2>2. ~wrote
    BY <2>1 DEF PowerInv
  <2>3. PowerAccounted'
    BY <2>1 DEF PowerInv, PowerAccounted
  <2>4. PowerInv'
    BY <2>1, <2>2, <2>3 DEF PowerInv
  <2>. QED
    BY <2>1, <2>4 DEF QueryInv, QueryHonoured
<1>2. Enter => (PowerInv /\ QueryInv)'
  <2> SUFFICES ASSUME Enter PROVE (PowerInv /\ QueryInv)'
    OBVIOUS
  <2>1. UNCHANGED powers /\ UNCHANGED <<sent, response>>
    BY DEF Enter, serving, resources, handler, config, powers
  <2>2. /\ main' \in {"write", "setup"} => main' = main
        /\ main' \in {"write", "resource", "respond"} => main \in {"write", "resource", "respond"}
    BY DEF Enter
  <2>3. UNCHANGED <<notifier, reg>> \/ (notifier # "loaded" /\ notifier' # "loaded")
    BY DEF Enter, thread
  <2>. QED
    BY <2>1, <2>2, <2>3, PowerKept, QueryKept
<1>3. LoopTest => (PowerInv /\ QueryInv)'
  <2> SUFFICES ASSUME LoopTest PROVE (PowerInv /\ QueryInv)'
    OBVIOUS
  <2>1. UNCHANGED powers /\ UNCHANGED <<sent, response>>
    BY DEF LoopTest, serving, resources, handler, config, powers
  <2>2. /\ main' \in {"write", "setup"} => main' = main
        /\ main' \in {"write", "resource", "respond"} => main \in {"write", "resource", "respond"}
    BY MainsTyped DEF LoopTest, TypeOK, ConfigOK
  <2>3. UNCHANGED <<notifier, reg>> \/ (notifier # "loaded" /\ notifier' # "loaded")
    BY DEF LoopTest, thread
  <2>. QED
    BY <2>1, <2>2, <2>3, PowerKept, QueryKept
<1>4. ProcessNothing => (PowerInv /\ QueryInv)'
  <2> SUFFICES ASSUME ProcessNothing PROVE (PowerInv /\ QueryInv)'
    OBVIOUS
  <2>1. UNCHANGED powers /\ UNCHANGED <<sent, response>>
    BY DEF ProcessNothing, serving, resources, handler, config, powers
  <2>2. /\ main' \in {"write", "setup"} => main' = main
        /\ main' \in {"write", "resource", "respond"} => main \in {"write", "resource", "respond"}
    BY DEF ProcessNothing
  <2>3. UNCHANGED <<notifier, reg>> \/ (notifier # "loaded" /\ notifier' # "loaded")
    BY DEF ProcessNothing, thread
  <2>. QED
    BY <2>1, <2>2, <2>3, PowerKept, QueryKept
<1>5. ProcessFails => (PowerInv /\ QueryInv)'
  <2> SUFFICES ASSUME ProcessFails PROVE (PowerInv /\ QueryInv)'
    OBVIOUS
  <2>1. UNCHANGED powers /\ UNCHANGED <<sent, response>>
    BY DEF ProcessFails, serving, resources, handler, config, powers
  <2>2. /\ main' \in {"write", "setup"} => main' = main
        /\ main' \in {"write", "resource", "respond"} => main \in {"write", "resource", "respond"}
    BY MainsTyped DEF ProcessFails, TypeOK, ConfigOK
  <2>3. UNCHANGED <<notifier, reg>> \/ (notifier # "loaded" /\ notifier' # "loaded")
    BY DEF ProcessFails, thread
  <2>. QED
    BY <2>1, <2>2, <2>3, PowerKept, QueryKept
<1>6. Join => (PowerInv /\ QueryInv)'
  <2> SUFFICES ASSUME Join PROVE (PowerInv /\ QueryInv)'
    OBVIOUS
  <2>1. UNCHANGED powers /\ UNCHANGED <<sent, response>>
    BY DEF Join, serving, resources, handler, config, powers
  <2>2. /\ main' \in {"write", "setup"} => main' = main
        /\ main' \in {"write", "resource", "respond"} => main \in {"write", "resource", "respond"}
    BY DEF Join
  <2>3. UNCHANGED <<notifier, reg>> \/ (notifier # "loaded" /\ notifier' # "loaded")
    BY DEF Join
  <2>. QED
    BY <2>1, <2>2, <2>3, PowerKept, QueryKept
<1>7. Stop => (PowerInv /\ QueryInv)'
  <2> SUFFICES ASSUME Stop PROVE (PowerInv /\ QueryInv)'
    OBVIOUS
  <2>1. UNCHANGED powers /\ UNCHANGED <<sent, response>>
    BY DEF Stop, serving, resources, handler, config, powers
  <2>2. /\ main' \in {"write", "setup"} => main' = main
        /\ main' \in {"write", "resource", "respond"} => main \in {"write", "resource", "respond"}
    BY DEF Stop
  <2>3. UNCHANGED <<notifier, reg>> \/ (notifier # "loaded" /\ notifier' # "loaded")
    BY DEF Stop, thread
  <2>. QED
    BY <2>1, <2>2, <2>3, PowerKept, QueryKept
<1>8. GMainLoop => (PowerInv /\ QueryInv)'
  <2> SUFFICES ASSUME GMainLoop PROVE (PowerInv /\ QueryInv)'
    OBVIOUS
  <2>1. UNCHANGED powers /\ UNCHANGED <<sent, response>>
    BY DEF GMainLoop, serving, resources, handler, config, powers
  <2>2. /\ main' \in {"write", "setup"} => main' = main
        /\ main' \in {"write", "resource", "respond"} => main \in {"write", "resource", "respond"}
    BY DEF GMainLoop, EndInv
  <2>3. UNCHANGED <<notifier, reg>> \/ (notifier # "loaded" /\ notifier' # "loaded")
    BY DEF GMainLoop, thread
  <2>. QED
    BY <2>1, <2>2, <2>3, PowerKept, QueryKept
<1>9. handleSigInt => (PowerInv /\ QueryInv)'
  <2> SUFFICES ASSUME handleSigInt PROVE (PowerInv /\ QueryInv)'
    OBVIOUS
  <2>1. UNCHANGED powers /\ UNCHANGED <<sent, response>>
    BY DEF handleSigInt, serving, resources, handler, config, powers
  <2>2. /\ main' \in {"write", "setup"} => main' = main
        /\ main' \in {"write", "resource", "respond"} => main \in {"write", "resource", "respond"}
    BY DEF handleSigInt
  <2>3. UNCHANGED <<notifier, reg>> \/ (notifier # "loaded" /\ notifier' # "loaded")
    BY DEF handleSigInt, thread
  <2>. QED
    BY <2>1, <2>2, <2>3, PowerKept, QueryKept
<1>10. \A r \in Requests[program] : ProcessRequest(r) => (PowerInv /\ QueryInv)'
  <2> SUFFICES ASSUME NEW r \in Requests[program], ProcessRequest(r) PROVE (PowerInv /\ QueryInv)'
    OBVIOUS
  <2>1. /\ r \in RequestType /\ handling' = Decision(r) /\ req' = r
        /\ UNCHANGED <<program, made, rep, gCurrInstance, notifier, reg, wanted, wrote, lost,
                       added, sent>>
    BY ServersConstants
    DEF ProcessRequest, Decision, TypeOK, ConfigOK, requestFrame, config, thread, writes
  <2>2. Means(req)' = Means(r)
    BY <2>1 DEF Means
  <2>3. PowerAccounted'
    BY <2>1 DEF PowerInv, PowerAccounted
  <2>4. Writes(handling', Means(req)'.power, Means(req)'.state)
    BY <2>1, <2>2, Decides
  <2>5. PowerInv'
    <3>1. main' \in {"crashed", "write"}
      BY DEF ProcessRequest
    <3>. QED
      BY <2>1, <2>3, <2>4, <3>1 DEF PowerInv
  <2>6. ~sent'
    BY <2>1 DEF AnswerInv, ProcessRequest
  <2>7. ASSUME ShowsLight', NEW limit \in req'.query
        PROVE  rep'[Main].power <= limit + 5 * added'
    <3>1. rep[Main].power <= limit
      BY <2>1, <2>7, Decides DEF ShowsLight
    <3>2. limit \in Nat /\ added \in Nat /\ rep[Main].power \in Nat
      BY <2>1, ServerConstants, LightsAre
      DEF TypeOK, WritesOK, RequestType, ResourcesOK, LightType
    <3>. QED
      BY <2>1, <3>1, <3>2
  <2>. QED
    BY <2>5, <2>6, <2>7 DEF QueryInv, QueryHonoured
<1>11. Write => (PowerInv /\ QueryInv)'
  <2> SUFFICES ASSUME Write PROVE (PowerInv /\ QueryInv)'
    OBVIOUS
  <2>1. /\ handling.resource = req.resource
        /\ handling.power = Means(req).power /\ handling.state = Means(req).state
    BY DEF Write, HandlingInv, Sound, PowerInv, Writes
  <2>2. \A r \in Lights : rep[r] \in LightType /\ wanted[r] \in LightType
    BY DEF TypeOK, ResourcesOK, WritesOK
  <2>3. UNCHANGED <<program, notifier, reg, req, handling, sent, response, added>>
        /\ main = "write" /\ main' # "write"
    BY DEF Write, requestFrame, config, thread, handler
  <2>4. \A r \in Lights :
          /\ rep'[r] = IF r = req.resource THEN Updated(rep[r], handling) ELSE rep[r]
          /\ wanted'[r] = IF r = req.resource THEN Updated(wanted[r], Means(req)) ELSE wanted[r]
    BY <2>1 DEF Write
  <2> DEFINE writesLight == handling.resource = Main /\ handling.power # {}
  <2>5. /\ wrote' = (notifier = "loaded" /\ (wrote \/ writesLight))
        /\ lost' = (lost /\ ~writesLight)
    BY DEF Write
  <2>6. Main \in Lights
    BY ServerConstants, LightsAre
  <2>7. ~writesLight => rep'[Main].power = rep[Main].power
    BY <2>1, <2>2, <2>4, <2>6, UpdatedAlike
  <2>8. ASSUME NEW r \in Lights
        PROVE  /\ rep'[r].state = wanted'[r].state
               /\ rep'[r].power # wanted'[r].power => r = Main /\ lost'
    <3>1. /\ rep[r].state = wanted[r].state
          /\ rep[r].power # wanted[r].power => r = Main /\ lost
      BY DEF PowerInv, PowerAccounted
    <3>2. CASE r # req.resource
      <4>1. rep'[r] = rep[r] /\ wanted'[r] = wanted[r]
        BY <2>4, <3>2
      <4>2. r = Main => ~writesLight
        BY <2>1, <3>2
      <4>. QED
        BY <2>5, <3>1, <4>1, <4>2
    <3>3. CASE r = req.resource
      <4>1. rep'[r] = Updated(rep[r], handling) /\ wanted'[r] = Updated(wanted[r], Means(req))
        BY <2>4, <3>3
      <4>2. rep'[r].state = wanted'[r].state
        BY <2>1, <2>2, <3>1, <4>1, UpdatedAlike
      <4>3. CASE handling.power # {}
        BY <2>1, <2>2, <4>1, <4>2, <4>3, UpdatedAlike
      <4>4. CASE handling.power = {}
        <5>1. rep'[r].power = rep[r].power /\ wanted'[r].power = wanted[r].power
          <6>1. Updated(rep[r], handling).power = rep[r].power
            BY <4>4 DEF Updated
          <6>2. Means(req).power = {}
            BY <2>1, <4>4
          <6>3. Updated(wanted[r], Means(req)).power = wanted[r].power
            BY <6>2 DEF Updated
          <6>. QED
            BY <4>1, <6>1, <6>3
        <5>. QED
          BY <2>5, <3>1, <4>2, <4>4, <5>1
      <4>. QED
        BY <4>3, <4>4
    <3>. QED
      BY <3>2, <3>3
  <2>9. /\ (wrote => notifier = "loaded" /\ main # "setup")'
        /\ (notifier = "loaded" => reg = rep[Main].power \/ wrote)'
    <3>1. main' # "setup"
      BY DEF Write
    <3>. QED
      BY <2>3, <2>5, <2>7, <3>1 DEF PowerInv
  <2>10. PowerInv'
    BY <2>3, <2>8, <2>9 DEF PowerInv, PowerAccounted
  <2>11. ShowsLight => ~writesLight
    BY <2>1 DEF ShowsLight, Means
  <2>12. ShowsLight => rep'[Main].power = rep[Main].power /\ (lost => lost')
    BY <2>5, <2>7, <2>11
  <2>13. ~sent
    BY <2>3 DEF AnswerInv
  <2>. QED
    BY <2>3, <2>10, <2>12, <2>13 DEF QueryInv, QueryHonoured, ShowsLight
<1>12. CreateInstance => (PowerInv /\ QueryInv)'
  <2> SUFFICES ASSUME CreateInstance PROVE (PowerInv /\ QueryInv)'
    OBVIOUS
  <2>1. /\ UNCHANGED <<program, req, handling, rep, wanted, wrote, lost, added, notifier, reg>>
        /\ UNCHANGED <<sent, response>> /\ main = "resource" /\ main' \in {"respond", "observe"}
    BY DEF CreateInstance, instanceFrame, requestFrame, config, thread, writes
  <2>2. PowerAccounted'
    BY <2>1 DEF PowerInv, PowerAccounted
  <2>. QED
    BY <2>1, <2>2 DEF PowerInv, QueryInv, QueryHonoured, ShowsLight
<1>13. DeleteResource => (PowerInv /\ QueryInv)'
  <2> SUFFICES ASSUME DeleteResource PROVE (PowerInv /\ QueryInv)'
    OBVIOUS
  <2>1. /\ UNCHANGED <<program, req, handling, rep, wanted, wrote, lost, added, notifier, reg>>
        /\ UNCHANGED <<sent, response>> /\ main = "resource" /\ main' \in {"respond", "observe"}
    BY DEF DeleteResource, instanceFrame, requestFrame, config, thread, writes
  <2>2. PowerAccounted'
    BY <2>1 DEF PowerInv, PowerAccounted
  <2>. QED
    BY <2>1, <2>2 DEF PowerInv, QueryInv, QueryHonoured, ShowsLight
<1>14. OCDoResponse => (PowerInv /\ QueryInv)'
  <2> SUFFICES ASSUME OCDoResponse PROVE (PowerInv /\ QueryInv)'
    OBVIOUS
  <2>1. /\ UNCHANGED <<program, req, handling, rep, wanted, wrote, lost, added, notifier, reg>>
        /\ main = "respond" /\ main' \in {"observe", "crashed"} /\ ~sent
    BY DEF OCDoResponse, requestFrame, config, resources, thread, writes, AnswerInv
  <2>2. PowerAccounted'
    BY <2>1 DEF PowerInv, PowerAccounted
  <2>3. PowerInv'
    BY <2>1, <2>2 DEF PowerInv
  <2>4. QueryHonoured'
    <3>1. CASE sent' = sent
      BY <2>1, <3>1 DEF QueryHonoured
    <3>2. CASE /\ response'.payload = handling.payload
               /\ handling.payload = "rep" => response'.power = rep[handling.resource].power
      <4>1. handling.resource = req.resource
        BY <2>1 DEF HandlingInv, Sound
      <4>. QED
        BY <2>1, <3>2, <4>1 DEF QueryInv, QueryHonoured, ShowsLight
    <3>. QED
      BY <3>1, <3>2 DEF OCDoResponse
  <2>. QED
    BY <2>1, <2>3, <2>4 DEF QueryInv
<1>15. Observe => (PowerInv /\ QueryInv)'
  <2> SUFFICES ASSUME Observe PROVE (PowerInv /\ QueryInv)'
    OBVIOUS
  <2>1. /\ UNCHANGED <<rep, reg, wanted, wrote, lost>> /\ main' \in {"test", "crashed"} /\ ~sent'
        /\ notifier' = notifier \/ (notifier = "none" /\ notifier' = "sleep")
    BY DEF Observe, resources, handler, AnswerInv
  <2>2. PowerAccounted'
    BY <2>1 DEF PowerInv, PowerAccounted
  <2>. QED
    BY <2>1, <2>2 DEF PowerInv, QueryInv, QueryHonoured
<1>16. Load => (PowerInv /\ QueryInv)'
  <2> SUFFICES ASSUME Load PROVE (PowerInv /\ QueryInv)'
    OBVIOUS
  <2>1. /\ UNCHANGED powers /\ UNCHANGED <<main, sent, response>>
        /\ notifier = "sleep" /\ notifier' = "loaded" /\ reg' = rep[Main].power
    BY DEF Load, notifierFrame, handler, config, powers
  <2>2. UNCHANGED <<program, made, gCurrInstance, req, handling, rep, wanted, wrote, lost>>
    BY <2>1 DEF powers, writes
  <2>3. PowerAccounted'
    BY <2>2 DEF PowerInv, PowerAccounted
  <2>4. Means(req)' = Means(req)
    BY <2>2, MeansKept
  <2>5. PowerInv'
    BY <2>1, <2>2, <2>3, <2>4 DEF PowerInv
  <2>. QED
    BY <2>1, <2>5, QueryKept
<1>17. Store => (PowerInv /\ QueryInv)'
  <2> SUFFICES ASSUME Store PROVE (PowerInv /\ QueryInv)'
    OBVIOUS
  <2>1. /\ UNCHANGED <<main, program, made, gCurrInstance, req, handling, sent, response>>
        /\ notifier = "loaded" /\ notifier' = "stored" /\ wrote' = FALSE
        /\ lost' = (lost \/ wrote)
    BY DEF Store, notifierFrame, handler, config
  <2>2. /\ rep \in [Lights -> LightType] /\ wanted \in [Lights -> LightType]
        /\ reg \in Nat /\ added \in Nat /\ Main \in Lights
    BY ServerConstants, LightsAre DEF TypeOK, ResourcesOK, WritesOK, ThreadOK
  <2>3. /\ rep'[Main].power = reg + 5 /\ rep'[Main].state = rep[Main].state
        /\ wanted'[Main].power = wanted[Main].power + 5 /\ wanted'[Main].state = wanted[Main].state
        /\ \A r \in Lights \ {Main} : rep'[r] = rep[r] /\ wanted'[r] = wanted[r]
    BY <2>2 DEF Store, LightType
  <2>4. ~wrote => rep'[Main].power = rep[Main].power + 5
    BY <2>1, <2>3 DEF PowerInv
  <2>5. ASSUME NEW r \in Lights
        PROVE  /\ rep'[r].state = wanted'[r].state
               /\ rep'[r].power # wanted'[r].power => r = Main /\ lost'
    <3>1. /\ rep[r].state = wanted[r].state
          /\ rep[r].power # wanted[r].power => r = Main /\ lost
      BY DEF PowerInv, PowerAccounted
    <3>2. CASE r = Main
      BY <2>1, <2>3, <2>4, <3>1, <3>2
    <3>3. CASE r # Main
      BY <2>3, <3>1, <3>3
    <3>. QED
      BY <3>2, <3>3
  <2>6. Means(req)' = Means(req)
    BY <2>1, MeansKept
  <2>7. PowerInv'
    BY <2>1, <2>5, <2>6 DEF PowerInv, PowerAccounted
  <2>8. added' = IF main \in {"write", "resource", "respond"} THEN added + 1 ELSE added
    BY DEF Store
  <2>9. ASSUME main \in {"write", "resource", "respond"}, ShowsLight, ~lost',
               NEW limit \in req.query
        PROVE  rep'[Main].power <= limit + 5 * added'
    <3>1. rep[Main].power <= limit + 5 * added
      BY <2>1, <2>9 DEF QueryInv
    <3>2. limit \in Nat /\ rep[Main].power \in Nat
      BY <2>2, <2>9 DEF TypeOK, HandlerOK, RequestType, LightType
    <3>3. rep'[Main].power = rep[Main].power + 5 /\ added' = added + 1
      BY <2>1, <2>4, <2>8, <2>9
    <3>. QED
      BY <2>2, <3>1, <3>2, <3>3
  <2>10. QueryHonoured'
    <3>1. sent => added' = added
      BY <2>8 DEF AnswerInv
    <3>. QED
      BY <2>1, <3>1 DEF QueryInv, QueryHonoured
  <2>. QED
    BY <2>1, <2>7, <2>9, <2>10 DEF QueryInv, ShowsLight
<1>18. Notify => (PowerInv /\ QueryInv)'
  <2> SUFFICES ASSUME Notify PROVE (PowerInv /\ QueryInv)'
    OBVIOUS
  <2>1. UNCHANGED powers /\ UNCHANGED <<sent, response>>
    BY DEF Notify, notifierFrame, handler, config, powers
  <2>2. /\ main' \in {"write", "setup"} => main' = main
        /\ main' \in {"write", "resource", "respond"} => main \in {"write", "resource", "respond"}
    BY DEF Notify, notifierFrame
  <2>3. UNCHANGED <<notifier, reg>> \/ (notifier # "loaded" /\ notifier' # "loaded")
    BY DEF Notify, notifierFrame
  <2>. QED
    BY <2>1, <2>2, <2>3, PowerKept, QueryKept
<1>19. StopPresence => (PowerInv /\ QueryInv)'
  <2> SUFFICES ASSUME StopPresence PROVE (PowerInv /\ QueryInv)'
    OBVIOUS
  <2>1. UNCHANGED powers /\ UNCHANGED <<sent, response>>
    BY DEF StopPresence, notifierFrame, handler, config, powers
  <2>2. /\ main' \in {"write", "setup"} => main' = main
        /\ main' \in {"write", "resource", "respond"} => main \in {"write", "resource", "respond"}
    BY DEF StopPresence, notifierFrame
  <2>3. UNCHANGED <<notifier, reg>> \/ (notifier # "loaded" /\ notifier' # "loaded")
    BY DEF StopPresence, notifierFrame
  <2>. QED
    BY <2>1, <2>2, <2>3, PowerKept, QueryKept
<1>20. Cancelled => (PowerInv /\ QueryInv)'
  <2> SUFFICES ASSUME Cancelled PROVE (PowerInv /\ QueryInv)'
    OBVIOUS
  <2>1. UNCHANGED powers /\ UNCHANGED <<sent, response>>
    BY DEF Cancelled, notifierFrame, handler, config, powers
  <2>2. /\ main' \in {"write", "setup"} => main' = main
        /\ main' \in {"write", "resource", "respond"} => main \in {"write", "resource", "respond"}
    BY DEF Cancelled, notifierFrame
  <2>3. UNCHANGED <<notifier, reg>> \/ (notifier # "loaded" /\ notifier' # "loaded")
    BY DEF Cancelled, notifierFrame
  <2>. QED
    BY <2>1, <2>2, <2>3, PowerKept, QueryKept
<1>21. UNCHANGED vars => (PowerInv /\ QueryInv)'
  <2> SUFFICES ASSUME UNCHANGED vars PROVE (PowerInv /\ QueryInv)'
    OBVIOUS
  <2>1. UNCHANGED powers /\ UNCHANGED <<sent, response>>
    BY DEF vars, resources, handler, config, powers
  <2>2. /\ main' \in {"write", "setup"} => main' = main
        /\ main' \in {"write", "resource", "respond"} => main \in {"write", "resource", "respond"}
    BY DEF vars
  <2>3. UNCHANGED <<notifier, reg>> \/ (notifier # "loaded" /\ notifier' # "loaded")
    BY DEF vars, thread
  <2>. QED
    BY <2>1, <2>2, <2>3, PowerKept, QueryKept
<1>. QED
  BY <1>1, <1>2, <1>3, <1>4, <1>5, <1>6, <1>7, <1>8, <1>9, <1>10, <1>11, <1>12, <1>13, <1>14,
     <1>15, <1>16, <1>17, <1>18, <1>19, <1>20, <1>21, StepCases

\* The resources hold what was asked for and added, or the power that a race has lost.
THEOREM PowerIsAccounted == Spec => []PowerAccounted
<1>1. PowerInv => PowerAccounted
  BY DEF PowerInv
<1>. QED
  BY <1>1, InitTyped, NextTyped, InitEnds, NextEnds, InitAnswers, NextAnswers, InitPower,
     NextPower, PTL DEF Spec

\* A GET with a query shows no power the query excludes, but for what the thread added since
\* the query was tested.
THEOREM QueriesAreHonoured == Spec => []QueryHonoured
<1>1. QueryInv => QueryHonoured
  BY DEF QueryInv
<1>. QED
  BY <1>1, InitTyped, NextTyped, InitEnds, NextEnds, InitAnswers, NextAnswers, InitPower,
     NextPower, PTL DEF Spec
-----------------------------------------------------------------------------
(* The way to the end.                                                     *)

\* SIGINT is handled only once main has set the server up.
HandledAfterSetup == gQuitFlag => main # "setup"

LEMMA InitHandled == Init => HandledAfterSetup
  BY DEF Init, HandledAfterSetup

\* After SIGINT a step lowers the rank, or is none.
Advances == gQuitFlag => ShutdownRank' < ShutdownRank

LEMMA RankIsNatural == ShutdownRank \in Nat
  BY DEF ShutdownRank, MainRank, GLibRank, NotifierRank, CancelRank

\* A step of main's own that leads further down, whatever else it leaves alone.
LEMMA MainAdvances ==
  ASSUME UNCHANGED <<glib, notifier, cancelled>>, MainRank' < MainRank
  PROVE  ShutdownRank' < ShutdownRank
  BY DEF ShutdownRank, MainRank, GLibRank, NotifierRank, CancelRank

\* So is a step of the thread's.
LEMMA NotifierAdvances ==
  ASSUME UNCHANGED <<main, glib, cancelled>>, NotifierRank' < NotifierRank
  PROVE  ShutdownRank' < ShutdownRank
  BY DEF ShutdownRank, MainRank, GLibRank, NotifierRank, CancelRank

LEMMA StepAdvances ==
  ASSUME TypeInv, EndInv, HandledAfterSetup
  PROVE  [Next]_vars => HandledAfterSetup' /\ (Advances \/ UNCHANGED vars)
<1> DEFINE P == HandledAfterSetup' /\ (Advances \/ UNCHANGED vars)
<1>t. main \in {"setup", "test", "process", "write", "resource", "respond", "observe",
                "joining", "stopping", "gone", "stopped", "aborted", "crashed"}
  BY DEF TypeInv, TypeOK, MainOK
<1>1. SetUp => P
  BY DEF SetUp, HandledAfterSetup, Advances
<1>2. Enter => P
  BY DEF Enter, HandledAfterSetup, Advances
<1>3. LoopTest => P
  <2> SUFFICES ASSUME LoopTest PROVE P
    OBVIOUS
  <2>1. main = "test" /\ main' # "setup"
    BY MainsTyped DEF LoopTest, TypeInv, TypeOK, ConfigOK
  <2>2. UNCHANGED <<gQuitFlag, notifier, cancelled>>
    BY DEF LoopTest, thread
  <2>3. ASSUME gQuitFlag PROVE ShutdownRank' < ShutdownRank
    <3>1. main' \in {"joining", "stopped", "gone"}
      BY <2>3, MainsTyped DEF LoopTest, TypeInv, TypeOK, ConfigOK
    <3>2. glib' = glib \/ (glib = "running" /\ glib' = "quit")
      BY DEF LoopTest
    <3>. QED
      BY <2>1, <2>2, <3>1, <3>2
      DEF ShutdownRank, MainRank, GLibRank, NotifierRank, CancelRank
  <2>. QED
    BY <2>1, <2>3 DEF HandledAfterSetup, Advances
<1>4. ProcessNothing => P
  <2> SUFFICES ASSUME ProcessNothing PROVE P
    OBVIOUS
  <2>1. main = "process" /\ main' = "test" /\ UNCHANGED <<glib, notifier, cancelled>>
    BY DEF ProcessNothing, thread
  <2>2. MainRank' < MainRank
    BY <2>1 DEF MainRank
  <2>. QED
    BY <2>1, <2>2, MainAdvances DEF HandledAfterSetup, Advances
<1>5. ProcessFails => P
  <2> SUFFICES ASSUME ProcessFails PROVE P
    OBVIOUS
  <2>1. /\ main = "process" /\ main' \in {"aborted", "test", "gone"}
        /\ UNCHANGED <<glib, notifier, cancelled>>
    BY MainsTyped DEF ProcessFails, TypeInv, TypeOK, ConfigOK, thread
  <2>2. MainRank' < MainRank
    BY <2>1 DEF MainRank
  <2>. QED
    BY <2>1, <2>2, MainAdvances DEF HandledAfterSetup, Advances
<1>6. Join => P
  <2> SUFFICES ASSUME Join PROVE P
    OBVIOUS
  <2>1. main = "joining" /\ main' \in {"joining", "stopping", "crashed"}
        /\ UNCHANGED <<gQuitFlag, glib, notifier>>
    BY DEF Join
  <2>2. CASE main' \in {"stopping", "crashed"}
    <3>1. ShutdownRank' < ShutdownRank
      BY <2>1, <2>2 DEF ShutdownRank, MainRank, GLibRank, NotifierRank, CancelRank
    <3>. QED
      BY <2>1, <2>2, <3>1 DEF HandledAfterSetup, Advances
  <2>3. CASE main' = "joining"
    <3>1. cancelled' = TRUE
      BY <2>3, JoinsWhat DEF Join
    <3>2. CASE cancelled
      <4>1. UNCHANGED vars
        BY <2>1, <2>3, <3>1, <3>2 DEF Join, vars, serving, thread, config, TypeInv, TypeOK, ThreadOK
      <4>. QED
        BY <2>1, <2>3, <4>1 DEF HandledAfterSetup
    <3>3. CASE ~cancelled
      <4>1. ShutdownRank' < ShutdownRank
        BY <2>1, <2>3, <3>1, <3>3 DEF ShutdownRank, MainRank, GLibRank, NotifierRank, CancelRank
      <4>. QED
        BY <2>1, <2>3, <4>1 DEF HandledAfterSetup, Advances
    <3>. QED
      BY <3>2, <3>3
  <2>. QED
    BY <2>1, <2>2, <2>3
<1>7. Stop => P
  <2> SUFFICES ASSUME Stop PROVE P
    OBVIOUS
  <2>1. main = "stopping" /\ main' = "stopped" /\ UNCHANGED <<glib, notifier, cancelled>>
    BY DEF Stop, thread
  <2>2. MainRank' < MainRank
    BY <2>1 DEF MainRank
  <2>. QED
    BY <2>1, <2>2, MainAdvances DEF HandledAfterSetup, Advances
<1>8. GMainLoop => P
  <2> SUFFICES ASSUME GMainLoop PROVE P
    OBVIOUS
  <2>1. \/ glib = "starting" /\ glib' = "running" /\ main' = main
        \/ glib = "quit" /\ glib' = "returned" /\ main = "gone" /\ main' = "joining"
    BY DEF GMainLoop, EndInv
  <2>2. UNCHANGED <<gQuitFlag, notifier, cancelled>>
    BY DEF GMainLoop, thread
  <2>3. ShutdownRank' < ShutdownRank
    BY <2>1, <2>2 DEF ShutdownRank, MainRank, GLibRank, NotifierRank, CancelRank
  <2>. QED
    BY <2>1, <2>2, <2>3 DEF HandledAfterSetup, Advances
<1>9. handleSigInt => P
  BY DEF handleSigInt, HandledAfterSetup, Advances
<1>10. \A r \in Requests[program] : ProcessRequest(r) => P
  <2> SUFFICES ASSUME NEW r \in Requests[program], ProcessRequest(r) PROVE P
    OBVIOUS
  <2>1. /\ main = "process" /\ main' \in {"crashed", "write"}
        /\ UNCHANGED <<glib, notifier, cancelled>>
    BY DEF ProcessRequest, requestFrame, thread
  <2>2. MainRank' < MainRank
    BY <2>1 DEF MainRank
  <2>. QED
    BY <2>1, <2>2, MainAdvances DEF HandledAfterSetup, Advances
<1>11. Write => P
  <2> SUFFICES ASSUME Write PROVE P
    OBVIOUS
  <2>1. /\ main = "write" /\ main' \in {"resource", "respond", "observe"}
        /\ UNCHANGED <<glib, notifier, cancelled>>
    BY DEF Write, requestFrame, thread
  <2>2. MainRank' < MainRank
    BY <2>1 DEF MainRank
  <2>. QED
    BY <2>1, <2>2, MainAdvances DEF HandledAfterSetup, Advances
<1>12. CreateInstance => P
  <2> SUFFICES ASSUME CreateInstance PROVE P
    OBVIOUS
  <2>1. main = "resource" /\ main' = "respond" /\ UNCHANGED <<glib, notifier, cancelled>>
    BY DEF CreateInstance, instanceFrame, requestFrame, thread
  <2>2. MainRank' < MainRank
    BY <2>1 DEF MainRank
  <2>. QED
    BY <2>1, <2>2, MainAdvances DEF HandledAfterSetup, Advances
<1>13. DeleteResource => P
  <2> SUFFICES ASSUME DeleteResource PROVE P
    OBVIOUS
  <2>1. /\ main = "resource" /\ main' \in {"respond", "observe"}
        /\ UNCHANGED <<glib, notifier, cancelled>>
    BY DEF DeleteResource, instanceFrame, requestFrame, thread
  <2>2. MainRank' < MainRank
    BY <2>1 DEF MainRank
  <2>. QED
    BY <2>1, <2>2, MainAdvances DEF HandledAfterSetup, Advances
<1>14. OCDoResponse => P
  <2> SUFFICES ASSUME OCDoResponse PROVE P
    OBVIOUS
  <2>1. /\ main = "respond" /\ main' \in {"observe", "crashed"}
        /\ UNCHANGED <<glib, notifier, cancelled>>
    BY DEF OCDoResponse, requestFrame, thread
  <2>2. MainRank' < MainRank
    BY <2>1 DEF MainRank
  <2>. QED
    BY <2>1, <2>2, MainAdvances DEF HandledAfterSetup, Advances
<1>15. Observe => P
  <2> SUFFICES ASSUME Observe PROVE P
    OBVIOUS
  <2>1. /\ main = "observe" /\ main' \in {"test", "crashed"} /\ UNCHANGED <<glib, cancelled>>
        /\ notifier' = notifier \/ (notifier = "none" /\ notifier' = "sleep")
    BY DEF Observe
  <2>2. ShutdownRank' < ShutdownRank
    BY <2>1 DEF ShutdownRank, MainRank, GLibRank, NotifierRank, CancelRank
  <2>. QED
    BY <2>1, <2>2 DEF HandledAfterSetup, Advances
<1>16. Load => P
  <2> SUFFICES ASSUME Load PROVE P
    OBVIOUS
  <2>1. /\ notifier = "sleep" /\ notifier' = "loaded"
        /\ UNCHANGED <<gQuitFlag, main, glib, cancelled>>
    BY DEF Load, notifierFrame
  <2>2. NotifierRank' < NotifierRank
    BY <2>1 DEF NotifierRank
  <2>. QED
    BY <2>1, <2>2, NotifierAdvances DEF HandledAfterSetup, Advances
<1>17. Store => P
  <2> SUFFICES ASSUME Store PROVE P
    OBVIOUS
  <2>1. /\ notifier = "loaded" /\ notifier' = "stored"
        /\ UNCHANGED <<gQuitFlag, main, glib, cancelled>>
    BY DEF Store, notifierFrame
  <2>2. NotifierRank' < NotifierRank
    BY <2>1 DEF NotifierRank
  <2>. QED
    BY <2>1, <2>2, NotifierAdvances DEF HandledAfterSetup, Advances
<1>18. Notify => P
  <2> SUFFICES ASSUME Notify PROVE P
    OBVIOUS
  <2>1. /\ notifier = "stored" /\ notifier' = "notified"
        /\ UNCHANGED <<gQuitFlag, main, glib, cancelled>>
    BY DEF Notify, notifierFrame
  <2>2. NotifierRank' < NotifierRank
    BY <2>1 DEF NotifierRank
  <2>. QED
    BY <2>1, <2>2, NotifierAdvances DEF HandledAfterSetup, Advances
<1>19. StopPresence => P
  <2> SUFFICES ASSUME StopPresence PROVE P
    OBVIOUS
  <2>1. /\ notifier = "notified" /\ gQuitFlag => notifier' = "ended"
        /\ UNCHANGED <<gQuitFlag, main, glib, cancelled>>
    BY DEF StopPresence, notifierFrame
  <2>2. notifier = "notified"
    BY DEF StopPresence
  <2>3. gQuitFlag => NotifierRank' < NotifierRank
    BY <2>1, <2>2 DEF NotifierRank
  <2>. QED
    BY <2>1, <2>3, NotifierAdvances DEF HandledAfterSetup, Advances
<1>20. Cancelled => P
  <2> SUFFICES ASSUME Cancelled PROVE P
    OBVIOUS
  <2>1. /\ notifier = "sleep" /\ notifier' = "ended"
        /\ UNCHANGED <<gQuitFlag, main, glib, cancelled>>
    BY DEF Cancelled, notifierFrame
  <2>2. NotifierRank' < NotifierRank
    BY <2>1 DEF NotifierRank
  <2>. QED
    BY <2>1, <2>2, NotifierAdvances DEF HandledAfterSetup, Advances
<1>21. UNCHANGED vars => P
  BY DEF vars, HandledAfterSetup
<1> HIDE DEF P
<1>22. [Next]_vars => P
  BY <1>1, <1>2, <1>3, <1>4, <1>5, <1>6, <1>7, <1>8, <1>9, <1>10, <1>11, <1>12, <1>13, <1>14,
     <1>15, <1>16, <1>17, <1>18, <1>19, <1>20, <1>21, StepCases
<1>. QED
  BY <1>22 DEF P

\* Every server is done a bounded number of steps after SIGINT: each step lowers a natural
\* number, also where a request is still to be answered or the thread is about to start.
THEOREM ShutdownBounded == Spec => ShutdownAdvances /\ [](ShutdownRank \in Nat)
<1>1. TypeInv /\ EndInv /\ HandledAfterSetup /\ [Next]_vars => HandledAfterSetup'
  BY StepAdvances
<1>2. TypeInv /\ EndInv /\ HandledAfterSetup /\ [Next]_vars =>
        [gQuitFlag => ShutdownRank' < ShutdownRank]_vars
  BY StepAdvances DEF Advances
<1> DEFINE Ranked == ShutdownRank \in Nat
<1>3. Ranked
  BY RankIsNatural
<1>4. []Ranked
  BY <1>3, PTL
<1>. QED
  BY <1>1, <1>2, <1>4, InitTyped, NextTyped, InitEnds, NextEnds, InitHandled, PTL
  DEF Spec, ShutdownAdvances
=============================================================================
