-------------------------- MODULE ServersTypeProofs --------------------------
(***************************************************************************)
(* What the handlers of the sample servers decide, and the types of the    *)
(* variables of Servers, for any number of instances and any requests.     *)
(***************************************************************************)
EXTENDS Servers, TLAPS

USE DEF Main, Instance, Instances, Fan, Room, Unknown, Resources

\* The lights by number.
LEMMA LightsAre == Lights = 0 .. MaxInstances
  BY ServerConstants DEF Lights

-----------------------------------------------------------------------------
(* What the handlers decide.                                               *)

\* What is true of every decision h of a handler about a request r, where count instances
\* were created before: it has its type, and concerns the resource asked for.
Sound(h, r, count) ==
  /\ h \in Handling
  /\ h.resource = r.resource
  /\ h.uri \subseteq {r.resource} \cap Instances
  /\ h.create => r.resource = Main /\ count < MaxInstances /\ ~h.delete /\ h.payload # "rep"
  /\ h.delete => r.resource = Main /\ h.payload # "rep"
  /\ h.payload = "rep" /\ r.resource \in Instances => h.uri # {}

\* What it writes.
Writes(h, power, state) == h.power = power /\ h.state = state

\* It does nothing that is undefined.
Defined(h) == h.crash = "no" /\ h.payload \notin {"undefined", "unset"}

LEMMA IgnoreSound ==
  ASSUME NEW r \in RequestType, NEW count
  PROVE  /\ Sound(Ignore(r), r, count) /\ Writes(Ignore(r), {}, {}) /\ Defined(Ignore(r))
         /\ Ignore(r).payload = "none" /\ ~Ignore(r).frees
  BY DEF Sound, Writes, Defined, Ignore, Handling, RequestType, Results

\* The power and the state that the handlers of the light's servers write.
LightPower(r, count) ==
  IF "request" \in r.flag /\ r.method = "PUT" /\ r.body # "other" THEN r.power
  ELSE IF "request" \in r.flag /\ r.method = "POST" /\ r.resource # Main THEN {22}
  ELSE IF "request" \in r.flag /\ r.method = "POST" /\ ~(count < MaxInstances) THEN {11}
  ELSE {}
LightState(r, count) ==
  IF "request" \in r.flag /\ r.method = "PUT" /\ r.body # "other" THEN r.state
  ELSE IF /\ "request" \in r.flag /\ r.method = "POST"
          /\ ~(r.resource = Main /\ count < MaxInstances) THEN {TRUE}
  ELSE {}

LEMMA LightHandler ==
  ASSUME NEW r \in RequestType, NEW count \in Nat, NEW power \in Nat
  PROVE  LET h == Light!OCEntityHandlerCb(r, count, power)
         IN /\ Sound(h, r, count) /\ Defined(h) /\ ~h.frees
            /\ Writes(h, LightPower(r, count), LightState(r, count))
            /\ h.payload = "rep" /\ r.method = "GET" => \A limit \in r.query : power <= limit
<1> DEFINE h == Light!OCEntityHandlerCb(r, count, power)
           c == Light!constructResponse(r)
           Good(x) == Sound(x, r, count) /\ Defined(x) /\ ~x.frees
<1> USE ServerConstants DEF RequestType
<1>1. /\ Good(c)
      /\ c.power = IF r.body # "other" /\ r.method = "PUT" THEN r.power ELSE {}
      /\ c.state = IF r.body # "other" /\ r.method = "PUT" THEN r.state ELSE {}
  BY DEF Sound, Writes, Defined, Light!constructResponse, Light!Respond, Light!Fail, Light!Ignore,
         Light!Instances, Handling, Results
<1>2. CASE "request" \notin r.flag
  <2>1. h = Ignore(r)
    BY <1>2 DEF Light!OCEntityHandlerCb, Light!Ignore, Ignore
  <2>. QED
    BY <2>1, <1>2, IgnoreSound DEF LightPower, LightState, Writes
<1>3. CASE "request" \in r.flag /\ r.method = "GET"
  <2>1. h = Light!ProcessGetRequest(r, power)
    BY <1>3 DEF Light!OCEntityHandlerCb
  <2>2. LightPower(r, count) = {} /\ LightState(r, count) = {}
    BY <1>3 DEF LightPower, LightState
  <2>3. CASE Light!checkIfQueryForPowerPassed(r.query, power)
    BY <1>1, <1>3, <2>1, <2>2, <2>3
    DEF Writes, Light!ProcessGetRequest, Light!checkIfQueryForPowerPassed
  <2>4. CASE ~Light!checkIfQueryForPowerPassed(r.query, power)
    BY <1>3, <2>1, <2>2, <2>4
    DEF Sound, Writes, Defined, Light!ProcessGetRequest, Light!Respond, Light!Ignore, Handling, Results
  <2>. QED
    BY <2>3, <2>4
<1>4. CASE "request" \in r.flag /\ r.method = "PUT"
  <2>1. h = c
    BY <1>4 DEF Light!OCEntityHandlerCb, Light!ProcessPutRequest
  <2>. QED
    BY <1>1, <1>4, <2>1 DEF Writes, LightPower, LightState
<1>5. CASE "request" \in r.flag /\ r.method = "POST"
  <2>1. h = Light!ProcessPostRequest(r, count)
    BY <1>5 DEF Light!OCEntityHandlerCb
  <2>2. CASE r.resource = Main /\ count < MaxInstances
    <3>1. LightPower(r, count) = {} /\ LightState(r, count) = {}
      BY <1>5, <2>2 DEF LightPower, LightState
    <3>2. h = [Light!Respond(r, "created") EXCEPT !.create = TRUE, !.result = "CREATED"]
      BY <2>1, <2>2 DEF Light!ProcessPostRequest, Light!Main
    <3>3. h \in Handling
      BY <3>2 DEF Light!Respond, Light!Ignore, Handling, Results
    <3>4. /\ h.crash = "no" /\ ~h.frees /\ ~h.delete /\ h.payload = "created" /\ h.uri = {}
          /\ h.power = {} /\ h.state = {} /\ h.resource = r.resource
      BY <3>2 DEF Light!Respond, Light!Ignore
    <3>. QED
      BY <1>5, <2>2, <3>1, <3>3, <3>4 DEF Sound, Writes, Defined
  <2>3. CASE ~(r.resource = Main /\ count < MaxInstances)
    <3>1. h = [c EXCEPT !.power = IF r.resource = Main THEN {11} ELSE {22}, !.state = {TRUE}]
      BY <2>1, <2>3 DEF Light!ProcessPostRequest, Light!Main
    <3>2. /\ LightPower(r, count) = IF r.resource = Main THEN {11} ELSE {22}
          /\ LightState(r, count) = {TRUE}
      BY <1>5, <2>3 DEF LightPower, LightState
    <3> DEFINE pw == IF r.resource = Main THEN {11} ELSE {22}
    <3>3. pw \in SUBSET Nat /\ {TRUE} \in SUBSET BOOLEAN
      OBVIOUS
    <3>4. c \in Handling
      BY <1>1 DEF Sound
    <3>5. /\ h \in Handling
          /\ h.crash = c.crash /\ h.resource = c.resource /\ h.uri = c.uri
          /\ h.create = c.create /\ h.delete = c.delete /\ h.payload = c.payload
          /\ h.frees = c.frees
          /\ h.power = pw /\ h.state = {TRUE}
      <4>1. h = [c EXCEPT !.power = pw, !.state = {TRUE}]
        BY <3>1
      <4> HIDE DEF pw, h, c
      <4>. QED
        BY <4>1, <3>3, <3>4 DEF Handling
    <3>6. Writes(h, LightPower(r, count), LightState(r, count))
      BY <3>2, <3>5 DEF Writes
    <3>. QED
      BY <1>1, <1>5, <3>5, <3>6 DEF Sound, Defined
  <2>. QED
    BY <2>2, <2>3
<1>6. CASE "request" \in r.flag /\ r.method \in {"DELETE", "OTHER"}
  <2>1. LightPower(r, count) = {} /\ LightState(r, count) = {}
    BY <1>6 DEF LightPower, LightState
  <2>. QED
    BY <1>6, <2>1
    DEF Sound, Writes, Defined, Light!OCEntityHandlerCb, Light!ProcessDeleteRequest, Light!Respond,
        Light!Fail, Light!Ignore, Light!Main,
        Handling, Results
<1>. QED
  BY <1>2, <1>3, <1>4, <1>5, <1>6 DEF Methods

LEMMA TizenRequest ==
  ASSUME NEW r \in RequestType, NEW count \in Nat, NEW power \in Nat
  PROVE  LET h == Tizen!HandleRequest(r, count, power)
         IN /\ Sound(h, r, count) /\ Defined(h) /\ ~h.frees
            /\ Writes(h, LightPower(r, count), LightState(r, count))
            /\ h.payload = "rep" /\ r.method = "GET" => \A limit \in r.query : power <= limit
<1> DEFINE h == Tizen!HandleRequest(r, count, power)
           c == Tizen!constructResponse(r)
           Good(x) == Sound(x, r, count) /\ Defined(x) /\ ~x.frees
<1> USE ServerConstants DEF RequestType
<1>1. /\ Good(c)
      /\ c.power = IF r.body # "other" /\ r.method = "PUT" THEN r.power ELSE {}
      /\ c.state = IF r.body # "other" /\ r.method = "PUT" THEN r.state ELSE {}
  BY DEF Sound, Writes, Defined, Tizen!constructResponse, Tizen!Respond, Tizen!Fail, Tizen!Ignore,
         Tizen!Instances, Handling, Results
<1>2. CASE "request" \notin r.flag
  <2>1. h = Ignore(r)
    BY <1>2 DEF Tizen!HandleRequest, Tizen!Ignore, Ignore
  <2>. QED
    BY <2>1, <1>2, IgnoreSound DEF LightPower, LightState, Writes
<1>3. CASE "request" \in r.flag /\ r.method = "GET"
  <2>1. h = Tizen!ProcessGetRequest(r, power)
    BY <1>3 DEF Tizen!HandleRequest
  <2>2. LightPower(r, count) = {} /\ LightState(r, count) = {}
    BY <1>3 DEF LightPower, LightState
  <2>3. CASE Tizen!checkIfQueryForPowerPassed(r.query, power)
    BY <1>1, <1>3, <2>1, <2>2, <2>3
    DEF Writes, Tizen!ProcessGetRequest, Tizen!checkIfQueryForPowerPassed
  <2>4. CASE ~Tizen!checkIfQueryForPowerPassed(r.query, power)
    BY <1>3, <2>1, <2>2, <2>4
    DEF Sound, Writes, Defined, Tizen!ProcessGetRequest, Tizen!Respond, Tizen!Ignore, Handling, Results
  <2>. QED
    BY <2>3, <2>4
<1>4. CASE "request" \in r.flag /\ r.method = "PUT"
  <2>1. h = c
    BY <1>4 DEF Tizen!HandleRequest, Tizen!ProcessPutRequest
  <2>. QED
    BY <1>1, <1>4, <2>1 DEF Writes, LightPower, LightState
<1>5. CASE "request" \in r.flag /\ r.method = "POST"
  <2>1. h = Tizen!ProcessPostRequest(r, count)
    BY <1>5 DEF Tizen!HandleRequest
  <2>2. CASE r.resource = Main /\ count < MaxInstances
    <3>1. LightPower(r, count) = {} /\ LightState(r, count) = {}
      BY <1>5, <2>2 DEF LightPower, LightState
    <3>2. h = [Tizen!Respond(r, "created") EXCEPT !.create = TRUE, !.result = "CREATED"]
      BY <2>1, <2>2 DEF Tizen!ProcessPostRequest, Tizen!Main
    <3>3. h \in Handling
      BY <3>2 DEF Tizen!Respond, Tizen!Ignore, Handling, Results
    <3>4. /\ h.crash = "no" /\ ~h.frees /\ ~h.delete /\ h.payload = "created" /\ h.uri = {}
          /\ h.power = {} /\ h.state = {} /\ h.resource = r.resource
      BY <3>2 DEF Tizen!Respond, Tizen!Ignore
    <3>. QED
      BY <1>5, <2>2, <3>1, <3>3, <3>4 DEF Sound, Writes, Defined
  <2>3. CASE ~(r.resource = Main /\ count < MaxInstances)
    <3>1. h = [c EXCEPT !.power = IF r.resource = Main THEN {11} ELSE {22}, !.state = {TRUE}]
      BY <2>1, <2>3 DEF Tizen!ProcessPostRequest, Tizen!Main
    <3>2. /\ LightPower(r, count) = IF r.resource = Main THEN {11} ELSE {22}
          /\ LightState(r, count) = {TRUE}
      BY <1>5, <2>3 DEF LightPower, LightState
    <3> DEFINE pw == IF r.resource = Main THEN {11} ELSE {22}
    <3>3. pw \in SUBSET Nat /\ {TRUE} \in SUBSET BOOLEAN
      OBVIOUS
    <3>4. c \in Handling
      BY <1>1 DEF Sound
    <3>5. /\ h \in Handling
          /\ h.crash = c.crash /\ h.resource = c.resource /\ h.uri = c.uri
          /\ h.create = c.create /\ h.delete = c.delete /\ h.payload = c.payload
          /\ h.frees = c.frees
          /\ h.power = pw /\ h.state = {TRUE}
      <4>1. h = [c EXCEPT !.power = pw, !.state = {TRUE}]
        BY <3>1
      <4> HIDE DEF pw, h, c
      <4>. QED
        BY <4>1, <3>3, <3>4 DEF Handling
    <3>6. Writes(h, LightPower(r, count), LightState(r, count))
      BY <3>2, <3>5 DEF Writes
    <3>. QED
      BY <1>1, <1>5, <3>5, <3>6 DEF Sound, Defined
  <2>. QED
    BY <2>2, <2>3
<1>6. CASE "request" \in r.flag /\ r.method \in {"DELETE", "OTHER"}
  <2>1. LightPower(r, count) = {} /\ LightState(r, count) = {}
    BY <1>6 DEF LightPower, LightState
  <2>. QED
    BY <1>6, <2>1
    DEF Sound, Writes, Defined, Tizen!HandleRequest, Tizen!ProcessDeleteRequest, Tizen!Respond,
        Tizen!Fail, Tizen!Ignore, Tizen!Main,
        Handling, Results
<1>. QED
  BY <1>2, <1>3, <1>4, <1>5, <1>6 DEF Methods

\* The Tizen handler frees what only a response sets, besides.
LEMMA TizenHandler ==
  ASSUME NEW r \in RequestType, NEW count \in Nat, NEW power \in Nat
  PROVE  LET h == Tizen!OCEntityHandlerCb(r, count, power)
         IN /\ Sound(h, r, count) /\ Defined(h)
            /\ Writes(h, LightPower(r, count), LightState(r, count))
            /\ h.payload = "rep" /\ r.method = "GET" => \A limit \in r.query : power <= limit
<1> DEFINE g == Tizen!HandleRequest(r, count, power)
           h == Tizen!OCEntityHandlerCb(r, count, power)
<1>1. /\ Sound(g, r, count) /\ Defined(g)
      /\ Writes(g, LightPower(r, count), LightState(r, count))
      /\ g.payload = "rep" /\ r.method = "GET" => \A limit \in r.query : power <= limit
  BY TizenRequest
<1>2. h = [g EXCEPT !.frees = TRUE]
  BY DEF Tizen!OCEntityHandlerCb
<1>3. g \in Handling
  BY <1>1 DEF Sound
<1> HIDE DEF g, h
<1>4. /\ h \in Handling
      /\ h.crash = g.crash /\ h.resource = g.resource /\ h.uri = g.uri /\ h.create = g.create
      /\ h.delete = g.delete /\ h.payload = g.payload
      /\ h.power = g.power /\ h.state = g.state
  BY <1>2, <1>3 DEF Handling
<1>5. Sound(h, r, count) /\ Defined(h) /\ Writes(h, LightPower(r, count), LightState(r, count))
  BY <1>1, <1>4 DEF Sound, Defined, Writes
<1>. QED
  BY <1>1, <1>4, <1>5 DEF h

\* The LED servers write what a PUT holds, and nothing else.
LEMMA BasicOpsHandler ==
  ASSUME NEW r \in RequestType, NEW count \in Nat
  PROVE  LET h == BasicOps!OCEntityHandlerCb(r, count)
             putting == "request" \in r.flag /\ r.method = "PUT" /\ r.body # "other"
         IN /\ Sound(h, r, count) /\ Defined(h) /\ ~h.frees
            /\ Writes(h, IF putting THEN r.power ELSE {}, IF putting THEN r.state ELSE {})
<1> DEFINE h == BasicOps!OCEntityHandlerCb(r, count)
           c == BasicOps!constructResponse(r)
           Good(x) == Sound(x, r, count) /\ Defined(x) /\ ~x.frees
<1> USE ServerConstants DEF RequestType
<1>1. /\ Good(c)
      /\ c.power = IF r.body # "other" /\ r.method = "PUT" THEN r.power ELSE {}
      /\ c.state = IF r.body # "other" /\ r.method = "PUT" THEN r.state ELSE {}
  BY DEF Sound, Defined, BasicOps!constructResponse, BasicOps!Respond, BasicOps!Fail, BasicOps!Ignore,
         BasicOps!Instances, Handling, Results
<1>2. CASE "request" \in r.flag /\ r.method \in {"GET", "PUT"}
  BY <1>1, <1>2 DEF Writes, BasicOps!OCEntityHandlerCb, BasicOps!ProcessGetRequest,
                    BasicOps!ProcessPutRequest
<1>3. CASE /\ "request" \in r.flag /\ r.method = "POST"
           /\ ~(r.resource = Main /\ count < MaxInstances)
  BY <1>1, <1>3 DEF Writes, BasicOps!OCEntityHandlerCb, BasicOps!ProcessPostRequest, BasicOps!Main
<1>4. CASE "request" \in r.flag /\ r.method = "POST" /\ r.resource = Main /\ count < MaxInstances
  <2>1. h = [BasicOps!Respond(r, "created") EXCEPT !.create = TRUE]
    BY <1>4 DEF BasicOps!OCEntityHandlerCb, BasicOps!ProcessPostRequest, BasicOps!Main
  <2>2. h \in Handling
    BY <2>1 DEF BasicOps!Respond, BasicOps!Ignore, Handling, Results
  <2>3. /\ h.crash = "no" /\ ~h.frees /\ ~h.delete /\ h.payload = "created" /\ h.uri = {}
        /\ h.power = {} /\ h.state = {} /\ h.resource = r.resource
    BY <2>1 DEF BasicOps!Respond, BasicOps!Ignore
  <2>. QED
    BY <1>4, <2>2, <2>3 DEF Sound, Writes, Defined
<1>5. CASE "request" \notin r.flag \/ r.method \in {"DELETE", "OTHER"}
  <2>1. h = BasicOps!Fail(r)
    BY <1>5 DEF BasicOps!OCEntityHandlerCb
  <2>. QED
    BY <1>5, <2>1 DEF Sound, Writes, Defined, BasicOps!Fail, BasicOps!Ignore, Handling, Results
<1>. QED
  BY <1>2, <1>3, <1>4, <1>5 DEF Methods

\* The handlers of the collection, and what is called for resources that do not exist, write
\* nothing.
LEMMA CollHandler ==
  ASSUME NEW r \in RequestType, NEW count,
         NEW h \in {Coll!OCEntityHandlerLightCb(r), Coll!OCEntityHandlerFanCb(r),
                    Coll!OCEntityHandlerRoomCb(r), Coll!OCDeviceEntityHandlerCb(r),
                    Light!OCDeviceEntityHandlerCb(r), Tizen!OCDeviceEntityHandlerCb(r)}
  PROVE  /\ Sound(h, r, count) /\ Defined(h) /\ ~h.frees /\ h.payload \in {"none", "fixed"}
         /\ Writes(h, {}, {})
<1> USE DEF RequestType
<1>1. CASE h = Coll!Answer(r)
  BY <1>1 DEF Sound, Writes, Defined, Handling, Results, Coll!Answer, Coll!IsRequest, Coll!Ignore,
              Coll!Respond, Coll!Fail
<1>2. CASE h = Coll!OCDeviceEntityHandlerCb(r)
  BY <1>2 DEF Sound, Writes, Defined, Handling, Results, Coll!OCDeviceEntityHandlerCb, Coll!Respond,
              Coll!Ignore
<1>3. CASE h = Light!OCDeviceEntityHandlerCb(r)
  BY <1>3 DEF Sound, Writes, Defined, Handling, Results, Light!OCDeviceEntityHandlerCb, Light!Respond,
              Light!Ignore, Light!ProcessNonExistingResourceRequest
<1>4. CASE h = Tizen!OCDeviceEntityHandlerCb(r)
  BY <1>4 DEF Sound, Writes, Defined, Handling, Results, Tizen!OCDeviceEntityHandlerCb, Tizen!Respond,
              Tizen!Ignore, Tizen!ProcessNonExistingResourceRequest
<1>. QED
  BY <1>1, <1>2, <1>3, <1>4
  DEF Coll!OCEntityHandlerLightCb, Coll!OCEntityHandlerFanCb, Coll!OCEntityHandlerRoomCb

LEMMA GetHandler ==
  ASSUME NEW r \in RequestType, NEW count
  PROVE  LET h == Get!temperature_request_dispatcher(r)
         IN /\ Sound(h, r, count) /\ h.crash = "no" /\ Writes(h, {}, {}) /\ ~h.frees
            /\ h.payload \in {"none", "fixed", "unset"}
            /\ h.payload = "unset" => r.method \in {"PUT", "DELETE"}
  BY DEF RequestType, Sound, Writes, Handling, Results, Get!temperature_request_dispatcher,
         Get!svc_temperature_retrieve_request, Get!svc_temperature_update_request,
         Get!svc_temperature_delete_request, Get!Respond, Get!Ignore, Get!Fail

LEMMA MraaHandler ==
  ASSUME NEW r \in RequestType, NEW count, NEW open \in BOOLEAN
  PROVE  LET h == Mraa!temperature_request_dispatcher(r, open)
         IN /\ Sound(h, r, count) /\ Writes(h, {}, {}) /\ ~h.frees
            /\ h.crash = "must" => r.method = "PUT"
            /\ h.crash = "may" => h.closes /\ ~open
            /\ h.payload \in {"none", "fixed", "undefined"}
            /\ h.payload = "undefined" => h.closes /\ ~open
  BY DEF RequestType, Sound, Writes, Handling, Results, Mraa!temperature_request_dispatcher,
         Mraa!svc_temperature_retrieve_request, Mraa!temperature_read, Mraa!Respond,
         Mraa!Ignore

-----------------------------------------------------------------------------
(* The first part of the inductive invariant: types, what is still to be   *)
(* set up, and the request that is handled.                                *)

\* The calls main may make before its loop: the programs that start the thread there join it
\* in the end, and only the collection has other resources than lights.
SetupCalls(p) ==
  {c \in SetupCall : /\ c.starts => p \in {"tizen", "coll"}
                     /\ p # "coll" => c.creates \subseteq {Main}}

SetupInv ==
  /\ setup \in Seq(SetupCalls(program))
  /\ program # "coll" => made \subseteq Lights

HandlingInv ==
  main \in {"write", "resource", "respond"} =>
    /\ Sound(handling, req, IF main = "respond" THEN 0 ELSE gCurrInstance)
    /\ main = "resource" => handling.create \/ handling.delete
    /\ main = "respond" /\ handling.create => gCurrInstance > 0
    /\ handling.payload = "rep" =>
         req.resource \in Lights /\ (req.resource \in Instances => gResourceUri = req.resource)

TypeInv == TypeOK /\ SetupInv /\ HandlingInv

LEMMA LightSetupTyped ==
  ASSUME NEW p \in Programs, NEW b \in BOOLEAN
  PROVE  LightSetup(b) \in Seq(SetupCalls(p))
<1>1. Must \in SetupCalls(p)
  BY DEF Must, SetupCalls, SetupCall
<1>. QED
  BY <1>1 DEF LightSetup

LEMMA CreateTyped ==
  ASSUME NEW p, NEW creates \in SUBSET Resources, p = "coll" \/ creates \subseteq {Main}
  PROVE  /\ [Must EXCEPT !.creates = creates] \in SetupCalls(p)
         /\ [Must EXCEPT !.creates = creates, !.fatal = FALSE] \in SetupCalls(p)
<1>1. Must \in SetupCall /\ ~Must.starts /\ Must.creates = {}
  BY DEF Must, SetupCall
<1>. QED
  BY <1>1 DEF SetupCalls, SetupCall

LEMMA SetupTyped ==
  ASSUME NEW p \in Programs, program = p, withPresence \in BOOLEAN
  PROVE  MainOf(p).setup \in Seq(SetupCalls(p))
<1>1. /\ Must \in SetupCalls(p) /\ MustCreate(Main) \in SetupCalls(p)
      /\ Create(Main) \in SetupCalls(p)
  <2>1. {} \in SUBSET Resources /\ {Main} \in SUBSET Resources
    BY ServerConstants
  <2>2. Must \in SetupCalls(p)
    BY <2>1 DEF Must, SetupCalls, SetupCall
  <2>. QED
    BY <2>1, <2>2, CreateTyped DEF MustCreate, Create
<1>2. CASE p = "light"
  BY <1>1, <1>2, LightSetupTyped DEF MainOf, ocserver
<1>3. CASE p = "tizen"
  <2>1. StartNotifier \in SetupCalls(p)
    BY <1>3 DEF StartNotifier, Must, SetupCalls, SetupCall
  <2>2. <<Create(Main), StartNotifier>> \in Seq(SetupCalls(p))
    BY <1>1, <2>1
  <2>3. LightSetup(withPresence) \in Seq(SetupCalls(p))
    BY LightSetupTyped
  <2>4. MainOf(p).setup = LightSetup(withPresence) \o <<Create(Main), StartNotifier>>
    BY <1>3 DEF MainOf, tizen_ocserver
  <2> HIDE DEF SetupCalls
  <2>. QED
    BY <2>2, <2>3, <2>4
<1>4. CASE p = "coll"
  <2>1. /\ StartNotifier \in SetupCalls(p) /\ Create(Fan) \in SetupCalls(p)
        /\ Create(Room) \in SetupCalls(p)
    <3>1. {Fan} \in SUBSET Resources /\ {Room} \in SUBSET Resources /\ {} \in SUBSET Resources
      BY ServerConstants
    <3>2. StartNotifier \in SetupCalls(p)
      BY <1>4, <3>1 DEF StartNotifier, Must, SetupCalls, SetupCall
    <3>. QED
      BY <1>4, <3>1, <3>2, CreateTyped DEF Create
  <2>. QED
    BY <1>1, <1>4, <2>1 DEF MainOf, ocservercoll
<1>5. CASE p \in {"basicops", "ams", "justworks", "randompin"}
  BY <1>1, <1>5 DEF MainOf, ocserverbasicops, ams_ocserverbasicops, sampleserver_justworks,
                    sampleserver_randompin
<1>6. CASE p \in {"get", "discovery", "mraa"}
  BY <1>1, <1>6 DEF MainOf, get_server, discovery_server, mraa_server
<1>7. CASE p \in {"router", "tizenrouter", "amsservice"}
  BY <1>1, <1>7 DEF MainOf, ocrouting, tizen_ocrouting, ocamsservice
<1>. QED
  BY <1>2, <1>3, <1>4, <1>5, <1>6, <1>7 DEF Programs

\* What is decided about a request.
Decision(r) == IF r.resource \in made THEN Handler(r) ELSE DefaultHandler(r)

LEMMA Decides ==
  ASSUME TypeOK, SetupInv, NEW r \in RequestType
  PROVE  LET h == Decision(r)
         IN /\ Sound(h, r, gCurrInstance)
            /\ Writes(h, Means(r).power, Means(r).state)
            /\ h.crash = "must" => program = "mraa" /\ r.method = "PUT"
            /\ h.crash = "may" => program = "mraa" /\ h.closes /\ ~pins
            /\ h.frees => program = "tizen" /\ r.resource \in Lights
            /\ h.payload = "rep" =>
                 /\ r.resource \in Lights
                 /\ program \in {"light", "tizen"} /\ r.method = "GET" =>
                      \A limit \in r.query : rep[Main].power <= limit
            /\ h.payload = "unset" => program = "get" /\ r.method \in {"PUT", "DELETE"}
            /\ h.payload = "undefined" => program = "mraa" /\ h.closes /\ ~pins
<1> DEFINE h == Decision(r)
           none == [power |-> {}, state |-> {}]
<1>0. gCurrInstance \in Nat /\ pins \in BOOLEAN /\ rep[Main].power \in Nat /\ Main \in Lights
      /\ gCurrInstance <= MaxInstances
  BY ServerConstants, LightsAre DEF TypeOK, ResourcesOK, LightType
<1>1. CASE r.resource \notin made
  <2>1. Means(r) = none
    BY <1>1 DEF Means
  <2>2. h \in {Ignore(r), Coll!OCDeviceEntityHandlerCb(r), Light!OCDeviceEntityHandlerCb(r),
               Tizen!OCDeviceEntityHandlerCb(r)}
    BY <1>1 DEF Decision, DefaultHandler
  <2>. QED
    BY <2>1, <2>2, IgnoreSound, CollHandler DEF Defined
<1>2. CASE r.resource \in made /\ program \in {"light", "tizen"}
  <2>1. r.resource \in Lights
    BY <1>2 DEF SetupInv
  <2>2. \/ h = Light!OCEntityHandlerCb(r, gCurrInstance, rep[Main].power)
        \/ /\ h = Tizen!OCEntityHandlerCb(r, gCurrInstance, rep[Main].power)
           /\ program = "tizen"
    BY <1>2 DEF Decision, Handler
  <2>3. /\ Means(r).power = LightPower(r, gCurrInstance)
        /\ Means(r).state = LightState(r, gCurrInstance)
    BY <1>0, <1>2, <2>1, ServerConstants DEF Means, LightPower, LightState
  <2>. QED
    BY <1>0, <1>2, <2>1, <2>2, <2>3, LightHandler, TizenHandler DEF Defined
<1>3. CASE r.resource \in made /\ program \in {"basicops", "ams", "justworks", "randompin"}
  <2>1. r.resource \in Lights
    BY <1>3 DEF SetupInv
  <2>2. h = BasicOps!OCEntityHandlerCb(r, gCurrInstance)
    BY <1>3 DEF Decision, Handler
  <2>3. LET putting == "request" \in r.flag /\ r.method = "PUT" /\ r.body # "other"
        IN Means(r).power = (IF putting THEN r.power ELSE {})
           /\ Means(r).state = (IF putting THEN r.state ELSE {})
    BY <1>3, <2>1 DEF Means
  <2>. QED
    BY <1>0, <1>3, <2>1, <2>2, <2>3, BasicOpsHandler DEF Defined
<1>4. CASE /\ r.resource \in made
           /\ program \in {"coll", "get", "mraa", "discovery", "router", "tizenrouter",
                           "amsservice"}
  <2>1. Means(r) = none
    BY <1>4 DEF Means
  <2>2. CASE program = "coll"
    <3>1. h \in {Coll!OCEntityHandlerLightCb(r), Coll!OCEntityHandlerFanCb(r),
                 Coll!OCEntityHandlerRoomCb(r), Ignore(r)}
      BY <1>4, <2>2 DEF Decision, Handler
    <3>. QED
      BY <2>1, <3>1, CollHandler, IgnoreSound DEF Defined
  <2>3. CASE program = "get"
    <3>1. h = Get!temperature_request_dispatcher(r)
      BY <1>4, <2>3 DEF Decision, Handler
    <3>. QED
      BY <2>1, <2>3, <3>1, GetHandler
  <2>4. CASE program = "mraa"
    <3>1. h = Mraa!temperature_request_dispatcher(r, pins)
      BY <1>4, <2>4 DEF Decision, Handler
    <3>. QED
      BY <1>0, <2>1, <2>4, <3>1, MraaHandler
  <2>5. CASE program \in {"discovery", "router", "tizenrouter", "amsservice"}
    <3>1. h = Ignore(r)
      BY <1>4, <2>5 DEF Decision, Handler
    <3>. QED
      BY <2>1, <3>1, IgnoreSound DEF Defined
  <2>. QED
    BY <1>4, <2>2, <2>3, <2>4, <2>5
<1>. QED
  BY <1>1, <1>2, <1>3, <1>4 DEF TypeOK, ConfigOK, Programs

\* The actions one by one, as the cases of every invariance proof below.
LEMMA StepCases ==
  ASSUME NEW P,
         SetUp => P, Enter => P, LoopTest => P, ProcessNothing => P, ProcessFails => P,
         Join => P, Stop => P, GMainLoop => P, handleSigInt => P,
         \A r \in Requests[program] : ProcessRequest(r) => P,
         Write => P, CreateInstance => P, DeleteResource => P, OCDoResponse => P, Observe => P,
         Load => P, Store => P, Notify => P, StopPresence => P, Cancelled => P,
         UNCHANGED vars => P
  PROVE  [Next]_vars => P
<1>1. MainThread => P
  BY DEF MainThread
<1>2. Notifier => P
  BY DEF Notifier
<1>. QED
  BY <1>1, <1>2 DEF Next, Terminated

\* A light or an instance after a write.
LEMMA UpdatedTyped ==
  ASSUME NEW value \in LightType, NEW change,
         change.power \in SUBSET Nat, change.state \in SUBSET BOOLEAN
  PROVE  Updated(value, change) \in LightType
<1>1. change.power # {} => (CHOOSE p \in change.power : TRUE) \in Nat
  OBVIOUS
<1>2. change.state # {} => (CHOOSE s \in change.state : TRUE) \in BOOLEAN
  OBVIOUS
<1>. QED
  BY <1>1, <1>2 DEF Updated, LightType

LEMMA MeansTyped ==
  ASSUME NEW r \in RequestType
  PROVE  Means(r).power \in SUBSET Nat /\ Means(r).state \in SUBSET BOOLEAN
<1>1. {11} \in SUBSET Nat /\ {22} \in SUBSET Nat /\ {TRUE} \in SUBSET BOOLEAN
  OBVIOUS
<1>. QED
  BY <1>1 DEF Means, RequestType

\* The main functions differ as ServerMains says.
LEMMA MainsTyped ==
  ASSUME NEW p \in Programs
  PROVE  /\ MainOf(p).onError \in {"return", "continue", "thread"}
         /\ MainOf(p).joins \in SUBSET {"notifier", "presence"}
         /\ MainOf(p).after \in {"stop", "exit", "quit"}
  BY DEF Programs, MainOf, ocserver, tizen_ocserver, ocserverbasicops, ams_ocserverbasicops,
         sampleserver_justworks, sampleserver_randompin, ocservercoll, get_server,
         discovery_server, mraa_server, ocrouting, tizen_ocrouting, ocamsservice


\* A part that a step leaves alone keeps its type.
LEMMA Frames ==
  ASSUME TypeOK
  PROVE  /\ UNCHANGED config => ConfigOK'
         /\ UNCHANGED <<setup, gQuitFlag, main, glib>> => MainOK'
         /\ UNCHANGED resources => ResourcesOK'
         /\ UNCHANGED observation => ObservationOK'
         /\ UNCHANGED handler => HandlerOK'
         /\ UNCHANGED thread => ThreadOK'
         /\ UNCHANGED writes => WritesOK'
         /\ UNCHANGED history => HistoryOK'
<1>1. UNCHANGED config => ConfigOK'
  BY DEF TypeOK, ConfigOK, config
<1>2. UNCHANGED <<setup, gQuitFlag, main, glib>> => MainOK'
  BY DEF TypeOK, MainOK
<1>3. UNCHANGED resources => ResourcesOK'
  BY DEF TypeOK, ResourcesOK, resources
<1>4. UNCHANGED observation => ObservationOK'
  BY DEF TypeOK, ObservationOK, observation
<1>5. UNCHANGED handler => HandlerOK'
  BY DEF TypeOK, HandlerOK, handler
<1>6. UNCHANGED thread => ThreadOK'
  BY DEF TypeOK, ThreadOK, thread
<1>7. UNCHANGED writes => WritesOK'
  BY DEF TypeOK, WritesOK, writes
<1>8. UNCHANGED history => HistoryOK'
  BY DEF TypeOK, HistoryOK, history
<1>. QED
  BY <1>1, <1>2, <1>3, <1>4, <1>5, <1>6, <1>7, <1>8

LEMMA InitTyped == Init => TypeInv
<1> SUFFICES ASSUME Init PROVE TypeInv
  OBVIOUS
<1> USE ServerConstants, LightsAre
<1>0. MaxRequests \in Nat /\ MaxTicks \in Nat /\ StopPresenceAfter \in Nat
  BY ServersConstants
<1>1. ConfigOK
  <2>1. program \in Programs /\ withPresence \in BOOLEAN /\ gObserveNotifyType \in {0, 1}
    <3>1. PICK c \in (IF program \in {"light", "tizen"} THEN Configurations ELSE {<<FALSE, 0>>}) :
            withPresence = c[1] /\ gObserveNotifyType = c[2]
      BY DEF Init
    <3>2. c \in Configurations \/ c = <<FALSE, 0>>
      BY <3>1
    <3>3. c[1] \in BOOLEAN /\ c[2] \in {0, 1}
      <4>1. CASE c = <<FALSE, 0>>
        BY <4>1
      <4>2. CASE c \in Configurations
        <5>1. c \in BOOLEAN \X {0, 1}
          BY <4>2, ServersConstants
        <5>. QED
          BY <5>1
      <4>. QED
        BY <3>2, <4>1, <4>2
    <3>. QED
      BY <3>1, <3>3 DEF Init
  <2>. QED
    BY <2>1 DEF ConfigOK
<1>2. setup \in Seq(SetupCalls(program))
  BY <1>1, SetupTyped DEF Init, ConfigOK
<1>3. MainOK
  <2>1. setup \in Seq(SetupCall)
    BY <1>2 DEF SetupCalls
  <2>. QED
    BY <2>1 DEF Init, MainOK
<1>4. /\ rep \in [Lights -> LightType] /\ wanted \in [Lights -> LightType]
  <2>1. [power |-> 0, state |-> FALSE] \in LightType
    BY DEF LightType
  <2>2. rep = [r \in Lights |-> [power |-> 0, state |-> FALSE]] /\ wanted = rep
    BY DEF Init
  <2>. QED
    BY <2>1, <2>2
<1>5. ResourcesOK /\ ObservationOK /\ WritesOK /\ HistoryOK
  <2>1. /\ made = {} /\ gResourceUri = Main /\ gCurrInstance = 0 /\ pins = TRUE
        /\ gLightUnderObservation = FALSE /\ slots = 0 /\ observers = 0
        /\ wrote = FALSE /\ lost = FALSE /\ added = 0 /\ requests = 0
        /\ asked = {} /\ readings = 0 /\ announced = <<>> /\ failed = {}
    BY DEF Init
  <2>2. ResourcesOK
    BY <1>4, <2>1 DEF ResourcesOK
  <2>3. ObservationOK /\ WritesOK
    BY <1>4, <2>1 DEF ObservationOK, WritesOK
  <2>4. HistoryOK
    BY <1>0, <2>1 DEF HistoryOK
  <2>. QED
    BY <2>2, <2>3, <2>4
<1>6. HandlerOK
  <2>1. NoRequest \in RequestType
    BY DEF NoRequest, RequestType, Methods
  <2>2. Ignore(NoRequest) \in Handling
    BY <2>1, IgnoreSound DEF Sound
  <2>3. NoResponse \in ResponseType
    BY DEF NoResponse, ResponseType
  <2>. QED
    BY <2>1, <2>2, <2>3 DEF Init, HandlerOK, ResponseType
<1>7. ThreadOK
  <2>1. /\ notifier = "none" /\ reg = 0 /\ cancelled = FALSE
        /\ stopPresenceCount = StopPresenceAfter
        /\ ticks = 0 /\ presenceStops = 0
    BY DEF Init
  <2>2. 0 \in 0 .. MaxTicks /\ StopPresenceAfter \in Int
    BY <1>0
  <2>. QED
    BY <2>1, <2>2 DEF ThreadOK
<1>. QED
  BY <1>1, <1>2, <1>3, <1>5, <1>6, <1>7 DEF Init, TypeInv, TypeOK, SetupInv, HandlingInv

LEMMA NextTyped == TypeInv /\ [Next]_vars => TypeInv'
<1> SUFFICES ASSUME TypeInv PROVE [Next]_vars => TypeInv'
  OBVIOUS
<1> USE ServerConstants, ServersConstants, LightsAre, Frames DEF TypeInv
<1>1. SetUp => TypeInv'
  <2> SUFFICES ASSUME SetUp PROVE TypeInv'
    OBVIOUS
  <2>1. Head(setup) \in SetupCalls(program) /\ setup' \in Seq(SetupCalls(program))
    BY DEF SetUp, SetupInv
  <2>2. /\ setup' \in Seq(SetupCall) /\ Head(setup).creates \subseteq Resources
        /\ program # "coll" => Head(setup).creates \subseteq {Main}
    <3>1. setup' \in Seq(SetupCall)
      BY <2>1 DEF SetupCalls
    <3>2. /\ Head(setup).creates \subseteq Resources
          /\ program # "coll" => Head(setup).creates \subseteq {Main}
      BY <2>1 DEF SetupCalls, SetupCall
    <3>. QED
      BY <3>1, <3>2
  <2>3. made' = made \cup Head(setup).creates \/ made' = made
    BY DEF SetUp
  <2>4. made' \subseteq Resources /\ (program # "coll" => made' \subseteq Lights)
    <3>1. made \subseteq Resources /\ (program # "coll" => made \subseteq Lights)
      BY DEF SetupInv, TypeOK, ResourcesOK
    <3>2. {Main} \subseteq Lights
      OBVIOUS
    <3>. QED
      BY <2>2, <2>3, <3>1, <3>2
  <2>5. notifier' \in {"sleep", notifier} /\ main' \in {"setup", "aborted"}
    BY DEF SetUp
  <2>6. MainOK'
    BY <2>2, <2>5 DEF SetUp, TypeOK, MainOK
  <2>7. ResourcesOK'
    BY <2>4 DEF SetUp, TypeOK, ResourcesOK
  <2>8. ThreadOK'
    BY <2>5 DEF SetUp, TypeOK, ThreadOK
  <2>9. UNCHANGED <<config, observation, handler, writes, history>>
    BY DEF SetUp
  <2>. QED
    BY <2>1, <2>4, <2>5, <2>6, <2>7, <2>8, <2>9 DEF TypeOK, SetupInv, HandlingInv, config
<1>2. Enter => TypeInv'
  <2> SUFFICES ASSUME Enter PROVE TypeInv'
    OBVIOUS
  <2>1. MainOK'
    BY DEF Enter, TypeOK, ConfigOK, MainOK
  <2>2. UNCHANGED <<config, setup, thread, serving>>
    BY DEF Enter
  <2>3. main' \notin {"write", "resource", "respond"} \/ UNCHANGED main
    BY DEF Enter, TypeOK, ConfigOK
  <2>. QED
    BY <2>1, <2>2, <2>3 DEF TypeOK, SetupInv, HandlingInv, serving, resources, handler, config
<1>3. LoopTest => TypeInv'
  <2> SUFFICES ASSUME LoopTest PROVE TypeInv'
    OBVIOUS
  <2>1. MainOK'
    BY MainsTyped DEF LoopTest, TypeOK, ConfigOK, MainOK
  <2>2. UNCHANGED <<config, setup, thread, serving>>
    BY DEF LoopTest
  <2>3. main' \notin {"write", "resource", "respond"} \/ UNCHANGED main
    BY MainsTyped DEF LoopTest, TypeOK, ConfigOK
  <2>. QED
    BY <2>1, <2>2, <2>3 DEF TypeOK, SetupInv, HandlingInv, serving, resources, handler, config
<1>4. ProcessNothing => TypeInv'
  <2> SUFFICES ASSUME ProcessNothing PROVE TypeInv'
    OBVIOUS
  <2>1. MainOK'
    BY DEF ProcessNothing, TypeOK, ConfigOK, MainOK
  <2>2. UNCHANGED <<config, setup, thread, serving>>
    BY DEF ProcessNothing
  <2>3. main' \notin {"write", "resource", "respond"} \/ UNCHANGED main
    BY DEF ProcessNothing, TypeOK, ConfigOK
  <2>. QED
    BY <2>1, <2>2, <2>3 DEF TypeOK, SetupInv, HandlingInv, serving, resources, handler, config
<1>5. ProcessFails => TypeInv'
  <2> SUFFICES ASSUME ProcessFails PROVE TypeInv'
    OBVIOUS
  <2>1. MainOK'
    BY MainsTyped DEF ProcessFails, TypeOK, ConfigOK, MainOK
  <2>2. UNCHANGED <<config, setup, thread, serving>>
    BY DEF ProcessFails
  <2>3. main' \notin {"write", "resource", "respond"} \/ UNCHANGED main
    BY MainsTyped DEF ProcessFails, TypeOK, ConfigOK
  <2>. QED
    BY <2>1, <2>2, <2>3 DEF TypeOK, SetupInv, HandlingInv, serving, resources, handler, config
<1>6. Join => TypeInv'
  <2> SUFFICES ASSUME Join PROVE TypeInv'
    OBVIOUS
  <2>1. main' \in {"joining", "stopping", "crashed"}
    BY DEF Join
  <2>2. MainOK'
    BY <2>1 DEF Join, TypeOK, MainOK
  <2>3. cancelled' \in BOOLEAN
    BY DEF Join
  <2>4. ThreadOK'
    BY <2>3 DEF Join, TypeOK, ThreadOK
  <2>5. UNCHANGED <<config, setup, serving>>
    BY DEF Join
  <2>. QED
    BY <2>1, <2>2, <2>4, <2>5 DEF TypeOK, SetupInv, HandlingInv, serving, resources, config
<1>7. Stop => TypeInv'
  <2> SUFFICES ASSUME Stop PROVE TypeInv'
    OBVIOUS
  <2>1. MainOK'
    BY DEF Stop, TypeOK, ConfigOK, MainOK
  <2>2. UNCHANGED <<config, setup, thread, serving>>
    BY DEF Stop
  <2>3. main' \notin {"write", "resource", "respond"} \/ UNCHANGED main
    BY DEF Stop, TypeOK, ConfigOK
  <2>. QED
    BY <2>1, <2>2, <2>3 DEF TypeOK, SetupInv, HandlingInv, serving, resources, handler, config
<1>8. GMainLoop => TypeInv'
  <2> SUFFICES ASSUME GMainLoop PROVE TypeInv'
    OBVIOUS
  <2>1. MainOK'
    BY DEF GMainLoop, TypeOK, ConfigOK, MainOK
  <2>2. UNCHANGED <<config, setup, thread, serving>>
    BY DEF GMainLoop
  <2>3. main' \notin {"write", "resource", "respond"} \/ UNCHANGED main
    BY DEF GMainLoop, TypeOK, ConfigOK
  <2>. QED
    BY <2>1, <2>2, <2>3 DEF TypeOK, SetupInv, HandlingInv, serving, resources, handler, config
<1>9. handleSigInt => TypeInv'
  <2> SUFFICES ASSUME handleSigInt PROVE TypeInv'
    OBVIOUS
  <2>1. MainOK'
    BY DEF handleSigInt, TypeOK, ConfigOK, MainOK
  <2>2. UNCHANGED <<config, setup, thread, serving>>
    BY DEF handleSigInt
  <2>3. main' \notin {"write", "resource", "respond"} \/ UNCHANGED main
    BY DEF handleSigInt, TypeOK, ConfigOK
  <2>. QED
    BY <2>1, <2>2, <2>3 DEF TypeOK, SetupInv, HandlingInv, serving, resources, handler, config
<1>10. \A r \in Requests[program] : ProcessRequest(r) => TypeInv'
  <2> SUFFICES ASSUME NEW r \in Requests[program], ProcessRequest(r) PROVE TypeInv'
    OBVIOUS
  <2>1. r \in RequestType
    BY DEF TypeOK, ConfigOK
  <2>2. handling' = Decision(r)
    BY DEF ProcessRequest, Decision
  <2>3. /\ Sound(handling', r, gCurrInstance)
        /\ handling'.payload = "rep" => r.resource \in Lights
    BY <2>1, <2>2, Decides
  <2>4. HandlerOK'
    BY <2>1, <2>3 DEF ProcessRequest, Sound, TypeOK, HandlerOK
  <2>5. /\ gResourceUri' \in Lights
        /\ handling'.payload = "rep" /\ r.resource \in Instances => gResourceUri' = r.resource
    <3>1. /\ handling'.uri \subseteq {r.resource} \cap Instances
          /\ handling'.payload = "rep" /\ r.resource \in Instances => handling'.uri # {}
      BY <2>3 DEF Sound
    <3>2. CASE handling'.uri = {}
      BY <3>1, <3>2 DEF ProcessRequest, TypeOK, ResourcesOK
    <3>3. CASE handling'.uri # {}
      <4>1. gResourceUri' \in handling'.uri
        BY <3>3 DEF ProcessRequest
      <4>. QED
        BY <3>1, <4>1
    <3>. QED
      BY <3>2, <3>3
  <2>6. ResourcesOK'
    BY <2>5 DEF ProcessRequest, TypeOK, ResourcesOK
  <2>7. ObservationOK' /\ HistoryOK'
    <3>1. observers' \in Nat
      BY DEF ProcessRequest, TypeOK, ObservationOK
    <3>2. asked' \subseteq Instances /\ readings' \in Nat /\ requests' \in 0 .. MaxRequests
      BY DEF ProcessRequest, TypeOK, HistoryOK
    <3>. QED
      BY <3>1, <3>2 DEF ProcessRequest, TypeOK, ObservationOK, HistoryOK
  <2>8. MainOK'
    BY DEF ProcessRequest, TypeOK, MainOK, requestFrame
  <2>9. SetupInv'
    BY DEF ProcessRequest, SetupInv, requestFrame, config
  <2>10. HandlingInv'
    <3>1. req' = r /\ gCurrInstance' = gCurrInstance /\ main' \in {"crashed", "write"}
      BY DEF ProcessRequest
    <3>. QED
      BY <2>3, <2>5, <3>1 DEF HandlingInv
  <2>11. UNCHANGED <<config, thread, writes>>
    BY DEF ProcessRequest, requestFrame
  <2>. QED
    BY <2>4, <2>6, <2>7, <2>8, <2>9, <2>10, <2>11 DEF TypeOK
<1>11. Write => TypeInv'
  <2> SUFFICES ASSUME Write PROVE TypeInv'
    OBVIOUS
  <2>1. /\ handling.power \in SUBSET Nat /\ handling.state \in SUBSET BOOLEAN
        /\ req \in RequestType
    BY DEF TypeOK, HandlerOK, Handling
  <2>2. rep' \in [Lights -> LightType] /\ wanted' \in [Lights -> LightType]
    BY <2>1, UpdatedTyped, MeansTyped DEF Write, TypeOK, ResourcesOK, WritesOK
  <2>3. ResourcesOK' /\ WritesOK'
    BY <2>2 DEF Write, TypeOK, ResourcesOK, WritesOK
  <2>4. main' \in {"resource", "respond", "observe"}
        /\ (main' = "resource" => handling.create \/ handling.delete)
        /\ (main' = "respond" => ~handling.create)
    BY DEF Write
  <2>5. MainOK'
    BY <2>4 DEF Write, TypeOK, MainOK, requestFrame
  <2>6. HandlingInv'
    BY <2>4 DEF Write, HandlingInv, Sound, handler
  <2>7. UNCHANGED <<config, setup, made, observation, handler, thread, history>>
    BY DEF Write, requestFrame
  <2>. QED
    BY <2>3, <2>5, <2>6, <2>7 DEF TypeOK, SetupInv, config
<1>12. CreateInstance => TypeInv'
  <2> SUFFICES ASSUME CreateInstance PROVE TypeInv'
    OBVIOUS
  <2>1. gCurrInstance < MaxInstances /\ gCurrInstance \in Nat
    BY DEF CreateInstance, HandlingInv, Sound, TypeOK, ResourcesOK
  <2>2. Instance(gCurrInstance) \in Lights /\ Lights \subseteq Resources
    BY <2>1
  <2>3. ResourcesOK'
    BY <2>1, <2>2 DEF CreateInstance, TypeOK, ResourcesOK, instanceFrame
  <2>4. HistoryOK'
    BY <2>2 DEF CreateInstance, TypeOK, HistoryOK, instanceFrame
  <2>5. MainOK'
    BY DEF CreateInstance, TypeOK, MainOK, instanceFrame, requestFrame
  <2>6. SetupInv'
    BY <2>2 DEF CreateInstance, SetupInv, instanceFrame, requestFrame, config
  <2>7. HandlingInv'
    BY <2>1 DEF CreateInstance, HandlingInv, Sound, instanceFrame
  <2>8. UNCHANGED <<config, observation, handler, thread, writes>>
    BY DEF CreateInstance, instanceFrame, requestFrame, observation, handler
  <2>. QED
    BY <2>3, <2>4, <2>5, <2>6, <2>7, <2>8 DEF TypeOK
<1>13. DeleteResource => TypeInv'
  <2> SUFFICES ASSUME DeleteResource PROVE TypeInv'
    OBVIOUS
  <2>1. made' \subseteq made /\ observers' \in Nat
    BY DEF DeleteResource, TypeOK, ObservationOK
  <2>2. ResourcesOK' /\ ObservationOK'
    BY <2>1 DEF DeleteResource, TypeOK, ResourcesOK, ObservationOK, instanceFrame
  <2>3. MainOK'
    BY DEF DeleteResource, TypeOK, MainOK, instanceFrame, requestFrame
  <2>4. SetupInv'
    BY <2>1 DEF DeleteResource, SetupInv, instanceFrame, requestFrame, config
  <2>5. HandlingInv'
    BY DEF DeleteResource, HandlingInv, Sound, instanceFrame
  <2>6. UNCHANGED <<config, handler, thread, writes, history>>
    BY DEF DeleteResource, instanceFrame, requestFrame, handler, history
  <2>. QED
    BY <2>2, <2>3, <2>4, <2>5, <2>6 DEF TypeOK
<1>14. OCDoResponse => TypeInv'
  <2> SUFFICES ASSUME OCDoResponse PROVE TypeInv'
    OBVIOUS
  <2>1. /\ handling.payload \in {"none", "rep", "created", "fixed", "undefined", "unset"}
        /\ handling.payload = "rep" => handling.resource \in Lights
        /\ handling.create => gCurrInstance > 0
    BY DEF OCDoResponse, TypeOK, HandlerOK, Handling, HandlingInv, Sound
  <2>2. handling.payload = "rep" => rep[handling.resource].power \in Nat
    BY <2>1 DEF TypeOK, ResourcesOK, LightType
  <2>3. response' \in ResponseType
    <3> DEFINE power == IF handling.payload = "rep" THEN rep[handling.resource].power ELSE 0
    <3>1. power \in Nat /\ gResourceUri \in Lights /\ response \in ResponseType
      BY <2>2 DEF TypeOK, ResourcesOK, HandlerOK
    <3>2. \/ response' = [set |-> TRUE, payload |-> handling.payload, uri |-> gResourceUri,
                         power |-> power]
          \/ response' = [response EXCEPT !.set = TRUE]
          \/ response' = response
      BY DEF OCDoResponse
    <3> HIDE DEF power
    <3>3. [response EXCEPT !.set = TRUE] \in ResponseType
      BY <3>1 DEF ResponseType
    <3>4. [set |-> TRUE, payload |-> handling.payload, uri |-> gResourceUri, power |-> power]
            \in ResponseType
      BY <2>1, <3>1 DEF ResponseType
    <3>. QED
      BY <3>1, <3>2, <3>3, <3>4
  <2>4. handling.create => Instance(gCurrInstance - 1) \in Lights
    BY <2>1 DEF TypeOK, ResourcesOK
  <2>5. announced' \in Seq(Lights)
    <3>1. announced \in Seq(Lights)
      BY DEF TypeOK, HistoryOK
    <3>2. \/ handling.create /\ announced' = Append(announced, Instance(gCurrInstance - 1))
          \/ announced' = announced
      BY DEF OCDoResponse
    <3>. QED
      BY <2>4, <3>1, <3>2
  <2>6. HandlerOK' /\ HistoryOK'
    BY <2>3, <2>5 DEF OCDoResponse, TypeOK, HandlerOK, HistoryOK, ResponseType
  <2>7. MainOK'
    BY DEF OCDoResponse, TypeOK, MainOK, requestFrame
  <2>8. /\ UNCHANGED <<config, setup, made, resources, observation, thread, writes>>
        /\ main' \in {"observe", "crashed"}
    BY DEF OCDoResponse, requestFrame, resources
  <2>. QED
    BY <2>6, <2>7, <2>8 DEF TypeOK, SetupInv, HandlingInv, config
<1>15. Observe => TypeInv'
  <2> SUFFICES ASSUME Observe PROVE TypeInv'
    OBVIOUS
  <2>1. NoRequest \in RequestType /\ NoResponse \in ResponseType
    BY DEF NoRequest, NoResponse, RequestType, Methods, ResponseType
  <2>2. Ignore(NoRequest) \in Handling
    BY <2>1, IgnoreSound DEF Sound
  <2>3. HandlerOK'
    BY <2>1, <2>2 DEF Observe, TypeOK, HandlerOK, ResponseType, handler
  <2>4. slots' \in Nat /\ gLightUnderObservation' \in BOOLEAN
    <3>1. slots' \in {slots + 1, slots} \/ (slots > 0 /\ slots' = slots - 1)
      BY DEF Observe
    <3>2. slots' \in Nat
      BY <3>1 DEF TypeOK, ObservationOK
    <3>3. gLightUnderObservation' \in {TRUE, FALSE, gLightUnderObservation}
      BY DEF Observe
    <3>4. gLightUnderObservation' \in BOOLEAN
      BY <3>3 DEF TypeOK, ObservationOK
    <3>. QED
      BY <3>2, <3>4
  <2>5. ObservationOK'
    BY <2>4 DEF Observe, TypeOK, ObservationOK
  <2>6. notifier' \in {"sleep", notifier}
    BY DEF Observe
  <2>7. ThreadOK'
    BY <2>6 DEF Observe, TypeOK, ThreadOK
  <2>8. WritesOK' /\ MainOK'
    BY DEF Observe, TypeOK, WritesOK, MainOK
  <2>9. UNCHANGED <<config, setup, made, resources, history>> /\ main' \in {"test", "crashed"}
    BY DEF Observe, resources
  <2>. QED
    BY <2>3, <2>5, <2>7, <2>8, <2>9 DEF TypeOK, SetupInv, HandlingInv, config
<1>16. Load => TypeInv'
  <2> SUFFICES ASSUME Load PROVE TypeInv'
    OBVIOUS
  <2>1. reg' \in Nat /\ ticks' \in 0 .. MaxTicks
    BY DEF Load, TypeOK, ResourcesOK, LightType, ThreadOK
  <2>2. ThreadOK'
    BY <2>1 DEF Load, TypeOK, ThreadOK
  <2>3. UNCHANGED resources
    BY DEF Load, notifierFrame, resources
  <2>8. UNCHANGED <<config, setup, gQuitFlag, main, glib, gResourceUri, gCurrInstance, made,
                    observation, writes, handler, history>>
    BY DEF Load, notifierFrame, handler, observation, writes
  <2>9. SetupInv' /\ HandlingInv'
    BY <2>8 DEF SetupInv, HandlingInv, config, handler
  <2>. QED
    BY <2>2, <2>3, <2>8, <2>9 DEF TypeOK
<1>17. Store => TypeInv'
  <2> SUFFICES ASSUME Store PROVE TypeInv'
    OBVIOUS
  <2>1. rep' \in [Lights -> LightType] /\ wanted' \in [Lights -> LightType]
    <3>1. /\ rep \in [Lights -> LightType] /\ Main \in Lights
          /\ wanted \in [Lights -> LightType] /\ reg + 5 \in Nat
      BY DEF TypeOK, ResourcesOK, WritesOK, ThreadOK
    <3>2. /\ [rep[Main] EXCEPT !.power = reg + 5] \in LightType
          /\ [wanted[Main] EXCEPT !.power = @ + 5] \in LightType
      BY <3>1 DEF LightType
    <3>. QED
      BY <3>1, <3>2 DEF Store
  <2>2. ResourcesOK'
    BY <2>1 DEF Store, TypeOK, ResourcesOK, notifierFrame
  <2>3. lost' \in BOOLEAN /\ added' \in Nat
    BY DEF Store, TypeOK, WritesOK
  <2>4. WritesOK'
    BY <2>1, <2>3 DEF Store, WritesOK
  <2>5. ThreadOK'
    BY DEF Store, TypeOK, ThreadOK
  <2>8. UNCHANGED <<config, setup, gQuitFlag, main, glib, gResourceUri, gCurrInstance, made,
                    observation, handler, history>>
    BY DEF Store, notifierFrame, handler, observation
  <2>9. SetupInv' /\ HandlingInv'
    BY <2>8 DEF SetupInv, HandlingInv, config, handler
  <2>. QED
    BY <2>2, <2>4, <2>5, <2>8, <2>9 DEF TypeOK
<1>18. Notify => TypeInv'
  <2> SUFFICES ASSUME Notify PROVE TypeInv'
    OBVIOUS
  <2>1. gLightUnderObservation' \in BOOLEAN
    BY DEF Notify, TypeOK, ObservationOK
  <2>2. ThreadOK' /\ ObservationOK'
    BY <2>1 DEF Notify, TypeOK, ThreadOK, ObservationOK, notifierFrame
  <2>3. UNCHANGED resources
    BY DEF Notify, notifierFrame, resources
  <2>8. UNCHANGED <<config, setup, gQuitFlag, main, glib, gResourceUri, gCurrInstance, made,
                    writes, handler, history>>
    BY DEF Notify, notifierFrame, handler, writes
  <2>9. SetupInv' /\ HandlingInv'
    BY <2>8 DEF SetupInv, HandlingInv, config, handler
  <2>. QED
    BY <2>2, <2>3, <2>8, <2>9 DEF TypeOK
<1>19. StopPresence => TypeInv'
  <2> SUFFICES ASSUME StopPresence PROVE TypeInv'
    OBVIOUS
  <2>1. stopPresenceCount' \in Int /\ presenceStops' \in Nat /\ notifier' \in {"ended", "sleep"}
    BY DEF StopPresence, TypeOK, ThreadOK
  <2>2. ThreadOK'
    BY <2>1 DEF StopPresence, TypeOK, ThreadOK
  <2>3. UNCHANGED resources
    BY DEF StopPresence, notifierFrame, resources
  <2>8. UNCHANGED <<config, setup, gQuitFlag, main, glib, gResourceUri, gCurrInstance, made,
                    observation, writes, handler, history>>
    BY DEF StopPresence, notifierFrame, handler, observation, writes
  <2>9. SetupInv' /\ HandlingInv'
    BY <2>8 DEF SetupInv, HandlingInv, config, handler
  <2>. QED
    BY <2>2, <2>3, <2>8, <2>9 DEF TypeOK
<1>20. Cancelled => TypeInv'
  <2> SUFFICES ASSUME Cancelled PROVE TypeInv'
    OBVIOUS
  <2>2. ThreadOK'
    BY DEF Cancelled, TypeOK, ThreadOK
  <2>3. UNCHANGED resources
    BY DEF Cancelled, notifierFrame, resources
  <2>8. UNCHANGED <<config, setup, gQuitFlag, main, glib, gResourceUri, gCurrInstance, made,
                    observation, writes, handler, history>>
    BY DEF Cancelled, notifierFrame, handler, observation, writes
  <2>9. SetupInv' /\ HandlingInv'
    BY <2>8 DEF SetupInv, HandlingInv, config, handler
  <2>. QED
    BY <2>2, <2>3, <2>8, <2>9 DEF TypeOK
<1>21. UNCHANGED vars => TypeInv'
  <2> SUFFICES ASSUME UNCHANGED vars PROVE TypeInv'
    OBVIOUS
  <2>1. /\ UNCHANGED <<config, setup, gQuitFlag, main, glib, resources, observation, handler,
                       thread, writes, history>>
        /\ UNCHANGED <<made, gResourceUri, gCurrInstance, req, handling, program>>
    BY DEF vars, resources, handler, config
  <2>. QED
    BY <2>1 DEF TypeOK, SetupInv, HandlingInv
<1>. QED
  BY <1>1, <1>2, <1>3, <1>4, <1>5, <1>6, <1>7, <1>8, <1>9, <1>10, <1>11, <1>12, <1>13, <1>14,
     <1>15, <1>16, <1>17, <1>18, <1>19, <1>20, <1>21, StepCases

\* Every variable keeps its type, in every program.
THEOREM TypeCorrect == Spec => []TypeOK
<1>1. TypeInv => TypeOK
  BY DEF TypeInv
<1>. QED
  BY <1>1, InitTyped, NextTyped, PTL DEF Spec
=============================================================================
