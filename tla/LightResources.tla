--------------------------- MODULE LightResources ---------------------------
(***************************************************************************)
(* What the entity handlers of SimpleClientServer/ocserver.cpp decide about *)
(* power, state and URI of the light and of its instances.  Its observers  *)
(* are the subject of LightServer.                                         *)
(***************************************************************************)
EXTENDS ServerCallbacks

\* Mutant: the second instance is not looked for.
constructResponse_FirstOnly(req) ==
  IF req.body = "other" THEN Fail(req)
  ELSE [Respond(req, "rep") EXCEPT
          !.resource = IF req.resource = Instance(0) THEN req.resource ELSE Main,
          !.uri = {req.resource} \cap {Instance(0)},
          !.power = IF req.method = "PUT" THEN req.power ELSE {},
          !.state = IF req.method = "PUT" THEN req.state ELSE {}]

\* A request for an instance lets gResourceUri name it, and nothing sets it back.  Only PUT
\* writes, and only what the representation holds.
constructResponse(req) ==
  IF req.body = "other" THEN Fail(req)
  ELSE [Respond(req, "rep") EXCEPT
          !.uri = {req.resource} \cap Instances,
          !.power = IF req.method = "PUT" THEN req.power ELSE {},
          !.state = IF req.method = "PUT" THEN req.state ELSE {}]

\* Mutant: the wrong way round.
checkIfQueryForPowerPassed_Swapped(query, power) == \A limit \in query : power >= limit

\* The light's power is compared, whatever resource is asked for.
checkIfQueryForPowerPassed(query, power) == \A limit \in query : power <= limit

ProcessGetRequest(req, power) ==
  IF checkIfQueryForPowerPassed(req.query, power) THEN constructResponse(req)
  ELSE Respond(req, "none")

ProcessPutRequest(req) == constructResponse(req)

\* A POST for the light creates an instance as long as there is room; then it updates the
\* light.  It writes before the payload is looked at.
ProcessPostRequest(req, count) ==
  IF req.resource = Main /\ count < MaxInstances
  THEN [Respond(req, "created") EXCEPT !.create = TRUE, !.result = "CREATED"]
  ELSE [constructResponse(req) EXCEPT
          !.power = IF req.resource = Main THEN {11} ELSE {22},
          !.state = {TRUE}]

\* Only the light can be deleted.
ProcessDeleteRequest(req) ==
  IF req.resource = Main THEN [Respond(req, "none") EXCEPT !.delete = TRUE]
  ELSE [Ignore(req) EXCEPT !.result = "FORBIDDEN"]

ProcessNonExistingResourceRequest(req) == [Respond(req, "none") EXCEPT !.result = "NOT_FOUND"]

\* The default device entity handler, called for resources that do not exist.
OCDeviceEntityHandlerCb(req) ==
  IF "request" \in req.flag THEN ProcessNonExistingResourceRequest(req) ELSE Ignore(req)

OCEntityHandlerCb(req, count, power) ==
  IF "request" \notin req.flag THEN Ignore(req)
  ELSE CASE req.method = "GET" -> ProcessGetRequest(req, power)
         [] req.method = "PUT" -> ProcessPutRequest(req)
         [] req.method = "POST" -> ProcessPostRequest(req, count)
         [] req.method = "DELETE" -> ProcessDeleteRequest(req)
         [] OTHER -> Fail(req)
=============================================================================
