------------------------ MODULE TizenLightResources ------------------------
(***************************************************************************)
(* What the entity handlers of stack/tizen/SimpleClientServer/ocserver.cpp *)
(* decide.                                                                 *)
(***************************************************************************)
EXTENDS ServerCallbacks

\* Mutant: gResourceUri is left alone.
constructResponse_KeepsUri(req) ==
  IF req.body = "other" THEN Fail(req)
  ELSE [Respond(req, "rep") EXCEPT
          !.power = IF req.method = "PUT" THEN req.power ELSE {},
          !.state = IF req.method = "PUT" THEN req.state ELSE {}]

constructResponse(req) ==
  IF req.body = "other" THEN Fail(req)
  ELSE [Respond(req, "rep") EXCEPT
          !.uri = {req.resource} \cap Instances,
          !.power = IF req.method = "PUT" THEN req.power ELSE {},
          !.state = IF req.method = "PUT" THEN req.state ELSE {}]

checkIfQueryForPowerPassed(query, power) == \A limit \in query : power <= limit

ProcessGetRequest(req, power) ==
  IF checkIfQueryForPowerPassed(req.query, power) THEN constructResponse(req)
  ELSE Respond(req, "none")

ProcessPutRequest(req) == constructResponse(req)

ProcessPostRequest(req, count) ==
  IF req.resource = Main /\ count < MaxInstances
  THEN [Respond(req, "created") EXCEPT !.create = TRUE, !.result = "CREATED"]
  ELSE [constructResponse(req) EXCEPT
          !.power = IF req.resource = Main THEN {11} ELSE {22},
          !.state = {TRUE}]

ProcessDeleteRequest(req) ==
  IF req.resource = Main THEN [Respond(req, "none") EXCEPT !.delete = TRUE]
  ELSE [Ignore(req) EXCEPT !.result = "FORBIDDEN"]

ProcessNonExistingResourceRequest(req) == [Respond(req, "none") EXCEPT !.result = "NOT_FOUND"]

OCDeviceEntityHandlerCb(req) ==
  IF "request" \in req.flag THEN ProcessNonExistingResourceRequest(req) ELSE Ignore(req)

\* The handler up to the response, if there is one.
HandleRequest(req, count, power) ==
  IF "request" \notin req.flag THEN Ignore(req)
  ELSE CASE req.method = "GET" -> ProcessGetRequest(req, power)
         [] req.method = "PUT" -> ProcessPutRequest(req)
         [] req.method = "POST" -> ProcessPostRequest(req, count)
         [] req.method = "DELETE" -> ProcessDeleteRequest(req)
         [] OTHER -> Fail(req)

\* Whatever it decided, it destroys response.payload in the end (:641), which nothing but a
\* response has set (:527): a request that is not answered frees a pointer never written.
OCEntityHandlerCb(req, count, power) ==
  [HandleRequest(req, count, power) EXCEPT !.frees = TRUE]
=============================================================================
