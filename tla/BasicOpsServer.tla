--------------------------- MODULE BasicOpsServer ---------------------------
(***************************************************************************)
(* What the entity handler of SimpleClientServer/ocserverbasicops.cpp      *)
(* decides.  The servers ams/ocserverbasicops.cpp and                      *)
(* provisioning/sampleserver_{justworks,randompin}.cpp have the same one.  *)
(***************************************************************************)
EXTENDS ServerCallbacks

constructResponse(req) ==
  IF req.body = "other" THEN Fail(req)
  ELSE [Respond(req, "rep") EXCEPT
          !.uri = {req.resource} \cap Instances,
          !.power = IF req.method = "PUT" THEN req.power ELSE {},
          !.state = IF req.method = "PUT" THEN req.state ELSE {}]

ProcessGetRequest(req) == constructResponse(req)
ProcessPutRequest(req) == constructResponse(req)

\* Mutant: an instance too many.
ProcessPostRequest_OneMore(req, count) ==
  IF req.resource = Main /\ count <= MaxInstances
  THEN [Respond(req, "created") EXCEPT !.create = TRUE]
  ELSE constructResponse(req)

\* A POST never writes.  RESOURCE_CREATED is replaced by OK before it is sent.
ProcessPostRequest(req, count) ==
  IF req.resource = Main /\ count < MaxInstances
  THEN [Respond(req, "created") EXCEPT !.create = TRUE]
  ELSE constructResponse(req)

OCEntityHandlerCb(req, count) ==
  IF "request" \notin req.flag THEN Fail(req)
  ELSE CASE req.method = "GET" -> ProcessGetRequest(req)
         [] req.method = "PUT" -> ProcessPutRequest(req)
         [] req.method = "POST" -> ProcessPostRequest(req, count)
         [] OTHER -> Fail(req)
=============================================================================
