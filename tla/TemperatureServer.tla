------------------------- MODULE TemperatureServer -------------------------
(***************************************************************************)
(* What the request dispatcher of get/temperature.c decides.               *)
(***************************************************************************)
EXTENDS ServerCallbacks

\* Mutant: the representation is not handed over, as in the other routines.
svc_temperature_retrieve_request_NotStored(req) == Respond(req, "unset")

\* Memory for the representation may run out.
svc_temperature_retrieve_request(req) == Respond(req, "fixed")

\* The other routines leave the dispatcher's payload as it is, a pointer never written (:131);
\* OCDoResponse reads through it.
svc_temperature_update_request(req) == Respond(req, "unset")
svc_temperature_delete_request(req) == Respond(req, "unset")

temperature_request_dispatcher(req) ==
  IF "request" \notin req.flag THEN Ignore(req)
  ELSE CASE req.method = "GET" -> svc_temperature_retrieve_request(req)
         [] req.method = "PUT" -> svc_temperature_update_request(req)
         [] req.method = "DELETE" -> svc_temperature_delete_request(req)
         [] OTHER -> Fail(req)
=============================================================================
