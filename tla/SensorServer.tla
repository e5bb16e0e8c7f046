---------------------------- MODULE SensorServer ----------------------------
(***************************************************************************)
(* What the request dispatcher of mraa/temperature.c decides: a server     *)
(* that reads a sensor at an analog pin.                                   *)
(***************************************************************************)
EXTENDS ServerCallbacks

\* The pins are opened once, when the resource is registered, and closed by every reading: a
\* second one reads a context that was freed, and closes it again.
temperature_read(req, open) ==
  [Respond(req, IF open THEN "fixed" ELSE "undefined") EXCEPT
     !.closes = TRUE, !.crash = IF open THEN "no" ELSE "may"]

\* What is wrong with the request is logged; it is answered all the same.
svc_temperature_retrieve_request(req, open) == temperature_read(req, open)

\* The routine for PUT is not set: the call goes to NULL.  Everything else but GET is
\* answered without a payload.
temperature_request_dispatcher(req, open) ==
  IF "request" \notin req.flag THEN Ignore(req)
  ELSE CASE req.method = "GET" -> svc_temperature_retrieve_request(req, open)
         [] req.method = "PUT" -> [Ignore(req) EXCEPT !.crash = "must"]
         [] OTHER -> Respond(req, "none")
=============================================================================
