----------------------------- MODULE SlowClient -----------------------------
(***************************************************************************)
(* What the callbacks of SimpleClientServer/occlientslow.cpp decide.       *)
(***************************************************************************)
EXTENDS ClientCallbacks

Tests == {"DISCOVER", "GET", "PUT"}

getReqCB == Delete

InitGetRequest == <<Request("GET", Led)>>
InitPutRequest == <<Request("PUT", Led)>>
InitDiscovery == <<Request("DISCOVER", Discovery)>>

\* The payload is not looked at.
discoveryReqCB(test, unicast, answer) ==
  IF ~answer.response THEN [Keep EXCEPT !.keep = ~unicast]
  ELSE [Keep EXCEPT !.keep = ~unicast, !.saves = TRUE,
                    !.requests = CASE test = "GET" -> InitGetRequest
                                   [] test = "PUT" -> InitPutRequest
                                   [] OTHER -> <<>>]

\* What main asks for before its loop.
main == InitDiscovery
=============================================================================
