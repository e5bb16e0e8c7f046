-------------------------- MODULE CollectionClient --------------------------
(***************************************************************************)
(* What the callbacks of SimpleClientServer/occlientcoll.cpp decide.  Its  *)
(* tests differ in the interface they name in the query, which is only     *)
(* text to the client.                                                     *)
(***************************************************************************)
EXTENDS ClientCallbacks

Tests == {"GET", "PUT", "UNKNOWN_RESOURCE_GET"}

InitGetRequestToUnavailableResource == <<Request("GET", Unknown)>>
InitPutRequest == <<Request("PUT", Room)>>
InitGetRequest == <<Request("GET", Room)>>
InitDiscovery == <<Request("DISCOVER", Discovery)>>

putReqCB(r) == IF r = "null" THEN Delete ELSE Keep

\* Every response, not only the first, is followed by a PUT.  All but those numbered 0 count
\* as notifications, and the third notification (the count begins with 1) cancels an
\* observation, though no test observes anything.
getReqCB(test, r, n) ==
  LET requests == IF test = "PUT" THEN InitPutRequest ELSE <<>>
  IN IF r = "null" THEN Crash
     ELSE IF r = "register" THEN [Keep EXCEPT !.requests = requests]
     ELSE [Keep EXCEPT !.requests = requests, !.counts = TRUE, !.of = "stored",
                       !.cancel = IF n = 3 THEN "low" ELSE "none"]

discoveryReqCB(test, answer) ==
  IF ~answer.response THEN Crash
  ELSE [Keep EXCEPT !.requests = IF test = "UNKNOWN_RESOURCE_GET"
                                 THEN InitGetRequestToUnavailableResource
                                 ELSE InitGetRequest]

\* What main asks for before its loop.
main == InitDiscovery
=============================================================================
