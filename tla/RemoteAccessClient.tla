------------------------- MODULE RemoteAccessClient -------------------------
(***************************************************************************)
(* What the callbacks of SimpleClientServer/ocremoteaccessclient.cpp       *)
(* decide.                                                                 *)
(***************************************************************************)
EXTENDS ClientCallbacks

Tests == {"DISCOVER", "GET", "PUT", "POST", "DELETE", "OBS", "OBS_CANCEL_IMM"}

InvokeOCDoResource(method) ==
  CASE method = "OBSERVE" -> "gObserveDoHandle"
    [] method = "PRESENCE" -> "gPresenceHandle"
    [] OTHER -> "none"

restRequestCB == Delete

KeepUnlessOver(r) == [Keep EXCEPT !.counts = TRUE, !.keep = r \notin {"deregister", "noOption"}]

\* A missing response is logged, and then read.
obsReqCB(test, r, n) ==
  IF r = "null" THEN Crash
  ELSE IF n = MaxNotifications
       THEN [Delete EXCEPT !.counts = TRUE, !.cancel = "low", !.of = "stored"]
  ELSE IF n = 1 /\ test = "OBS_CANCEL_IMM"
       THEN [KeepUnlessOver(r) EXCEPT !.cancel = "high", !.of = "stored"]
       ELSE KeepUnlessOver(r)

InitObserveRequest == <<Request("OBSERVE", Light)>>
InitPutRequest == <<Request("PUT", Light)>>
InitPostRequest == [i \in 1 .. 3 |-> Request("POST", Light)]
InitDeleteRequest == <<Request("DELETE", Light)>>
InitGetRequest == <<Request("GET", Light)>>
InitDiscovery == <<Request("DISCOVER", Discovery)>>

\* Neither a missing response nor the payload is tested for.
discoveryReqCB(test, answer) ==
  IF ~answer.response THEN Crash
  ELSE [Keep EXCEPT !.saves = TRUE,
                    !.requests = CASE test = "GET" -> InitGetRequest
                                   [] test = "PUT" -> InitPutRequest
                                   [] test = "POST" -> InitPostRequest
                                   [] test = "DELETE" -> InitDeleteRequest
                                   [] test \in {"OBS", "OBS_CANCEL_IMM"} -> InitObserveRequest
                                   [] OTHER -> <<>>]

\* What main asks for before its loop.
main == InitDiscovery
=============================================================================
