---------------------------- MODULE LightClient ----------------------------
(***************************************************************************)
(* What the callbacks of examples/SimpleClientServer/occlient.cpp decide.  *)
(* Test cases that differ only in the quality of service have one name     *)
(* here, except those of observation.                                      *)
(***************************************************************************)
EXTENDS ClientCallbacks

Tests == {"DISCOVER", "GET", "GET_WITH_FILTERS", "PUT", "POST", "DELETE", "OBS",
          "GET_UNAVAILABLE", "PRESENCE", "PRESENCE_WITH_FILTER", "PRESENCE_WITH_FILTERS",
          "MULTICAST_PRESENCE", "OBS_CANCEL_IMM", "GET_WITH_OPTIONS",
          "DISCOVER_PLATFORM", "DISCOVER_DEV"}

\* The global in which InvokeOCDoResource keeps the handle of a successful request.
InvokeOCDoResource(method) == IF method = "PRESENCE" THEN "gPresenceHandle" ELSE "none"

putReqCB == Delete
postReqCB == Delete
deleteReqCB == Delete
getReqCB == Delete

\* How a callback of an observation ends when it cancels nothing.
KeepUnlessOver(r) == [Keep EXCEPT !.counts = TRUE, !.keep = r \notin {"deregister", "noOption"}]

\* Mutant: only the very notification that crosses the threshold cancels.
obsReqCB_OnlyOnce(test, r, n) ==
  IF r = "null" THEN Keep
  ELSE IF n # MaxNotifications + 1 THEN KeepUnlessOver(r)
  ELSE IF test = "OBS" THEN [Delete EXCEPT !.counts = TRUE, !.cancel = "low"]
  ELSE [KeepUnlessOver(r) EXCEPT !.cancel = "high"]

\* Every notification beyond the threshold cancels the observation it belongs to.
obsReqCB(test, r, n) ==
  IF r = "null" THEN Keep
  ELSE IF n <= MaxNotifications THEN KeepUnlessOver(r)
  ELSE IF test = "OBS" THEN [Delete EXCEPT !.counts = TRUE, !.cancel = "low"]
  ELSE [KeepUnlessOver(r) EXCEPT !.cancel = "high"]

\* The notification that reaches the threshold cancels the latest subscription.
presenceCB(r, n) ==
  IF r = "null" THEN Keep
  ELSE IF n = MaxNotifications
       THEN [Delete EXCEPT !.counts = TRUE, !.cancel = "low", !.of = "stored"]
       ELSE [Keep EXCEPT !.counts = TRUE]

PlatformDiscoveryReqCB(unicast) == [Keep EXCEPT !.keep = ~unicast]
DeviceDiscoveryReqCB(unicast) == [Keep EXCEPT !.keep = ~unicast]

\* The second filter is subscribed to only if the first was.
InitPresence(test) ==
  LET one == Request("PRESENCE", Presence)
  IN IF test = "PRESENCE_WITH_FILTERS" THEN <<one, [one EXCEPT !.ifOk = TRUE]>> ELSE <<one>>

InitGetRequestToUnavailableResource == <<Request("GET", Unknown)>>
InitObserveRequest == <<Request("OBSERVE", Light)>>
InitPutRequest == <<Request("PUT", Light)>>
InitPostRequest == [i \in 1 .. 3 |-> Request("POST", Light)]
InitGetRequest == <<Request("GET", Light)>>
InitPlatformDiscovery == <<Request("PLATFORM", Discovery)>>
InitDeviceDiscovery == <<Request("DEVICE", Discovery)>>
InitDiscovery == <<Request("DISCOVER", Discovery)>>

\* A successful DELETE starts the thread that deletes again, after 30 seconds.
InitDeleteRequest == <<[Request("DELETE", Light) EXCEPT !.again = TRUE]>>

\* The request of that thread; it starts no other.
RequestDeleteDeathResourceTask == Request("DELETE", Light)

\* The requests of a test; with TEST_DISCOVER_REQ, or an unknown test, there are none.
InitTest(test) ==
  CASE test \in {"GET", "GET_WITH_FILTERS", "GET_WITH_OPTIONS"} -> InitGetRequest
    [] test = "PUT" -> InitPutRequest
    [] test = "POST" -> InitPostRequest
    [] test = "DELETE" -> InitDeleteRequest
    [] test \in {"OBS", "OBS_CANCEL_IMM"} -> InitObserveRequest
    [] test = "GET_UNAVAILABLE" -> InitGetRequestToUnavailableResource
    [] test \in {"PRESENCE", "PRESENCE_WITH_FILTER", "PRESENCE_WITH_FILTERS",
                 "MULTICAST_PRESENCE"} -> InitPresence(test)
    [] test = "DISCOVER_PLATFORM" -> InitPlatformDiscovery
    [] test = "DISCOVER_DEV" -> InitDeviceDiscovery
    [] OTHER -> <<>>

Lists(answer, uri) == \E i \in DOMAIN answer.resources : answer.resources[i].uri = uri

\* Mutant: the test is run against every responder.
discoveryReqCB_AnyResponder(test, answer) ==
  IF ~answer.response THEN Keep
  ELSE IF ~answer.payload THEN [Delete EXCEPT !.saves = TRUE]
  ELSE [Keep EXCEPT !.saves = TRUE, !.requests = InitTest(test)]

\* The address is saved whatever the answer holds; the test is run against a responder that
\* lists /a/light, and against every one, for the transaction is kept.
discoveryReqCB(test, answer) ==
  IF ~answer.response THEN Keep
  ELSE IF ~answer.payload THEN [Delete EXCEPT !.saves = TRUE]
  ELSE [Keep EXCEPT !.saves = TRUE,
                    !.requests = IF Lists(answer, Light) THEN InitTest(test) ELSE <<>>]

\* What main asks for before its loop.
main(test, unicast) ==
  IF ~unicast /\ test = "DISCOVER_DEV" THEN InitDeviceDiscovery
  ELSE IF ~unicast /\ test = "DISCOVER_PLATFORM" THEN InitPlatformDiscovery
  ELSE InitDiscovery
=============================================================================
