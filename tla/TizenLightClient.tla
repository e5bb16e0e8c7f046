-------------------------- MODULE TizenLightClient --------------------------
(***************************************************************************)
(* What the callbacks of stack/tizen/SimpleClientServer/occlient.cpp       *)
(* decide.  Its tests are those of LightClient; it differs in when and     *)
(* what it cancels, in the answers it acts upon, and in its main loop.     *)
(***************************************************************************)
EXTENDS ClientCallbacks

\* Mutant: the handle of an observation is not kept.
InvokeOCDoResource_PresenceOnly(method) ==
  IF method = "PRESENCE" THEN "gPresenceHandle" ELSE "none"

\* The global in which the handle of a successful request is kept.
InvokeOCDoResource(method) ==
  CASE method = "OBSERVE" -> "gObserveDoHandle"
    [] method = "PRESENCE" -> "gPresenceHandle"
    [] OTHER -> "none"

putReqCB == Delete
postReqCB == Delete
deleteReqCB == Delete
getReqCB == Delete

KeepUnlessOver(r) == [Keep EXCEPT !.counts = TRUE, !.keep = r \notin {"deregister", "noOption"}]

\* Only the notification that reaches the threshold cancels, and it cancels the latest
\* observation, whichever it belongs to itself.
obsReqCB(test, r, n) ==
  IF r = "null" THEN Keep
  ELSE IF n # MaxNotifications THEN KeepUnlessOver(r)
  ELSE IF test = "OBS"
       THEN [Delete EXCEPT !.counts = TRUE, !.cancel = "low", !.of = "stored"]
       ELSE [KeepUnlessOver(r) EXCEPT !.cancel = "high", !.of = "stored"]

presenceCB(r, n) ==
  IF r = "null" THEN Keep
  ELSE IF n = MaxNotifications
       THEN [Delete EXCEPT !.counts = TRUE, !.cancel = "low", !.of = "stored"]
       ELSE [Keep EXCEPT !.counts = TRUE]

PlatformDiscoveryReqCB(unicast) == [Keep EXCEPT !.keep = ~unicast]
DeviceDiscoveryReqCB(unicast) == [Keep EXCEPT !.keep = ~unicast]

InitPresence(test) ==
  LET one == Request("PRESENCE", Presence)
  IN IF test = "PRESENCE_WITH_FILTERS" THEN <<one, [one EXCEPT !.ifOk = TRUE]>> ELSE <<one>>

InitGetRequestToUnavailableResource == <<Request("GET", Unknown)>>
InitObserveRequest == <<Request("OBSERVE", Light)>>
InitPutRequest == <<Request("PUT", Light)>>
InitPostRequest == [i \in 1 .. 3 |-> Request("POST", Light)]
InitGetRequest == <<Request("GET", Light)>>
InitPlatformDiscovery == <<Request("PLATFORM", Discovery)>>
InitDeviceDiscovery == <<Request("DEVICE", Discovery)>>
InitDiscovery == <<Request("DISCOVER", Discovery)>>
InitDeleteRequest == <<[Request("DELETE", Light) EXCEPT !.again = TRUE]>>
RequestDeleteDeathResourceTask == Request("DELETE", Light)

InitTest(test) ==
  CASE test \in {"GET", "GET_WITH_FILTERS", "GET_WITH_OPTIONS"} -> InitGetRequest
    [] test = "PUT" -> InitPutRequest
    [] test = "POST" -> InitPostRequest
    [] test = "DELETE" -> InitDeleteRequest
    [] test \in {"OBS", "OBS_CANCEL_IMM"} -> InitObserveRequest
    [] test = "GET_UNAVAILABLE" -> InitGetRequestToUnavailableResource
    [] test \in {"PRESENCE", "PRESENCE_WITH_FILTER", "PRESENCE_WITH_FILTERS",
                 "MULTICAST_PRESENCE"} -> InitPresence(test)
    [] test = "DISCOVER_PLATFORM" -> InitPlatformDiscovery
    [] test = "DISCOVER_DEV" -> InitDeviceDiscovery
    [] OTHER -> <<>>

\* Any answer with a payload is a light server's: the list is not looked at.
discoveryReqCB(test, answer) ==
  IF ~answer.payload THEN Keep
  ELSE [Keep EXCEPT !.saves = TRUE, !.requests = InitTest(test)]

\* What the thread asks for before its loop.
GMainLoopThread(test, unicast) ==
  IF ~unicast /\ test = "DISCOVER_DEV" THEN InitDeviceDiscovery
  ELSE IF ~unicast /\ test = "DISCOVER_PLATFORM" THEN InitPlatformDiscovery
  ELSE InitDiscovery
=============================================================================
