--------------------------- MODULE BasicOpsClient ---------------------------
(***************************************************************************)
(* What the callbacks of SimpleClientServer/occlientbasicops.cpp decide.   *)
(***************************************************************************)
EXTENDS ClientCallbacks

Tests == {"DISCOVER", "OP"}

putReqCB == Delete
postReqCB == Delete
getReqCB == Delete

InitGetRequest(resource) == <<Request("GET", resource.uri)>>
InitPutRequest(resource) == <<Request("PUT", resource.uri)>>
InitPostRequest(resource) == [i \in 1 .. 3 |-> Request("POST", resource.uri)]
InitDiscovery == <<Request("DISCOVER", Discovery)>>

\* The resource that was inserted last.
getResource(list) == Head(list)

\* A resource that is new is inserted at the front of the list, and then queried.
queryResource(test, list) ==
  LET resource == getResource(list)
  IN IF test = "OP"
     THEN InitGetRequest(resource) \o InitPutRequest(resource) \o InitPostRequest(resource)
     ELSE <<>>

\* Mutant: a resource is looked for at the address it was found at.
IsOld_ByEndpoint(list, sid, endpoint, uri) ==
  \E i \in DOMAIN list : list[i].sid = sid /\ list[i].endpoint = endpoint /\ list[i].uri = uri

\* The search of insertResource: sid and URI, regardless of the address.
IsOld(list, sid, endpoint, uri) ==
  \E i \in DOMAIN list : list[i].sid = sid /\ list[i].uri = uri

\* The list after insertResource of a resource that is new; memory may run out.
insertResource(list, sid, endpoint, uri) ==
  <<[sid |-> sid, uri |-> uri, endpoint |-> endpoint]>> \o list

\* An answer without a payload is read through NULL by collectUniqueResource.
discoveryReqCB(unicast, answer) ==
  IF ~answer.response THEN [Keep EXCEPT !.keep = ~unicast]
  ELSE IF ~answer.payload THEN Crash
  ELSE [Keep EXCEPT !.collects = TRUE, !.keep = ~unicast]

\* What main asks for before its loop.
main == InitDiscovery
=============================================================================
