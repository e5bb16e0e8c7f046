----------------------------- MODULE AmsClient -----------------------------
(***************************************************************************)
(* What the callbacks of ams/occlientbasicops.cpp decide: the client that  *)
(* looks for a secure resource and operates on it.                         *)
(***************************************************************************)
EXTENDS ClientCallbacks

Tests == {"DISCOVER", "OP"}

putReqCB == Delete
getReqCB == Delete

InitGetRequest(uri) == <<Request("GET", uri)>>
InitPutRequest(uri) == <<Request("PUT", uri)>>
InitDiscovery == <<Request("DISCOVER", Discovery)>>

\* The first secure resource that is not one of the security resources themselves.
FirstSecure(resources) ==
  {i \in DOMAIN resources :
     /\ resources[i].secure /\ resources[i].uri # Doxm
     /\ \A k \in 1 .. i - 1 : ~resources[k].secure \/ resources[k].uri = Doxm}

\* coapServerResource and coapSecureResource.  The URI is assigned before doxm and pstat are
\* skipped: without a secure resource the target is whatever comes last.
parseClientResponse(resources) ==
  IF resources = <<>> THEN [uri |-> "", secure |-> FALSE]
  ELSE IF FirstSecure(resources) = {}
       THEN [uri |-> resources[Len(resources)].uri, secure |-> FALSE]
       ELSE [uri |-> resources[CHOOSE i \in FirstSecure(resources) : TRUE].uri, secure |-> TRUE]

\* Only an answer with the result OC_STACK_OK counts; one without a payload is read through
\* NULL.
discoveryReqCB(test, unicast, answer) ==
  LET target == parseClientResponse(answer.resources)
  IN IF ~answer.ok THEN [Keep EXCEPT !.keep = ~unicast]
     ELSE IF ~answer.payload THEN Crash
     ELSE [Keep EXCEPT !.keep = ~unicast, !.saves = TRUE, !.secure = target.secure,
                       !.requests = IF test = "OP"
                                    THEN InitGetRequest(target.uri) \o InitPutRequest(target.uri)
                                    ELSE <<>>]

\* What main asks for before its loop.
main == InitDiscovery
=============================================================================
