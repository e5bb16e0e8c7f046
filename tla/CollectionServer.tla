-------------------------- MODULE CollectionServer --------------------------
(***************************************************************************)
(* What the entity handlers of SimpleClientServer/ocservercoll.cpp decide. *)
(* What they answer is constant; the power that the notifier adds to is    *)
(* never shown to anybody.                                                 *)
(***************************************************************************)
EXTENDS ServerCallbacks

\* A handler tests for OC_REQUEST_FLAG alone: the GET that registers an observer, which has
\* both flags, is not answered.
IsRequest(req) == req.flag = {"request"}

\* Nor does it raise the flag: this takes OC_OBSERVE_FLAG alone, whatever the action.
RaisesFlag(req) == req.flag = {"observe"}

Answer(req) == IF ~IsRequest(req) THEN Ignore(req)
               ELSE IF req.method \in {"GET", "PUT"} THEN Respond(req, "fixed")
               ELSE Fail(req)

\* The room answers the interface named in the query, or nothing but an empty payload; it has
\* this handler only in test case 2, otherwise the stack's own.
OCEntityHandlerRoomCb(req) == Answer(req)
OCEntityHandlerLightCb(req) == Answer(req)
OCEntityHandlerFanCb(req) == Answer(req)

\* Called for resources that do not exist, whatever the flags are.
OCDeviceEntityHandlerCb(req) == [Respond(req, "none") EXCEPT !.result = "NOT_FOUND"]

\* The resources whose handles main keeps: a local variable light hides the global one.
createResources == {}
=============================================================================
