-------------------------- MODULE ClientCallbacks --------------------------
(***************************************************************************)
(* What the discovery-driven sample clients have in common: the requests   *)
(* they make, the responses their callbacks are called with, and what a    *)
(* callback does.  One module per program says what its callbacks decide;  *)
(* Clients runs them.                                                      *)
(***************************************************************************)
EXTENDS Naturals, Sequences

CONSTANTS
  MaxNotifications   \* 15 notifications of an observation, 20 of presence

ASSUME ClientConstants == MaxNotifications \in Nat \ {0}

Light == "/a/light"
Led == "/a/led"
Room == "/a/room"
Unknown == "/SomeUnknownResource"
Presence == "/oic/ad"
Discovery == "/oic/res"
Doxm == "/oic/sec/doxm"

Uris == {Light, Led, Room, Unknown, Presence, Discovery, Doxm, ""}

Single == {"GET", "PUT", "POST", "DELETE"}         \* requests with one response
Discoveries == {"DISCOVER", "PLATFORM", "DEVICE"}
Methods == Single \cup Discoveries \cup {"OBSERVE", "PRESENCE"}

\* ifOk: made only when the one before it succeeded; again: starts the thread that
\* repeats it.
Request(method, uri) == [method |-> method, uri |-> uri, ifOk |-> FALSE, again |-> FALSE]
Requests == [method : Methods, uri : Uris,
             ifOk : BOOLEAN, again : BOOLEAN]

\* A callback's second argument: no client response, or one with the sequence number of a
\* registration, of its end, of a response that is no notification, or any other.
Responses == {"null", "register", "update", "deregister", "noOption"}

\* An answer to a discovery: no client response, one without a payload (with the result
\* OC_STACK_OK or not), or resources.
NullAnswer == [response |-> FALSE, ok |-> FALSE, payload |-> FALSE, resources |-> <<>>]
EmptyAnswer(ok) == [response |-> TRUE, ok |-> ok, payload |-> FALSE, resources |-> <<>>]
Answer(resources) == [response |-> TRUE, ok |-> TRUE, payload |-> TRUE, resources |-> resources]

\* What a callback does: read through NULL, save the responder's address (with the port of a
\* secure resource), collect the resources, count a notification, cancel a subscription (its
\* own, or the one whose handle was stored), make requests, keep its transaction.
Keep == [crash |-> FALSE, saves |-> FALSE, secure |-> FALSE, collects |-> FALSE,
         counts |-> FALSE, cancel |-> "none", of |-> "own", requests |-> <<>>, keep |-> TRUE]
Delete == [Keep EXCEPT !.keep = FALSE]
Crash == [Delete EXCEPT !.crash = TRUE]
Outcomes == [crash : BOOLEAN, saves : BOOLEAN, secure : BOOLEAN, collects : BOOLEAN,
             counts : BOOLEAN, cancel : {"none", "low", "high"}, of : {"own", "stored"},
             requests : Seq(Requests), keep : BOOLEAN]
=============================================================================
