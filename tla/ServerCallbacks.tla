-------------------------- MODULE ServerCallbacks --------------------------
(***************************************************************************)
(* What the sample servers' entity handlers have in common: the requests   *)
(* they are called with, and what a handler does with one.  One module per *)
(* program says what its handlers decide; Servers runs them.               *)
(***************************************************************************)
EXTENDS Naturals

CONSTANTS
  MaxInstances   \* SAMPLE_MAX_NUM_POST_INSTANCE: 2

ASSUME ServerConstants == MaxInstances \in Nat \ {0}

\* Resources by number: the one main creates, the instances that POST creates from it, the
\* fan and the room of the collection, and the one that does not exist.
Main == 0
Instance(i) == i + 1
Instances == 1 .. MaxInstances
Fan == MaxInstances + 1
Room == MaxInstances + 2
Unknown == MaxInstances + 3
Resources == 0 .. MaxInstances + 3

Methods == {"GET", "PUT", "POST", "DELETE", "OTHER"}

\* flag: of OC_REQUEST_FLAG and OC_OBSERVE_FLAG, those that are set; action: OC_OBSERVE_REGISTER
\* or OC_OBSERVE_DEREGISTER; body: no payload, a representation, or a payload of another
\* type; power, state: what a representation holds of each, one value or none; query: the
\* X of a query "power<X", if there is one.
RequestType == [resource : Resources, method : Methods,
                flag : SUBSET {"request", "observe"}, action : {"register", "deregister"},
                body : {"none", "rep", "other"},
                power : SUBSET Nat, state : SUBSET BOOLEAN, query : SUBSET Nat]

Results == {"OK", "CREATED", "ERROR", "FORBIDDEN", "NOT_FOUND"}

\* What a handler does: crash, or what may end in a crash; let gResourceUri name a resource;
\* write power and state of a resource; create an instance; delete the resource; close the
\* sensor; respond, with a payload that is absent, a representation, the URI of a new
\* instance, constant, computed from what was undefined, or a pointer that was never set;
\* free, at its end, the payload of a response that nothing but responding sets.  Only main
\* writes a state, so the order of the two writes is not seen.
Handling == [crash : {"no", "may", "must"}, uri : SUBSET Resources, resource : Resources,
             power : SUBSET Nat, state : SUBSET BOOLEAN,
             create : BOOLEAN, delete : BOOLEAN, closes : BOOLEAN,
             payload : {"none", "rep", "created", "fixed", "undefined", "unset"},
             result : Results, responds : BOOLEAN, frees : BOOLEAN]

\* Nothing is done and nothing is sent.
Ignore(req) == [crash |-> "no", uri |-> {}, resource |-> req.resource,
                power |-> {}, state |-> {},
                create |-> FALSE, delete |-> FALSE, closes |-> FALSE,
                payload |-> "none", result |-> "OK", responds |-> FALSE,
                frees |-> FALSE]

Respond(req, payload) == [Ignore(req) EXCEPT !.payload = payload, !.responds = TRUE]
Fail(req) == [Ignore(req) EXCEPT !.result = "ERROR"]
=============================================================================
