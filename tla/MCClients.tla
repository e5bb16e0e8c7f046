----------------------------- MODULE MCClients -----------------------------
(* Instances of Clients for TLC. *)
EXTENDS Clients, TLC

CONSTANTS e1, e2

\* Both addresses are one device's.
MCDeviceOf == (e1 :> e1 @@ e2 :> e1)

Plain(uri) == [uri |-> uri, secure |-> FALSE]
Secure(uri) == [uri |-> uri, secure |-> TRUE]

MCResourceLists == {<<Plain(Led), Plain(Light)>>, <<Secure(Doxm), Secure(Led)>>,
                    <<Secure(Led), Secure(Doxm)>>}

\* Enough for the collection client to see its third response.
MCMaxResponses == [p \in Programs |-> IF p = "coll" THEN 3 ELSE 1]
=============================================================================
