----------------------------- MODULE MCServers -----------------------------
(* Instances of Servers for TLC. *)
EXTENDS Servers, TLC

Req(r, method) == [resource |-> r, method |-> method, flag |-> {"request"},
                   action |-> "register", body |-> "none", power |-> {}, state |-> {},
                   query |-> {}]
Put(r, p) == [Req(r, "PUT") EXCEPT !.body = "rep", !.power = {p}, !.state = {TRUE}]

LightRequests ==
  {[Req(Main, "GET") EXCEPT !.query = {4}],
   [Req(Main, "GET") EXCEPT !.flag = {"request", "observe"}],
   [Req(Main, "OTHER") EXCEPT !.flag = {"observe"}, !.action = "deregister"],
   Req(Instance(1), "GET"), Put(Main, 3), Put(Instance(1), 3), Req(Main, "POST"),
   Req(Instance(0), "POST")}

LedRequests == {Req(Main, "GET"), Req(Instance(1), "GET"), Put(Main, 3), Put(Instance(1), 3),
                [Put(Main, 3) EXCEPT !.body = "other"], Req(Main, "POST"), Req(Main, "DELETE")}

SensorRequests == {Req(Main, "GET"), Put(Main, 3), Req(Main, "DELETE"), Req(Main, "OTHER")}

CollRequests ==
  {Req(Main, "GET"), Req(Fan, "PUT"), Req(Room, "GET"), Req(Unknown, "GET"), Req(Fan, "POST"),
   [Req(Main, "GET") EXCEPT !.flag = {"request", "observe"}],
   [Req(Main, "GET") EXCEPT !.flag = {"observe"}, !.action = "deregister"]}

MCRequests == [p \in Programs |->
                 CASE p = "light" -> LightRequests \cup {Req(Main, "DELETE"), Req(Unknown, "GET")}
                   [] p = "tizen" -> LightRequests
                   [] p = "coll" -> CollRequests
                   [] p \in {"get", "mraa", "discovery"} -> SensorRequests
                   [] p \in {"router", "tizenrouter", "amsservice"} -> {}
                   [] OTHER -> LedRequests]

MCConfigurations == {<<TRUE, 0>>, <<FALSE, 1>>}
=============================================================================
